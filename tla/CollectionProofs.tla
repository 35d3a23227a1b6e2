-------------------------- MODULE CollectionProofs --------------------------
(***************************************************************************)
(* The collection is typed, whatever its tabs do (AlwaysTyped); and a tab   *)
(* alone keeps and shows what the owner asked for (OneTabKeeps,             *)
(* OneTabSeen), leaves no copy in a container it deletes (OneTabFiles) and  *)
(* never has fewer copies stored than the owner is to have                  *)
(* (OneTabNeverFewer). In order: views and the counts of them; what a       *)
(* change of a stack, the emptying of a place, a drain and a shed come to;  *)
(* the types; what each of them does to the counts; where a tab may be      *)
(* (Orderly), and what its account is in each of those moments              *)
(* (Accounted); what is in a container (Cleared); the copies of a view, of  *)
(* the parts and of what two views have in common; and what stands for the  *)
(* copies the owner is to have (Stocked).                                   *)
(***************************************************************************)
EXTENDS Collection, FoldFacts, TLAPS

-----------------------------------------------------------------------------
(* Views.                                                                  *)

\* A view of records whose keys the server had minted by m.
Maps(m) == UNION {[s -> Owned] : s \in SUBSET (1 .. m)}

\* Which functions are views.
LEMMA MapsAre ==
    ASSUME NEW m, NEW view
    PROVE  view \in Maps(m) <=> /\ view = [k \in DOMAIN view |-> view[k]]
                                /\ DOMAIN view \subseteq 1 .. m
                                /\ \A k \in DOMAIN view : view[k] \in Owned
  BY DEF Maps

\* What a record holds.
LEMMA OwnedOnes ==
    /\ \A one \in Owned : one = [id |-> one.id, n |-> one.n] /\ one.id \in Ids /\ one.n \in Nat \ {0}
    /\ \A id \in Ids, n \in Nat \ {0} : [id |-> id, n |-> n] \in Owned
  BY DEF Owned

\* A record with the copies of another in it is a record.
LEMMA MergeOwned ==
    ASSUME NEW one \in Owned, NEW other, other.n \in Nat
    PROVE  Merge(one, other) = [id |-> one.id, n |-> one.n + other.n] /\ Merge(one, other) \in Owned
  BY DEF Owned, Merge

\* Nothing is a view, of no record.
LEMMA NothingMap == ASSUME NEW m PROVE Nothing \in Maps(m) /\ DOMAIN Nothing = {}
  BY MapsAre DEF Nothing

\* One record alone is a view.
LEMMA OnlyMap ==
    ASSUME NEW m, NEW k \in 1 .. m, NEW one \in Owned
    PROVE  Only(k, one) \in Maps(m)
  BY MapsAre DEF Only

\* And holds that record.
LEMMA OnlyAt ==
    ASSUME NEW k, NEW one
    PROVE  DOMAIN Only(k, one) = {k} /\ Only(k, one)[k] = one
  BY DEF Only

\* A view less some records is a view.
LEMMA ButMap ==
    ASSUME NEW m, NEW view \in Maps(m), NEW keys
    PROVE  But(view, keys) \in Maps(m)
  BY MapsAre DEF But, Restrict

\* And holds the others as they were.
LEMMA ButAt ==
    ASSUME NEW view, NEW keys
    PROVE  /\ DOMAIN But(view, keys) = DOMAIN view \ keys
           /\ \A k \in DOMAIN view \ keys : But(view, keys)[k] = view[k]
  BY DEF But, Restrict

\* A view laid over another is a view.
LEMMA OverMap ==
    ASSUME NEW m, NEW some \in Maps(m), NEW view \in Maps(m)
    PROVE  Over(some, view) \in Maps(m)
  BY MapsAre DEF Over

\* A view with one record put in another's place is a view.
LEMMA ExceptMap ==
    ASSUME NEW m, NEW view \in Maps(m), NEW k, NEW one \in Owned
    PROVE  [view EXCEPT ![k] = one] \in Maps(m)
  BY MapsAre

\* A view stays one as the server mints more keys.
LEMMA MapsLater ==
    ASSUME NEW m \in Nat, NEW n \in Nat, m <= n, NEW view \in Maps(m)
    PROVE  view \in Maps(n)
  BY MapsAre

\* Two views of the same records are one.
LEMMA MapsEqual ==
    ASSUME NEW m, NEW v \in Maps(m), NEW w \in Maps(m), DOMAIN v = DOMAIN w, \A k \in DOMAIN v : v[k] = w[k]
    PROVE  v = w
  BY MapsAre

-----------------------------------------------------------------------------
(* Counts.                                                                 *)

Counted(view, id) == [k \in DOMAIN view |-> IF view[k].id = id THEN view[k].n ELSE 0]

\* A view is of finitely many records.
LEMMA MapFinite ==
    ASSUME NEW m \in Nat, NEW view \in Maps(m)
    PROVE  IsFiniteSet(DOMAIN view)
  BY FS_Interval, FS_Subset, MapsAre

\* A count is the sum of what each record holds of an identity.
LEMMA CountSum ==
    ASSUME NEW m \in Nat, NEW view \in Maps(m), NEW id
    PROVE  /\ Counted(view, id) \in [DOMAIN view -> Nat] /\ Count(view, id) = SumFunction(Counted(view, id))
           /\ Count(view, id) \in Nat
<1>1. Counted(view, id) \in [DOMAIN view -> Nat]
  <2>1. \A k \in DOMAIN view : view[k].n \in Nat
    BY OwnedOnes, MapsAre
  <2> QED BY <2>1 DEF Counted
<1>2. Count(view, id) = SumFunction(Counted(view, id))
  BY DEF Count, Counted
<1> QED BY <1>1, <1>2, MapFinite, SumType

\* One stack more, or one put in another's place, or one taken out.
LEMMA CountBut ==
    ASSUME NEW m \in Nat, NEW view \in Maps(m), NEW k \in DOMAIN view, NEW id
    PROVE  Count(view, id) = Count(But(view, {k}), id) + IF view[k].id = id THEN view[k].n ELSE 0
<1> DEFINE F == Counted(view, id)  G == Counted(But(view, {k}), id)
<1>1. /\ But(view, {k}) \in Maps(m) /\ DOMAIN But(view, {k}) = DOMAIN view \ {k}
      /\ \A j \in DOMAIN view \ {k} : But(view, {k})[j] = view[j]
  BY ButMap, ButAt
<1>2. /\ F \in [DOMAIN view -> Nat] /\ Count(view, id) = SumFunction(F)
      /\ G \in [DOMAIN view \ {k} -> Nat] /\ Count(But(view, {k}), id) = SumFunction(G) /\ SumFunction(G) \in Nat
  BY <1>1, CountSum
<1>3. \A j \in DOMAIN view \ {k} : G[j] = F[j]
  BY <1>1 DEF Counted
<1>4. F[k] = IF view[k].id = id THEN view[k].n ELSE 0
  BY DEF Counted
<1> HIDE DEF F, G
<1>5. SumFunction(F) = F[k] + SumFunction(G)
  <2>1. IsFiniteSet(DOMAIN view)
    BY MapFinite
  <2> QED BY <1>2, <1>3, <2>1, SumLess
<1>6. F[k] \in Nat
  BY <1>2
<1> QED BY <1>2, <1>4, <1>5, <1>6

\* The count once a record is put in a view, in another's place or as a new
\* one.
LEMMA CountOnly ==
    ASSUME NEW m \in Nat, NEW view \in Maps(m), NEW k \in 1 .. m, NEW one \in Owned, NEW id
    PROVE  Count(Over(Only(k, one), view), id)
               = Count(But(view, {k}), id) + IF one.id = id THEN one.n ELSE 0
<1> DEFINE w == Over(Only(k, one), view)
<1>1. /\ w \in Maps(m) /\ DOMAIN w = DOMAIN view \cup {k} /\ w[k] = one
      /\ \A j \in DOMAIN view : w[j] = IF j = k THEN one ELSE view[j]
  <2>1. w \in Maps(m)
    BY OnlyMap, OverMap
  <2> QED BY <2>1 DEF Over, Only
<1> HIDE DEF w
<1>2. Count(w, id) = Count(But(w, {k}), id) + IF one.id = id THEN one.n ELSE 0
  BY <1>1, CountBut
<1>3. But(w, {k}) = But(view, {k})
  BY <1>1 DEF But, Restrict
<1> QED BY <1>2, <1>3 DEF w

\* An identity counts at least what any record of it holds.
LEMMA CountLeast ==
    ASSUME NEW m \in Nat, NEW view \in Maps(m), NEW k \in DOMAIN view
    PROVE  view[k].n <= Count(view, view[k].id)
<1>1. Count(view, view[k].id) = Count(But(view, {k}), view[k].id) + view[k].n
  BY CountBut
<1>2. But(view, {k}) \in Maps(m)
  BY ButMap
<1>3. Count(But(view, {k}), view[k].id) \in Nat /\ view[k].n \in Nat
  BY <1>2, CountSum, OwnedOnes, MapsAre
<1> QED BY <1>1, <1>3

\* An identity no record is of counts none.
LEMMA CountNone ==
    ASSUME NEW m \in Nat, NEW view \in Maps(m), NEW id, \A k \in DOMAIN view : view[k].id # id
    PROVE  Count(view, id) = 0
<1> DEFINE F == Counted(view, id)
<1>1. F \in [DOMAIN view -> Nat] /\ Count(view, id) = SumFunction(F)
  BY CountSum
<1>2. \A k \in DOMAIN view : F[k] = 0
  BY DEF Counted
<1> HIDE DEF F
<1> QED BY <1>1, <1>2, MapFinite, SumSame

\* A stack that may be of none.
Stacked == [id : Ids, n : Nat]
Changes(m) == [writes : Maps(m), drops : SUBSET (1 .. m), view : Maps(m)]

\* A stack of some is a record.
LEMMA StackedOnes ==
    /\ \A one \in Stacked : one = [id |-> one.id, n |-> one.n] /\ one.id \in Ids /\ one.n \in Nat
    /\ \A one \in Stacked : one.n # 0 => one \in Owned
    /\ \A one \in Owned : one \in Stacked
  BY DEF Owned, Stacked

\* To change nothing is a change.
LEMMA NoChangeTyped ==
    ASSUME NEW m, NEW view \in Maps(m)
    PROVE  NoChange(view) \in Changes(m)
  BY NothingMap DEF NoChange, Changes

\* To put a stack in the place of a record, to merge it into another and to
\* drop it are changes.
LEMMA ApplyTyped ==
    ASSUME NEW m, NEW view \in Maps(m), NEW k, NEW next \in Stacked
    PROVE  \A change \in Apply(view, k, next) : change \in Changes(m)
<1> SUFFICES ASSUME NEW change \in Apply(view, k, next)
             PROVE  change \in Changes(m)
  OBVIOUS
<1> DEFINE into == {j \in DOMAIN view \ {k} : Joins(view[j], next)}
<1>1. CASE k \notin DOMAIN view
  <2>1. change = NoChange(view)
    BY <1>1 DEF Apply
  <2> QED BY <2>1, NoChangeTyped
<1>2. CASE k \in DOMAIN view /\ next.n = 0
  <2>1. change = [writes |-> Nothing, drops |-> {k}, view |-> But(view, {k})]
    BY <1>2 DEF Apply
  <2>2. k \in 1 .. m
    BY <1>2, MapsAre
  <2> QED BY <2>1, <2>2, NothingMap, ButMap DEF Changes
<1>3. CASE k \in DOMAIN view /\ next.n # 0 /\ into = {}
  <2>1. change = [writes |-> Only(k, next), drops |-> {}, view |-> [view EXCEPT ![k] = next]]
    BY <1>3 DEF Apply
  <2>2. k \in 1 .. m /\ next \in Owned
    BY <1>3, MapsAre, StackedOnes
  <2> QED BY <2>1, <2>2, OnlyMap, ExceptMap DEF Changes
<1>4. CASE k \in DOMAIN view /\ next.n # 0 /\ into # {}
  <2>1. PICK j \in into :
            change = [writes |-> Only(j, Merge(view[j], next)), drops |-> {k},
                      view |-> But([view EXCEPT ![j] = Merge(@, next)], {k})]
    BY <1>4 DEF Apply
  <2>2. j \in DOMAIN view /\ j \in 1 .. m /\ k \in 1 .. m /\ view[j] \in Owned /\ next.n \in Nat
    BY <1>4, MapsAre, StackedOnes
  <2>3. Merge(view[j], next) \in Owned
    BY <2>2, MergeOwned
  <2> DEFINE one == Merge(view[j], next)
  <2>4. change = [writes |-> Only(j, one), drops |-> {k}, view |-> But([view EXCEPT ![j] = one], {k})]
    BY <2>1, <2>2
  <2> HIDE DEF one
  <2>5. Only(j, one) \in Maps(m) /\ But([view EXCEPT ![j] = one], {k}) \in Maps(m)
    BY <2>2, <2>3, OnlyMap, ExceptMap, ButMap DEF one
  <2> QED BY <2>2, <2>4, <2>5 DEF Changes
<1> QED BY <1>1, <1>2, <1>3, <1>4

\* One change after another is a change.
LEMMA ThenTyped ==
    ASSUME NEW m, NEW first \in Changes(m), NEW second \in Changes(m)
    PROVE  Then(first, second) \in Changes(m)
  BY OverMap, ButMap DEF Then, Changes

-----------------------------------------------------------------------------
(* Emptying a place, one stack after another.                              *)

Loosened(view, k) == [view[k] EXCEPT !.id.place = Unfiled]
InPlace(view, place) == {k \in DOMAIN view : view[k].id.place = place}
Unfolded(view, k, changes) ==
    UNION {{Then(one, next) : next \in Apply(one.view, k, Loosened(view, k))} : one \in changes}

\* A record taken out of its place has the card and the copies it had.
LEMMA UnfiledTyped ==
    ASSUME NEW m, NEW view \in Maps(m), NEW k \in DOMAIN view
    PROVE  /\ Loosened(view, k) \in Owned /\ Loosened(view, k) \in Stacked
           /\ Loosened(view, k).id = [card |-> view[k].id.card, place |-> Unfiled]
           /\ Loosened(view, k).n = view[k].n
<1>1. view[k] \in Owned
  BY MapsAre
<1> QED BY <1>1 DEF Owned, Stacked, Ids, Loosened

\* The changes of every subset of the stacks of a place, whichever is taken first.
LEMMA EmptiedTable ==
    ASSUME NEW m \in Nat, NEW view \in Maps(m), NEW place
    PROVE  \E h \in [SUBSET InPlace(view, place) -> SUBSET Changes(m)] :
              /\ h[{}] = {NoChange(view)}
              /\ \A s \in SUBSET InPlace(view, place) : s # {} =>
                    \E k \in s : h[s] = Unfolded(view, k, h[s \ {k}])
              /\ Emptied(view, place) = h[InPlace(view, place)]
<1> DEFINE S == InPlace(view, place)
           K == SUBSET Changes(m)
           base == {NoChange(view)}
           G == [a \in K |-> [k \in S |-> Unfolded(view, k, a)]]
           pick == [s \in SUBSET S |-> CHOOSE x \in s : TRUE]
           I == CHOOSE f : f = [s \in SUBSET S |->
                    IF s = {} THEN base
                    ELSE Unfolded(view, CHOOSE x \in s : TRUE, f[s \ {CHOOSE x \in s : TRUE}])]
<1>1. IsFiniteSet(S) /\ S \subseteq DOMAIN view
  BY MapFinite, FS_Subset DEF InPlace
<1>2. base \in K
  BY NoChangeTyped
<1>3. \A a \in K, k \in S : Unfolded(view, k, a) \in K
  <2> SUFFICES ASSUME NEW a \in K, NEW k \in S, NEW one \in a,
                      NEW next \in Apply(one.view, k, Loosened(view, k))
               PROVE  Then(one, next) \in Changes(m)
    BY DEF Unfolded
  <2>1. one \in Changes(m) /\ one.view \in Maps(m)
    BY DEF Changes
  <2>2. Loosened(view, k) \in Stacked
    BY <1>1, UnfiledTyped
  <2>3. next \in Changes(m)
    BY <2>1, <2>2, ApplyTyped
  <2> QED BY <2>1, <2>3, ThenTyped
<1>4. G \in [K -> [S -> K]]
  <2> HIDE DEF K, S
  <2> QED BY <1>3
<1>5. \A s \in SUBSET S : s # {} => pick[s] \in s
  OBVIOUS
<1>6. PICK h \in [SUBSET S -> K] : IsTable(h, S, base, G, pick)
  <2> HIDE DEF G, pick, K, S, base
  <2> QED BY <1>1, <1>2, <1>4, <1>5, FoldTable
<1>7. \A s \in SUBSET S : h[s] = IF s = {} THEN base ELSE Unfolded(view, pick[s], h[s \ {pick[s]}])
  <2> TAKE s \in SUBSET S
  <2>1. h[s] = IF s = {} THEN base ELSE G[h[s \ {pick[s]}]][pick[s]]
    BY <1>6 DEF IsTable
  <2>2. CASE s # {}
    <3>1. pick[s] \in S /\ h[s \ {pick[s]}] \in K
      BY <1>5, <2>2
    <3> HIDE DEF pick, K, S
    <3> QED BY <2>1, <2>2, <3>1
  <2> QED BY <2>1, <2>2
<1>8. h = [s \in SUBSET S |->
              IF s = {} THEN base
              ELSE Unfolded(view, CHOOSE x \in s : TRUE, h[s \ {CHOOSE x \in s : TRUE}])]
  <2>1. \A s \in SUBSET S : pick[s] = CHOOSE x \in s : TRUE
    OBVIOUS
  <2> HIDE DEF pick, S, base
  <2>2. \A s \in SUBSET S : h[s] = IF s = {} THEN base
              ELSE Unfolded(view, CHOOSE x \in s : TRUE, h[s \ {CHOOSE x \in s : TRUE}])
    BY <1>7, <2>1
  <2> QED BY <1>6, <2>2
<1>9. I = [s \in SUBSET S |->
              IF s = {} THEN base
              ELSE Unfolded(view, CHOOSE x \in s : TRUE, I[s \ {CHOOSE x \in s : TRUE}])]
  <2> HIDE DEF G, pick, K, S, base
  <2> QED BY <1>8
<1>10. Emptied(view, place) = I[S]
  BY DEF Emptied, FoldSet, MapThenFoldSet, Unfolded, Loosened, InPlace
<1>11. \A s \in SUBSET S : I[s] = IF s = {} THEN base ELSE Unfolded(view, pick[s], I[s \ {pick[s]}])
  <2> HIDE DEF I, S, base
  <2> QED BY <1>9
<1>12. I = [s \in SUBSET S |-> I[s]]
  <2> HIDE DEF I, S, base
  <2> QED BY <1>9
<1> HIDE DEF I, pick
<1> DEFINE N == {n \in Nat : \A s \in SUBSET S : Cardinality(s) = n => I[s] \in K}
<1>13. \A s \in SUBSET S : IsFiniteSet(s) /\ Cardinality(s) \in Nat /\ (Cardinality(s) = 0 <=> s = {})
  BY <1>1, FS_Subset, FS_CardinalityType, FS_EmptySet
<1>14. 0 \in N
  <2> HIDE DEF K, S, base
  <2> QED BY <1>2, <1>11, <1>13
<1>15. ASSUME NEW n \in Nat, n \in N PROVE n + 1 \in N
  <2> SUFFICES ASSUME NEW s \in SUBSET S, Cardinality(s) = n + 1 PROVE I[s] \in K
    OBVIOUS
  <2>1. s # {} /\ pick[s] \in s /\ pick[s] \in S
    BY <1>5, <1>13
  <2>2. Cardinality(s \ {pick[s]}) = n
    BY <1>13, <2>1, OneLess
  <2>3. I[s \ {pick[s]}] \in K
    BY <1>15, <2>2
  <2>4. Unfolded(view, pick[s], I[s \ {pick[s]}]) \in K
    BY <1>3, <2>1, <2>3
  <2> HIDE DEF K, S
  <2> QED BY <1>11, <2>1, <2>4
<1>16. \A n \in Nat : n \in N
  <2>1. \A n \in Nat : n \in N => n + 1 \in N
    BY <1>15
  <2> HIDE DEF N
  <2> QED BY <1>14, <2>1, NatSetInduction
<1>17. I \in [SUBSET S -> K]
  <2>1. \A s \in SUBSET S : I[s] \in K
    BY <1>13, <1>16
  <2> HIDE DEF K, S
  <2> QED BY <1>12, <2>1
<1>18. \A s \in SUBSET S : s # {} => \E k \in s : I[s] = Unfolded(view, k, I[s \ {k}])
  BY <1>5, <1>11
<1>19. I[{}] = base
  <2> HIDE DEF S, base
  <2> QED BY <1>11
<1> HIDE DEF S, K
<1> QED BY <1>10, <1>17, <1>18, <1>19 DEF S, K

\* Whichever order a place is emptied in comes to a change.
LEMMA EmptiedTyped ==
    ASSUME NEW m \in Nat, NEW view \in Maps(m), NEW place
    PROVE  \A change \in Emptied(view, place) : change \in Changes(m)
<1>1. PICK h \in [SUBSET InPlace(view, place) -> SUBSET Changes(m)] :
              /\ h[{}] = {NoChange(view)}
              /\ \A s \in SUBSET InPlace(view, place) : s # {} =>
                    \E k \in s : h[s] = Unfolded(view, k, h[s \ {k}])
              /\ Emptied(view, place) = h[InPlace(view, place)]
  BY EmptiedTable
<1> QED BY <1>1

-----------------------------------------------------------------------------
(* What a drain writes.                                                    *)

Entry(part, id) == [id |-> id, n |-> part[id]]
Filled(part) == {id \in Ids : part[id] > 0}

\* The entries that join a record, where each is and what it was.
Joining(into, at, was, part, view, last, writes) ==
    /\ into \subseteq Filled(part)
    /\ \A id \in into :
          /\ was[id].id = id
          /\ \/ at[id] \in DOMAIN last /\ was[id] = last[at[id]]
             \/ at[id] \in DOMAIN view /\ was[id] = view[at[id]]
    /\ writes.updates = [k \in {at[id] : id \in into} |->
                            LET id == CHOOSE id \in into : at[id] = k
                            IN  Merge(was[id], Entry(part, id))]
    /\ writes.creates = {Entry(part, id) : id \in Filled(part) \ into}

\* What a drain writes joins some entries of the part to records and makes
\* records of the rest.
LEMMA DrainedJoins ==
    ASSUME NEW part, NEW view, NEW last, NEW writes \in Drained(part, view, last)
    PROVE  /\ \E into, at, was : Joining(into, at, was, part, view, last, writes)
           /\ writes = [updates |-> writes.updates, creates |-> writes.creates]
<1> DEFINE ids == Filled(part)
           found == [id \in ids |-> Index(view, last, id)]
           Joined(id, at) == at[2].n + part[id] <= COPIES
           All == {f \in [ids -> UNION {found[id] : id \in ids} \cup {<<>>}] :
                       \A id \in ids : IF found[id] = {} THEN f[id] = <<>> ELSE f[id] \in found[id]}
           Into(pick) == {id \in ids : found[id] # {} /\ Joined(id, pick[id])}
           Writes(pick) ==
               [updates |-> [k \in {pick[id][1] : id \in Into(pick)} |->
                   LET id == CHOOSE id \in Into(pick) : pick[id][1] = k
                   IN  Merge(pick[id][2], Entry(part, id))],
                creates |-> {Entry(part, id) : id \in ids \ Into(pick)}]
<1>1. Drained(part, view, last) = {Writes(pick) : pick \in All}
  BY DEF Drained, Filled, Entry
<1>2. PICK pick \in All : writes = Writes(pick)
  BY <1>1
<1> DEFINE into == Into(pick)
           at == [id \in into |-> pick[id][1]]
           was == [id \in into |-> pick[id][2]]
<1>3. \A id \in into : pick[id] \in Index(view, last, id)
  BY <1>2
<1>4. ASSUME NEW id \in into
      PROVE  /\ was[id].id = id
             /\ \/ at[id] \in DOMAIN last /\ was[id] = last[at[id]]
                \/ at[id] \in DOMAIN view /\ was[id] = view[at[id]]
  <2>1. \/ \E k \in DOMAIN last : last[k].id = id /\ pick[id] = <<k, last[k]>>
        \/ \E k \in DOMAIN view : view[k].id = id /\ pick[id] = <<k, view[k]>>
    <3>1. pick[id] \in Index(view, last, id)
      BY <1>3
    <3> HIDE DEF into, All
    <3> QED BY <3>1 DEF Index
  <2>2. at[id] = pick[id][1] /\ was[id] = pick[id][2]
    OBVIOUS
  <2> HIDE DEF at, was, into
  <2> QED BY <2>1, <2>2
<1>5. writes.updates = [k \in {at[id] : id \in into} |->
                            LET id == CHOOSE id \in into : at[id] = k
                            IN  Merge(was[id], Entry(part, id))]
  <2>1. writes.updates = [k \in {pick[id][1] : id \in into} |->
                   LET id == CHOOSE id \in into : pick[id][1] = k
                   IN  Merge(pick[id][2], Entry(part, id))]
    BY <1>2
  <2>2. \A id \in into : at[id] = pick[id][1] /\ was[id] = pick[id][2]
    OBVIOUS
  <2>3. {pick[id][1] : id \in into} = {at[id] : id \in into}
    BY <2>2
  <2>4. ASSUME NEW k \in {at[id] : id \in into}
        PROVE  (CHOOSE id \in into : pick[id][1] = k) = (CHOOSE id \in into : at[id] = k)
               /\ (CHOOSE id \in into : at[id] = k) \in into
    <3> HIDE DEF into, at, was
    <3>1. \A id : (id \in into /\ pick[id][1] = k) <=> (id \in into /\ at[id] = k)
      BY <2>2
    <3> QED BY <3>1
  <2> HIDE DEF into, at, was
  <2>5. \A k \in {at[id] : id \in into} :
           (LET id == CHOOSE id \in into : pick[id][1] = k IN Merge(pick[id][2], Entry(part, id)))
           = (LET id == CHOOSE id \in into : at[id] = k IN Merge(was[id], Entry(part, id)))
    BY <2>2, <2>4
  <2> QED BY <2>1, <2>3, <2>5
<1>6. writes.creates = {Entry(part, id) : id \in Filled(part) \ into}
  BY <1>2
<1>7. into \subseteq Filled(part)
  OBVIOUS
<1>8. writes = [updates |-> writes.updates, creates |-> writes.creates]
  BY <1>2
<1> HIDE DEF into, at, was
<1>9. Joining(into, at, was, part, view, last, writes)
  BY <1>4, <1>5, <1>6, <1>7 DEF Joining
<1> QED BY <1>8, <1>9
\* Those writes are records under keys the server has minted, and records to
\* make.
LEMMA JoiningTyped ==
    ASSUME NEW m \in Nat, NEW view \in Maps(m), NEW last \in Maps(m), NEW part \in Entries,
           NEW writes, NEW into, NEW at, NEW was, Joining(into, at, was, part, view, last, writes)
    PROVE  writes.updates \in Maps(m) /\ writes.creates \subseteq Owned
<1>1. ASSUME NEW id \in into
      PROVE  at[id] \in 1 .. m /\ was[id] \in Owned /\ part[id] \in Nat \ {0} /\ id \in Ids
  BY MapsAre DEF Joining, Filled, Entries
<1>2. ASSUME NEW id \in Filled(part)
      PROVE  Entry(part, id) \in Owned
  BY OwnedOnes DEF Filled, Entries, Entry
<1> DEFINE Mine(k) == CHOOSE id \in into : at[id] = k
<1>3. ASSUME NEW k \in {at[id] : id \in into}
      PROVE  Merge(was[Mine(k)], Entry(part, Mine(k))) \in Owned
  <2>1. Mine(k) \in into
    OBVIOUS
  <2> HIDE DEF Mine
  <2>2. Entry(part, Mine(k)).n \in Nat /\ was[Mine(k)] \in Owned
    BY <1>1, <2>1 DEF Entry
  <2> QED BY <2>2, MergeOwned
<1>4. writes.updates = [k \in {at[id] : id \in into} |-> Merge(was[Mine(k)], Entry(part, Mine(k)))]
  BY DEF Joining
<1> HIDE DEF Mine
<1>5. {at[id] : id \in into} \subseteq 1 .. m
  BY <1>1
<1>6. writes.updates \in Maps(m)
  BY <1>3, <1>4, <1>5, MapsAre
<1>7. writes.creates \subseteq Owned
  BY <1>2 DEF Joining
<1> QED BY <1>6, <1>7

\* So what a drain writes is.
LEMMA DrainedTyped ==
    ASSUME NEW m \in Nat, NEW view \in Maps(m), NEW last \in Maps(m), NEW part \in Entries,
           NEW writes \in Drained(part, view, last), IsFiniteSet(Ids)
    PROVE  writes.updates \in Maps(m) /\ writes.creates \subseteq Owned /\ IsFiniteSet(writes.creates)
<1>1. PICK into, at, was : Joining(into, at, was, part, view, last, writes)
  BY DrainedJoins
<1>2. IsFiniteSet(writes.creates)
  <2>1. IsFiniteSet(Filled(part) \ into)
    BY FS_Subset DEF Filled
  <2> DEFINE s == Filled(part) \ into
             f == [id \in s |-> Entry(part, id)]
             T == {Entry(part, id) : id \in s}
  <2>2. f \in Surjection(s, T)
    BY DEF Surjection
  <2>3. IsFiniteSet(T)
    <3> HIDE DEF f, s, T
    <3> QED BY <2>1, <2>2, FS_Surjection DEF s
  <2> QED BY <1>1, <2>2, <2>3 DEF Joining
<1> QED BY <1>1, <1>2, JoiningTyped

-----------------------------------------------------------------------------
(* What a shed leaves.                                                     *)

Listings == UNION {[s -> Entries] : s \in SUBSET Parts}

\* Which functions are listings of parts.
LEMMA ListingsAre ==
    ASSUME NEW some
    PROVE  some \in Listings <=> /\ some = [p \in DOMAIN some |-> some[p]]
                                 /\ DOMAIN some \subseteq Parts
                                 /\ \A p \in DOMAIN some : some[p] \in Entries
  BY DEF Listings

\* No part is a listing.
LEMMA NothingListing == Nothing \in Listings
  BY ListingsAre DEF Nothing

\* Some parts of a listing are one.
LEMMA RestrictListing ==
    ASSUME NEW some \in Listings, NEW s \in SUBSET DOMAIN some
    PROVE  Restrict(some, s) \in Listings /\ DOMAIN Restrict(some, s) = s
  BY ListingsAre DEF Restrict

\* The parts left when some are taken are one.
LEMMA ButListing ==
    ASSUME NEW some \in Listings, NEW s
    PROVE  But(some, s) \in Listings
  BY ListingsAre DEF But, Restrict

\* Parts laid over others are one.
LEMMA OverListing ==
    ASSUME NEW some \in Listings, NEW others \in Listings
    PROVE  Over(some, others) \in Listings
  BY ListingsAre DEF Over

EachOf(listing, id) == [p \in DOMAIN listing |-> listing[p][id]]

\* What waits of an identity is the sum of what each part holds of it.
LEMMA WaitingSum ==
    ASSUME IsFiniteSet(Parts), NEW some \in Listings, NEW id \in Ids
    PROVE  /\ IsFiniteSet(DOMAIN some) /\ EachOf(some, id) \in [DOMAIN some -> Nat]
           /\ Waiting(some, id) = SumFunction(EachOf(some, id)) /\ Waiting(some, id) \in Nat
<1>1. IsFiniteSet(DOMAIN some)
  BY ListingsAre, FS_Subset
<1>2. EachOf(some, id) \in [DOMAIN some -> Nat]
  BY ListingsAre DEF EachOf, Entries
<1>3. Waiting(some, id) = SumFunction(EachOf(some, id))
  BY DEF Waiting, EachOf
<1> QED BY <1>1, <1>2, <1>3, SumType

Earlier(listing, id, p) == [q \in DOMAIN listing |-> IF q < p THEN listing[q][id] ELSE 0]
Owed(listing, id, copies, p) ==
    IF SumFunction(Earlier(listing, id, p)) >= copies THEN 0 ELSE copies - SumFunction(Earlier(listing, id, p))
Left(listing, id, copies, p) ==
    IF listing[p][id] <= Owed(listing, id, copies, p) THEN 0 ELSE listing[p][id] - Owed(listing, id, copies, p)
Spared(listing, id, copies) ==
    [p \in DOMAIN listing |-> [listing[p] EXCEPT ![id] = Left(listing, id, copies, p)]]

\* A shed is the parts with their copies spared, less the parts that leaves
\* empty.
LEMMA ShedIs ==
    ASSUME NEW listing, NEW id, NEW copies
    PROVE  Shed(listing, id, copies)
               = Restrict(Spared(listing, id, copies),
                          {p \in DOMAIN listing : ~Empty(Spared(listing, id, copies)[p])})
  BY DEF Shed, RestrictValues, Spared, Left, Owed, Earlier

\* What the parts before p hold, what is still owed there and what is left of p
\* are numbers.
LEMMA LeftTyped ==
    ASSUME IsFiniteSet(Parts), NEW listing \in Listings, NEW id \in Ids, NEW copies \in Nat,
           NEW p \in DOMAIN listing
    PROVE  /\ SumFunction(Earlier(listing, id, p)) \in Nat /\ Owed(listing, id, copies, p) \in Nat
           /\ Left(listing, id, copies, p) \in Nat
<1>1. Earlier(listing, id, p) \in [DOMAIN listing -> Nat]
  BY ListingsAre DEF Earlier, Entries
<1>2. SumFunction(Earlier(listing, id, p)) \in Nat
  BY <1>1, WaitingSum, SumType
<1>3. listing[p][id] \in Nat
  BY ListingsAre DEF Entries
<1> QED BY <1>2, <1>3 DEF Owed, Left

\* A shed leaves a listing, of no part there was not.
LEMMA ShedTyped ==
    ASSUME IsFiniteSet(Parts), NEW listing \in Listings, NEW id \in Ids, NEW copies \in Nat
    PROVE  /\ Spared(listing, id, copies) \in Listings
           /\ Shed(listing, id, copies) \in Listings
           /\ DOMAIN Shed(listing, id, copies) \subseteq DOMAIN listing
<1> DEFINE kept == Spared(listing, id, copies)
<1>1. ASSUME NEW p \in DOMAIN listing
      PROVE  kept[p] \in Entries
  <2>1. Left(listing, id, copies, p) \in Nat /\ listing[p] \in Entries
    BY LeftTyped, ListingsAre
  <2> QED BY <2>1 DEF Spared, Entries
<1>2. kept \in Listings /\ DOMAIN kept = DOMAIN listing
  <2>1. kept = [p \in DOMAIN kept |-> kept[p]] /\ DOMAIN kept = DOMAIN listing
    BY DEF Spared
  <2>2. DOMAIN listing \subseteq Parts
    BY ListingsAre
  <2> HIDE DEF kept
  <2> QED BY <1>1, <2>1, <2>2, ListingsAre
<1> HIDE DEF kept
<1>3. Shed(listing, id, copies) = Restrict(kept, {p \in DOMAIN listing : ~Empty(kept[p])})
  BY ShedIs DEF kept
<1> QED BY <1>2, <1>3, RestrictListing DEF kept

\* There are finitely many identities: the cards and the places are.
LEMMA FiniteIds == IsFiniteSet(Ids)
<1> DEFINE P == Places \cup {Unfiled}
           f == [id \in Ids |-> <<id.card, id.place>>]
<1>1. IsFiniteSet(P)
  BY FiniteAssumption, FS_AddElement
<1>2. IsFiniteSet(Cards \X P)
  BY <1>1, FiniteAssumption, FS_Product
<1>3. f \in Injection(Ids, Cards \X P)
  <2>1. f \in [Ids -> Cards \X P]
    BY DEF Ids
  <2>2. ASSUME NEW a \in Ids, NEW b \in Ids, f[a] = f[b]
        PROVE  a = b
    <3>1. a.card = b.card /\ a.place = b.place
      BY <2>2
    <3> QED BY <3>1 DEF Ids
  <2> HIDE DEF f
  <2>3. DOMAIN f = Ids
    BY <2>1
  <2> QED BY <2>1, <2>2, <2>3 DEF Injection, IsInjective
<1> QED BY <1>2, <1>3, FS_Injection

\* A part holds a number of cards.
LEMMA AllOfType == ASSUME NEW part \in Entries PROVE AllOf(part) \in Nat
  BY FiniteIds, SumType DEF AllOf, Entries

-----------------------------------------------------------------------------
(* Types.                                                                  *)

Kinds == {"none", "add", "made", "edit", "unfile", "drop"}
Readings(m) == [at : 1 .. Keys + 1, seen : Maps(m), on : BOOLEAN]
PressesOf(m) == [kind : Kinds, makes : SUBSET Owned, writes : Maps(m), drops : SUBSET (1 .. m),
                 view : Maps(m), place : Places \cup {Unfiled}, gain : {0, 1}]
CallsOf(m) == [said : {"nothing", "out", "landed", "denied"}, updates : Maps(m),
               creates : {c \in SUBSET Owned : IsFiniteSet(c)}, takes : SUBSET Parts,
               leaves : Listings, wrote : Maps(m), sheds : BOOLEAN]

RepoTyped == /\ minted \in 0 .. Keys
             /\ repo \in Maps(minted)
             /\ parts \in Listings
             /\ coming \in SUBSET Parts
             /\ places \in SUBSET Places
OwnerTyped == /\ wanted \in Entries
              /\ least \in Nat
              /\ sure \in BOOLEAN
              /\ astray \in BOOLEAN
              /\ pressed \in 0 .. Presses
ViewTyped == /\ cache \in Maps(minted)
             /\ open \in [Tabs -> BOOLEAN]
             /\ reading \in [Tabs -> Readings(minted)]
             /\ held \in [Tabs -> Maps(minted)]
             /\ ready \in [Tabs -> BOOLEAN]
             /\ fresh \in [Tabs -> BOOLEAN]
             /\ since \in [Tabs -> Maps(minted)]
ImportTyped == /\ pending \in [Tabs -> Listings]
               /\ listed \in [Tabs -> BOOLEAN]
               /\ later \in [Tabs -> Maps(minted)]
CallTyped == /\ press \in [Tabs -> PressesOf(minted)]
             /\ aside \in [Tabs -> PressesOf(minted)]
             /\ out \in [Tabs -> CallsOf(minted)]

\* Every view holds records whose keys the server has minted.
Typed == RepoTyped /\ OwnerTyped /\ ViewTyped /\ ImportTyped /\ CallTyped

\* A tab that reads nothing, presses nothing and calls nothing is in a state of
\* its type.
LEMMA IdleTyped ==
    ASSUME NEW m \in Nat
    PROVE  /\ Unread \in Readings(m) /\ [Unread EXCEPT !.on = TRUE] \in Readings(m)
           /\ NoPress \in PressesOf(m) /\ NotOut \in CallsOf(m)
<1>1. Nothing \in Maps(m) /\ Nothing \in Listings
  BY NothingMap, NothingListing
<1>2. Keys \in Nat
  BY BoundsAssumption
<1>3. {} \in {c \in SUBSET Owned : IsFiniteSet(c)}
  BY FS_EmptySet
<1>4. Unread \in Readings(m) /\ [Unread EXCEPT !.on = TRUE] \in Readings(m)
  <2>1. Keys + 1 \in 1 .. Keys + 1
    BY <1>2
  <2>2. Unread \in Readings(m)
    BY <1>1, <2>1 DEF Unread, Readings
  <2> QED BY <2>2 DEF Readings
<1>5. NoPress \in PressesOf(m)
  BY <1>1 DEF NoPress, PressesOf, Kinds
<1>6. NotOut \in CallsOf(m)
  BY <1>1, <1>3 DEF NotOut, CallsOf
<1> QED BY <1>4, <1>5, <1>6

\* Whatever is typed by the keys minted stays so as more are.
LEMMA TypedLater ==
    ASSUME NEW m \in Nat, NEW n \in Nat, m <= n
    PROVE  /\ Maps(m) \subseteq Maps(n) /\ Readings(m) \subseteq Readings(n)
           /\ PressesOf(m) \subseteq PressesOf(n) /\ CallsOf(m) \subseteq CallsOf(n)
<1>1. Maps(m) \subseteq Maps(n) /\ 1 .. m \subseteq 1 .. n
  BY MapsLater
<1>2. Readings(m) \subseteq Readings(n)
  BY <1>1 DEF Readings
<1>3. PressesOf(m) \subseteq PressesOf(n)
  BY <1>1 DEF PressesOf
<1>4. CallsOf(m) \subseteq CallsOf(n)
  BY <1>1 DEF CallsOf
<1> QED BY <1>1, <1>2, <1>3, <1>4

\* The types the proof needs are at least those the runs check.
LEMMA TypedTypeOK == Typed => TypeOK
<1> SUFFICES ASSUME Typed PROVE TypeOK
  OBVIOUS
<1>1. ASSUME NEW view \in Maps(minted) PROVE IsView(view)
  <2>1. minted \in Nat /\ minted <= Keys /\ Keys \in Nat
    BY BoundsAssumption DEF Typed, RepoTyped
  <2>2. DOMAIN view \subseteq 1 .. minted /\ \A k \in DOMAIN view : view[k] \in Owned
    BY MapsAre
  <2> QED BY <2>1, <2>2 DEF IsView
<1>2. ASSUME NEW some \in Listings PROVE IsListing(some)
  BY ListingsAre DEF IsListing
<1>3. 1 .. minted \subseteq 1 .. Keys
  BY BoundsAssumption DEF Typed, RepoTyped
<1>4. ASSUME NEW t \in Tabs
      PROVE  /\ IsView(held[t]) /\ IsView(since[t]) /\ IsView(later[t])
             /\ IsListing(pending[t])
             /\ reading[t].at \in 1 .. Keys + 1 /\ IsView(reading[t].seen)
  BY <1>1, <1>2 DEF Typed, ViewTyped, ImportTyped, Readings
<1>5. ASSUME NEW t \in Tabs PROVE IsPress(press[t]) /\ IsPress(aside[t])
  <2>1. press[t] \in PressesOf(minted) /\ aside[t] \in PressesOf(minted)
    BY DEF Typed, CallTyped
  <2>2. ASSUME NEW one \in PressesOf(minted) PROVE IsPress(one)
    BY <1>1, <1>3 DEF PressesOf, Kinds, IsPress
  <2> QED BY <2>1, <2>2
<1>6. ASSUME NEW t \in Tabs
      PROVE  /\ out[t].said \in {"nothing", "out", "landed", "denied"}
             /\ IsView(out[t].updates) /\ IsView(out[t].wrote)
             /\ \A one \in out[t].creates : one \in Owned
             /\ out[t].takes \subseteq Parts /\ IsListing(out[t].leaves)
  <2>1. out[t] \in CallsOf(minted)
    BY DEF Typed, CallTyped
  <2> QED BY <1>1, <1>2, <2>1 DEF CallsOf
<1>7. IsView(repo) /\ IsView(cache) /\ IsListing(parts)
  BY <1>1, <1>2 DEF Typed, RepoTyped, ViewTyped
<1> QED BY <1>4, <1>5, <1>6, <1>7 DEF Typed, RepoTyped, OwnerTyped, ViewTyped, ImportTyped, TypeOK

\* The first states are typed.
LEMMA TypedInit == Init => Typed
<1> SUFFICES ASSUME Init PROVE Typed
  OBVIOUS
<1>1. PICK n \in 0 .. Keys : Start \in [1 .. n -> Owned]
  BY StartAssumption
<1>2. n \in Nat /\ Keys \in Nat /\ DOMAIN Start = 1 .. n
  BY <1>1, BoundsAssumption
<1>3. Cardinality(DOMAIN Start) = n
  BY <1>2, FS_Interval
<1>4. Start \in Maps(n)
  BY <1>1, MapsAre
<1>5. minted = n /\ minted \in Nat
  BY <1>2, <1>3 DEF Init
<1>6. Nothing \in Maps(minted) /\ Nothing \in Listings
  BY NothingMap, NothingListing
<1>7. RepoTyped
  BY <1>1, <1>4, <1>5, <1>6 DEF Init, RepoTyped
<1>8. OwnerTyped
  <2>1. \A id \in Ids : Count(Start, id) \in Nat
    BY <1>2, <1>4, CountSum
  <2>2. Copies(Start) \in Nat
    <3>1. [k \in DOMAIN Start |-> Start[k].n] \in [DOMAIN Start -> Nat]
      BY <1>1, OwnedOnes
    <3> QED BY <1>2, <1>4, <3>1, MapFinite, SumType DEF Copies
  <2>3. wanted \in Entries
    BY <2>1 DEF Init, Entries
  <2>4. sure \in BOOLEAN /\ astray \in BOOLEAN
    BY DEF Init
  <2>5. pressed \in 0 .. Presses /\ least \in Nat
    BY <2>2, BoundsAssumption DEF Init
  <2> QED BY <2>3, <2>4, <2>5 DEF OwnerTyped
<1>9. /\ Unread \in Readings(minted) /\ NoPress \in PressesOf(minted) /\ NotOut \in CallsOf(minted)
  BY <1>5, IdleTyped
<1>10. ViewTyped
  BY <1>6, <1>9 DEF Init, ViewTyped
<1>11. ImportTyped /\ CallTyped
  BY <1>6, <1>9 DEF Init, ImportTyped, CallTyped
<1> QED BY <1>7, <1>8, <1>10, <1>11 DEF Typed

\* What waits is a number.
LEMMA WaitingType ==
    ASSUME NEW some \in Listings, NEW id \in Ids
    PROVE  Waiting(some, id) \in Nat
  BY FiniteAssumption, WaitingSum

\* What the repository holds of an identity is a number.
LEMMA InRepoType ==
    ASSUME Typed, NEW id \in Ids
    PROVE  InRepo(id) \in Nat
<1>1. minted \in Nat /\ repo \in Maps(minted) /\ parts \in Listings
  BY BoundsAssumption DEF Typed, RepoTyped
<1> QED BY <1>1, CountSum, WaitingType DEF InRepo

\* What the owner wants stays a number for each identity.
LEMMA AsksTyped ==
    ASSUME Typed, NEW more, NEW fewer, NEW copies \in Nat, Asks(more, fewer, copies)
    PROVE  wanted' \in Entries
  BY DEF Typed, OwnerTyped, Entries, Asks, Less

\* What every action may count on.
LEMMA TypedTab ==
    ASSUME Typed, NEW t \in Tabs
    PROVE  /\ minted \in Nat /\ Keys \in Nat
           /\ Nothing \in Maps(minted) /\ Nothing \in Listings
           /\ Unread \in Readings(minted) /\ [Unread EXCEPT !.on = TRUE] \in Readings(minted)
           /\ NoPress \in PressesOf(minted) /\ NotOut \in CallsOf(minted)
           /\ held[t] \in Maps(minted) /\ since[t] \in Maps(minted) /\ later[t] \in Maps(minted)
           /\ reading[t] \in Readings(minted) /\ pending[t] \in Listings
           /\ press[t] \in PressesOf(minted) /\ aside[t] \in PressesOf(minted)
           /\ out[t] \in CallsOf(minted)
<1>1. minted \in Nat /\ Keys \in Nat
  BY BoundsAssumption DEF Typed, RepoTyped
<1>2. Nothing \in Maps(minted) /\ Nothing \in Listings
  BY NothingMap, NothingListing
<1>3. /\ Unread \in Readings(minted) /\ [Unread EXCEPT !.on = TRUE] \in Readings(minted)
      /\ NoPress \in PressesOf(minted) /\ NotOut \in CallsOf(minted)
  BY <1>1, IdleTyped
<1> QED BY <1>1, <1>2, <1>3 DEF Typed, ViewTyped, ImportTyped, CallTyped

\* An account goes astray or does not.
LEMMA StrayTyped == ASSUME NEW met, Straying(met) PROVE astray' \in BOOLEAN
  BY DEF Straying

\* A press begins, and the one under way is put aside.
LEMMA BeginTyped ==
    ASSUME Typed, NEW t \in Tabs, NEW one \in PressesOf(minted), Begin(t, one)
    PROVE  press' \in [Tabs -> PressesOf(minted)] /\ aside' \in [Tabs -> PressesOf(minted)]
  BY TypedTab DEF Typed, CallTyped, Begin

\* Copies are counted.
LEMMA InAllType == ASSUME Typed PROVE InAll \in Nat
<1>1. minted \in Nat /\ repo \in Maps(minted) /\ parts \in Listings
  BY BoundsAssumption DEF Typed, RepoTyped
<1>2. Copies(repo) \in Nat
  <2>1. [k \in DOMAIN repo |-> repo[k].n] \in [DOMAIN repo -> Nat]
    BY <1>1, MapsAre, OwnedOnes
  <2> QED BY <1>1, <2>1, MapFinite, SumType DEF Copies
<1>3. SumFunction([p \in DOMAIN parts |-> SumFunction(parts[p])]) \in Nat
  <2>1. IsFiniteSet(DOMAIN parts)
    BY <1>1, ListingsAre, FiniteAssumption, FS_Subset
  <2>2. [p \in DOMAIN parts |-> SumFunction(parts[p])] \in [DOMAIN parts -> Nat]
    BY <1>1, ListingsAre, AllOfType DEF AllOf
  <2> QED BY <2>1, <2>2, SumType
<1> QED BY <1>2, <1>3 DEF InAll

\* Types: a tab opens.
LEMMA OpensTyped == ASSUME Typed, NEW t \in Tabs, Opens(t) PROVE Typed'
<1>1. [Unread EXCEPT !.on = TRUE] \in Readings(minted)
  BY TypedTab
<1> QED BY <1>1 DEF Typed, Opens, repoVars, ownerVars, importVars, RepoTyped, OwnerTyped, ViewTyped,
               ImportTyped, CallTyped

\* Types: a tab paints what the browser last kept.
LEMMA PaintsTyped == ASSUME Typed, NEW t \in Tabs, Paints(t) PROVE Typed'
<1>1. Fold(cache, since[t]) \in Maps(minted)
  BY TypedTab, OverMap DEF Typed, ViewTyped, Fold
<1> QED BY <1>1 DEF Typed, Paints, repoVars, ownerVars, importVars, RepoTyped, OwnerTyped, ViewTyped,
               ImportTyped, CallTyped

\* Types: a tab reads one page more of the repository.
LEMMA ReadsPageTyped == ASSUME Typed, NEW t \in Tabs, ReadsPage(t) PROVE Typed'
<1> DEFINE k == Max(Unpaged(t))
           page == [reading[t] EXCEPT !.at = k, !.seen = Over(Only(k, repo[k]), @)]
<1>1. reading[t] \in Readings(minted) /\ minted \in Nat /\ repo \in Maps(minted) /\ minted <= Keys /\ Keys \in Nat
  BY TypedTab DEF Typed, RepoTyped
<1>2. k \in Unpaged(t)
  <2>1. Unpaged(t) \in SUBSET (1 .. minted) /\ Unpaged(t) # {}
    BY <1>1, MapsAre DEF Unpaged, ReadsPage
  <2> QED BY <1>1, <2>1, Greatest
<1> HIDE DEF k
<1>3. k \in 1 .. minted /\ repo[k] \in Owned
  BY <1>1, <1>2, MapsAre DEF Unpaged
<1>4. Only(k, repo[k]) \in Maps(minted)
  BY <1>3, OnlyMap
<1>5. Over(Only(k, repo[k]), reading[t].seen) \in Maps(minted)
  BY <1>1, <1>4, OverMap DEF Readings
<1>6. page \in Readings(minted)
  <2>1. k \in 1 .. Keys + 1
    BY <1>1, <1>3
  <2> QED BY <1>1, <1>5, <2>1 DEF Readings
<1>7. reading' = [reading EXCEPT ![t] = page]
  BY DEF ReadsPage, k
<1> HIDE DEF page
<1> QED BY <1>6, <1>7 DEF Typed, ReadsPage, repoVars, ownerVars, importVars, RepoTyped, OwnerTyped, ViewTyped,
               ImportTyped, CallTyped

\* Types: a full read ends and what drains put in since is laid over it.
LEMMA ReadEndsTyped == ASSUME Typed, NEW t \in Tabs, ReadEnds(t) PROVE Typed'
<1>1. /\ Fold(reading[t].seen, since[t]) \in Maps(minted)
      /\ Nothing \in Maps(minted) /\ Unread \in Readings(minted)
  BY TypedTab, OverMap DEF Fold, Readings
<1>2. wanted' \in Entries /\ sure' \in BOOLEAN
  <2>1. \A id \in Ids : InRepo(id) \in Nat
    BY InRepoType
  <2> QED BY <2>1 DEF ReadEnds, Learns, Typed, OwnerTyped, Entries
<1> QED BY <1>1, <1>2 DEF Typed, ReadEnds, repoVars, ownerVars, importVars, RepoTyped, OwnerTyped, ViewTyped,
               ImportTyped, CallTyped

\* Types: the browser keeps the view of a tab.
LEMMA RemembersTyped == ASSUME Typed, NEW t \in Tabs, Remembers(t) PROVE Typed'
  BY DEF Typed, Remembers, repoVars, ownerVars, viewVars, importVars, RepoTyped, OwnerTyped, ViewTyped,
         ImportTyped, CallTyped

\* Types: a tab lists the parts.
LEMMA AttachesTyped == ASSUME Typed, NEW t \in Tabs, Attaches(t) PROVE Typed'
  BY DEF Typed, Attaches, repoVars, ownerVars, viewVars, RepoTyped, OwnerTyped, ViewTyped,
         ImportTyped, CallTyped

\* Types: a tab closes, or dies with a press under way.
LEMMA ClosesTyped == ASSUME Typed, NEW t \in Tabs, Closes(t) PROVE Typed'
<1>1. /\ Nothing \in Maps(minted) /\ Nothing \in Listings /\ Unread \in Readings(minted)
      /\ NoPress \in PressesOf(minted) /\ NotOut \in CallsOf(minted)
  BY TypedTab
<1>2. sure' \in BOOLEAN /\ astray' \in BOOLEAN
  BY DEF Closes
<1>3. least' \in Nat
  BY InAllType DEF Closes, Typed, OwnerTyped
<1> QED BY <1>1, <1>2, <1>3 DEF Typed, Closes, repoVars, RepoTyped, OwnerTyped, ViewTyped,
               ImportTyped, CallTyped

-----------------------------------------------------------------------------

\* Types: the owner presses within the bound.
LEMMA PressedTyped ==
    ASSUME Typed, NEW t \in Tabs, CanPress(t)
    PROVE  pressed' \in 0 .. Presses
  BY BoundsAssumption DEF Typed, OwnerTyped, CanPress

\* What an edit makes of a record is a stack, of none when it steps below one.
LEMMA EditsTyped ==
    ASSUME Typed, NEW one \in Owned
    PROVE  \A next \in Edits(one) : next \in Stacked
<1>1. Filing \subseteq Places \cup {Unfiled}
  BY DEF Filing, Typed, RepoTyped
<1>2. one.id \in Ids /\ one.n \in Nat \ {0} /\ one \in Stacked
  BY OwnedOnes, StackedOnes
<1>3. [one EXCEPT !.n = @ + 1] \in Stacked /\ [one EXCEPT !.n = @ - 1] \in Stacked
      /\ [one EXCEPT !.n = 0] \in Stacked
  BY <1>2 DEF Stacked
<1>4. \A card \in Cards : [one EXCEPT !.id.card = card] \in Stacked
  BY <1>2 DEF Stacked, Ids
<1>5. \A place \in Filing : [one EXCEPT !.id.place = place] \in Stacked
  BY <1>1, <1>2 DEF Stacked, Ids
<1> QED BY <1>3, <1>4, <1>5 DEF Edits

\* Types: the owner edits a stack.
LEMMA AmendsTyped == ASSUME Typed, NEW t \in Tabs, Amends(t) PROVE Typed'
<1>0. PICK k \in DOMAIN held[t] : \E next \in Edits(held[t][k]) \ {held[t][k]} :
          LET one == held[t][k] IN
          /\ \E change \in Apply(held[t], k, next) :
                Straying(Against(t, DOMAIN change.writes \cup change.drops)) /\
                Begin(t, [NoPress EXCEPT
                       !.kind = "edit", !.writes = change.writes,
                       !.drops = change.drops, !.view = change.view,
                       !.gain = IF next.n > one.n THEN 1 ELSE 0])
          /\ IF next.id # one.id THEN Asks({next.id}, {one.id}, one.n) /\ UNCHANGED least
             ELSE IF next.n > one.n THEN Asks({one.id}, {}, 1) /\ UNCHANGED least
             ELSE Asks({}, {one.id}, one.n - next.n) /\ least' = Less(least, one.n - next.n)
  BY DEF Amends
<1>1. PICK next \in Edits(held[t][k]) \ {held[t][k]} :
          LET one == held[t][k] IN
          /\ \E change \in Apply(held[t], k, next) :
                Straying(Against(t, DOMAIN change.writes \cup change.drops)) /\
                Begin(t, [NoPress EXCEPT
                       !.kind = "edit", !.writes = change.writes,
                       !.drops = change.drops, !.view = change.view,
                       !.gain = IF next.n > one.n THEN 1 ELSE 0])
          /\ IF next.id # one.id THEN Asks({next.id}, {one.id}, one.n) /\ UNCHANGED least
             ELSE IF next.n > one.n THEN Asks({one.id}, {}, 1) /\ UNCHANGED least
             ELSE Asks({}, {one.id}, one.n - next.n) /\ least' = Less(least, one.n - next.n)
  BY <1>0
<1> DEFINE one == held[t][k]
<1>2. one \in Owned
  BY TypedTab, MapsAre
<1>3. next \in Stacked
  BY <1>2, EditsTyped
<1>4. one.n \in Nat /\ next.n \in Nat
  BY <1>2, <1>3, StackedOnes
<1>5. PICK change \in Apply(held[t], k, next) :
          Straying(Against(t, DOMAIN change.writes \cup change.drops)) /\
                Begin(t, [NoPress EXCEPT
                       !.kind = "edit", !.writes = change.writes,
                       !.drops = change.drops, !.view = change.view,
                       !.gain = IF next.n > one.n THEN 1 ELSE 0])
  BY <1>1
<1> HIDE DEF one
<1>6. change \in Changes(minted)
  BY <1>3, TypedTab, ApplyTyped
<1>7. [NoPress EXCEPT !.kind = "edit", !.writes = change.writes, !.drops = change.drops,
                      !.view = change.view, !.gain = IF next.n > one.n THEN 1 ELSE 0] \in PressesOf(minted)
  <2>1. NoPress \in PressesOf(minted)
    BY TypedTab
  <2> QED BY <1>6, <2>1 DEF Changes, PressesOf, Kinds
<1>8. wanted' \in Entries /\ least' \in Nat
  <2>1. CASE next.id # one.id
    <3>1. Asks({next.id}, {one.id}, one.n) /\ UNCHANGED least
      BY <1>1, <2>1 DEF one
    <3> QED BY <1>4, <3>1, AsksTyped DEF Typed, OwnerTyped
  <2>2. CASE next.id = one.id /\ next.n > one.n
    <3>1. Asks({one.id}, {}, 1) /\ UNCHANGED least
      BY <1>1, <2>2 DEF one
    <3> QED BY <3>1, AsksTyped DEF Typed, OwnerTyped
  <2>3. CASE next.id = one.id /\ ~(next.n > one.n)
    <3>1. Asks({}, {one.id}, one.n - next.n) /\ least' = Less(least, one.n - next.n)
      BY <1>1, <2>3 DEF one
    <3>2. one.n - next.n \in Nat
      BY <1>4, <2>3
    <3> QED BY <3>1, <3>2, AsksTyped DEF Typed, OwnerTyped, Less
  <2> QED BY <2>1, <2>2, <2>3
<1>9. pressed' \in 0 .. Presses
  BY PressedTyped DEF Amends
<1>10. CallTyped'
  <2>1. press' \in [Tabs -> PressesOf(minted)] /\ aside' \in [Tabs -> PressesOf(minted)]
    BY <1>5, <1>7, BeginTyped
  <2> QED BY <2>1 DEF Typed, CallTyped, Amends, repoVars
<1>11. astray' \in BOOLEAN
  BY <1>5, StrayTyped
<1> QED BY <1>8, <1>9, <1>10, <1>11 DEF Typed, Amends, repoVars, viewVars, importVars, RepoTyped, OwnerTyped, ViewTyped,
               ImportTyped

\* Types: the owner adds a card.
LEMMA AddsTyped == ASSUME Typed, NEW t \in Tabs, Adds(t) PROVE Typed'
<1>1. PICK card \in Cards, place \in Filing :
          LET id == [card |-> card, place |-> place] IN
          /\ Begin(t, [NoPress EXCEPT
                 !.kind = "add", !.makes = {[id |-> id, n |-> 1]}, !.gain = 1])
          /\ Asks({id}, {}, 1)
  BY DEF Adds
<1> DEFINE id == [card |-> card, place |-> place]
<1>2. id \in Ids
  BY DEF Filing, Ids, Typed, RepoTyped
<1>3. wanted' \in Entries
  BY <1>1, AsksTyped
<1>4. [NoPress EXCEPT !.kind = "add", !.makes = {[id |-> id, n |-> 1]}, !.gain = 1] \in PressesOf(minted)
  <2>1. NoPress \in PressesOf(minted)
    BY TypedTab
  <2>2. [id |-> id, n |-> 1] \in Owned
    BY <1>2, OwnedOnes
  <2> HIDE DEF id
  <2> QED BY <2>1, <2>2 DEF PressesOf, Kinds
<1>5. Begin(t, [NoPress EXCEPT !.kind = "add", !.makes = {[id |-> id, n |-> 1]}, !.gain = 1])
  BY <1>1
<1> HIDE DEF id
<1>6. CallTyped'
  <2>1. press' \in [Tabs -> PressesOf(minted)] /\ aside' \in [Tabs -> PressesOf(minted)]
    BY <1>4, <1>5, BeginTyped
  <2> QED BY <2>1 DEF Typed, CallTyped, Adds, repoVars
<1>7. pressed' \in 0 .. Presses
  BY PressedTyped DEF Adds
<1>8. astray' \in BOOLEAN
  BY StrayTyped DEF Adds
<1> QED BY <1>3, <1>6, <1>7, <1>8 DEF Typed, Adds, repoVars, viewVars, importVars, RepoTyped, OwnerTyped, ViewTyped,
               ImportTyped

\* Types: the owner deletes a container.
LEMMA UnfilesTyped == ASSUME Typed, NEW t \in Tabs, Unfiles(t) PROVE Typed'
<1>1. PICK place \in places :
          /\ \E change \in Emptied(held[t], place) :
                Straying(Against(t, DOMAIN change.writes \cup change.drops)
                         \cup When("waits", Awaits(parts, place))) /\
                Begin(t, [NoPress EXCEPT
                       !.kind = IF change = NoChange(held[t]) THEN "drop" ELSE "unfile",
                       !.writes = change.writes, !.drops = change.drops,
                       !.view = change.view, !.place = place])
          /\ wanted' = [id \in Ids |->
                 IF id.place = place THEN 0
                 ELSE IF id.place = Unfiled THEN wanted[id] + wanted[[id EXCEPT !.place = place]]
                 ELSE wanted[id]]
  BY DEF Unfiles
<1>2. place \in Places
  BY DEF Typed, RepoTyped
<1>3. wanted' \in Entries
  <2>1. \A id \in Ids : wanted[id] \in Nat /\ wanted[[id EXCEPT !.place = place]] \in Nat
    BY <1>2 DEF Typed, OwnerTyped, Entries, Ids
  <2> QED BY <1>1, <2>1 DEF Entries
<1>4. PICK change \in Emptied(held[t], place) :
                Straying(Against(t, DOMAIN change.writes \cup change.drops)
                         \cup When("waits", Awaits(parts, place))) /\
                Begin(t, [NoPress EXCEPT
                       !.kind = IF change = NoChange(held[t]) THEN "drop" ELSE "unfile",
                       !.writes = change.writes, !.drops = change.drops,
                       !.view = change.view, !.place = place])
  BY <1>1
<1>5. change \in Changes(minted)
  BY TypedTab, EmptiedTyped
<1>6. [NoPress EXCEPT !.kind = IF change = NoChange(held[t]) THEN "drop" ELSE "unfile",
                       !.writes = change.writes, !.drops = change.drops,
                       !.view = change.view, !.place = place] \in PressesOf(minted)
  <2>1. NoPress \in PressesOf(minted)
    BY TypedTab
  <2> QED BY <1>2, <1>5, <2>1 DEF Changes, PressesOf, Kinds
<1>7. CallTyped'
  <2>1. press' \in [Tabs -> PressesOf(minted)] /\ aside' \in [Tabs -> PressesOf(minted)]
    BY <1>4, <1>6, BeginTyped
  <2> QED BY <2>1 DEF Typed, CallTyped, Unfiles, repoVars
<1>8. pressed' \in 0 .. Presses
  BY PressedTyped DEF Unfiles
<1>9. astray' \in BOOLEAN
  BY <1>4, StrayTyped
<1> QED BY <1>3, <1>7, <1>8, <1>9 DEF Typed, Unfiles, repoVars, viewVars, importVars, RepoTyped, OwnerTyped, ViewTyped,
               ImportTyped

\* Types: the next call is the other press's.
LEMMA TurnsTyped == ASSUME Typed, NEW t \in Tabs, Turns(t) PROVE Typed'
<1>1. press' \in [Tabs -> PressesOf(minted)] /\ aside' \in [Tabs -> PressesOf(minted)]
  BY TypedTab DEF Typed, CallTyped, Turns
<1> QED BY <1>1 DEF Typed, Turns, repoVars, ownerVars, viewVars, importVars, RepoTyped, OwnerTyped, ViewTyped,
               ImportTyped, CallTyped

\* Types: the repository creates a record and mints its key.
LEMMA MakesTyped == ASSUME Typed, NEW t \in Tabs, Makes(t) PROVE Typed'
<1>1. PICK one \in press[t].makes :
          /\ repo' = Over(Only(minted', one), repo)
          /\ press' = [press EXCEPT ![t] = [NoPress EXCEPT
                 !.kind = "made", !.view = Only(minted', one), !.gain = 1]]
  BY DEF Makes
<1>2. minted \in Nat /\ minted' = minted + 1 /\ minted' \in 0 .. Keys /\ minted' \in Nat /\ minted <= minted'
  BY BoundsAssumption DEF Makes, Typed, RepoTyped
<1>3. /\ Maps(minted) \subseteq Maps(minted') /\ Readings(minted) \subseteq Readings(minted')
      /\ PressesOf(minted) \subseteq PressesOf(minted') /\ CallsOf(minted) \subseteq CallsOf(minted')
  BY <1>2, TypedLater
<1>4. one \in Owned
  <2>1. press[t] \in PressesOf(minted)
    BY TypedTab
  <2> QED BY <2>1 DEF PressesOf
<1>5. Only(minted', one) \in Maps(minted')
  <2>1. minted' \in 1 .. minted'
    BY <1>2
  <2> QED BY <1>4, <2>1, OnlyMap
<1>6. repo' \in Maps(minted')
  BY <1>1, <1>3, <1>5, OverMap DEF Typed, RepoTyped
<1>7. [NoPress EXCEPT !.kind = "made", !.view = Only(minted', one), !.gain = 1] \in PressesOf(minted')
  <2>1. NoPress \in PressesOf(minted')
    BY <1>3, TypedTab
  <2> QED BY <1>5, <2>1 DEF PressesOf, Kinds
<1>8. CallTyped'
  BY <1>1, <1>3, <1>7 DEF Typed, CallTyped, Makes
<1>9. RepoTyped'
  BY <1>2, <1>6 DEF Typed, RepoTyped, Makes
<1> QED BY <1>3, <1>8, <1>9 DEF Typed, Makes, ownerVars, viewVars, importVars, OwnerTyped, ViewTyped, ImportTyped

\* Types: the repository puts a record.
LEMMA PutsTyped == ASSUME Typed, NEW t \in Tabs, Puts(t) PROVE Typed'
<1>1. PICK k \in DOMAIN press[t].writes :
          /\ repo' = Over(Only(k, press[t].writes[k]), repo)
          /\ press' = [press EXCEPT ![t].writes = But(@, {k})]
  BY DEF Puts
<1>2. press[t] \in PressesOf(minted) /\ press[t].writes \in Maps(minted)
  BY TypedTab DEF PressesOf
<1>3. k \in 1 .. minted /\ press[t].writes[k] \in Owned
  BY <1>2, MapsAre
<1>4. repo' \in Maps(minted)
  BY <1>1, <1>3, OnlyMap, OverMap DEF Typed, RepoTyped
<1>5. But(press[t].writes, {k}) \in Maps(minted)
  BY <1>2, ButMap
<1>6. press' \in [Tabs -> PressesOf(minted)]
  BY <1>1, <1>2, <1>5 DEF Typed, CallTyped, PressesOf
<1> QED BY <1>4, <1>6 DEF Typed, Puts, ownerVars, viewVars, importVars, RepoTyped, OwnerTyped, ViewTyped,
               ImportTyped, CallTyped

\* Types: the repository deletes a record.
LEMMA RemovesTyped == ASSUME Typed, NEW t \in Tabs, Removes(t) PROVE Typed'
<1>1. PICK k \in press[t].drops :
          /\ repo' = But(repo, {k})
          /\ press' = [press EXCEPT ![t].drops = @ \ {k}]
  BY DEF Removes
<1>2. repo' \in Maps(minted)
  BY <1>1, ButMap DEF Typed, RepoTyped
<1>3. press' \in [Tabs -> PressesOf(minted)]
  BY <1>1 DEF Typed, CallTyped, PressesOf
<1> QED BY <1>2, <1>3 DEF Typed, Removes, ownerVars, viewVars, importVars, RepoTyped, OwnerTyped, ViewTyped,
               ImportTyped, CallTyped

\* A press over, or the drop of a place that follows it.
LEMMA OverPress ==
    ASSUME Typed, NEW t \in Tabs
    PROVE  /\ NoPress \in PressesOf(minted)
           /\ [NoPress EXCEPT !.kind = "drop", !.place = press[t].place] \in PressesOf(minted)
           /\ press[t].view \in Maps(minted) /\ press[t].gain \in Nat
<1>1. press[t] \in PressesOf(minted) /\ NoPress \in PressesOf(minted)
  BY TypedTab
<1>2. press[t].view \in Maps(minted) /\ press[t].gain \in {0, 1} /\ press[t].place \in Places \cup {Unfiled}
  BY <1>1 DEF PressesOf
<1>3. [NoPress EXCEPT !.kind = "drop", !.place = press[t].place] \in PressesOf(minted)
  BY <1>1, <1>2 DEF PressesOf, Kinds
<1> QED BY <1>1, <1>2, <1>3

\* Types: the calls of a press are done.
LEMMA PressEndsTyped == ASSUME Typed, NEW t \in Tabs, PressEnds(t) PROVE Typed'
<1>1. held' \in [Tabs -> Maps(minted)]
  BY OverPress DEF PressEnds, Typed, ViewTyped
<1>2. press' \in [Tabs -> PressesOf(minted)]
  BY OverPress DEF PressEnds, Typed, CallTyped
<1>3. least' \in Nat
  <2>1. press[t].gain \in Nat /\ least \in Nat /\ least' = least + press[t].gain
    BY OverPress DEF PressEnds, Typed, OwnerTyped
  <2> QED BY <2>1
<1> QED BY <1>1, <1>2, <1>3 DEF Typed, PressEnds, repoVars, importVars, RepoTyped, OwnerTyped, ViewTyped,
               ImportTyped, CallTyped

\* Types: an add is answered.
LEMMA AddEndsTyped == ASSUME Typed, NEW t \in Tabs, AddEnds(t) PROVE Typed'
<1>1. Over(press[t].view, held[t]) \in Maps(minted)
  BY OverPress, TypedTab, OverMap
<1>2. held' \in [Tabs -> Maps(minted)]
  BY <1>1 DEF AddEnds, Typed, ViewTyped
<1>3. press' \in [Tabs -> PressesOf(minted)]
  BY OverPress DEF AddEnds, Done, Typed, CallTyped
<1>4. least' \in Nat
  <2>1. press[t].gain \in Nat /\ least \in Nat /\ least' = least + press[t].gain
    BY OverPress DEF AddEnds, Typed, OwnerTyped
  <2> QED BY <2>1
<1> QED BY <1>2, <1>3, <1>4 DEF Typed, AddEnds, repoVars, importVars, RepoTyped, OwnerTyped, ViewTyped,
               ImportTyped, CallTyped

\* Types: a press fails.
LEMMA PressFailsTyped == ASSUME Typed, NEW t \in Tabs, PressFails(t) PROVE Typed'
<1>1. press' \in [Tabs -> PressesOf(minted)]
  BY OverPress DEF PressFails, Typed, CallTyped
<1>2. sure' \in BOOLEAN /\ astray' \in BOOLEAN
  BY StrayTyped DEF PressFails
<1> QED BY <1>1, <1>2 DEF Typed, PressFails, repoVars, viewVars, importVars, RepoTyped, OwnerTyped, ViewTyped,
               ImportTyped, CallTyped

\* Types: the container that was emptied is deleted.
LEMMA DropsPlaceTyped == ASSUME Typed, NEW t \in Tabs, DropsPlace(t) PROVE Typed'
<1>1. press' \in [Tabs -> PressesOf(minted)]
  BY OverPress DEF DropsPlace, Done, Typed, CallTyped
<1> QED BY <1>1 DEF Typed, DropsPlace, ownerVars, viewVars, importVars, RepoTyped, OwnerTyped, ViewTyped,
               ImportTyped, CallTyped

\* The parts of a file are a listing.
LEMMA FileListing ==
    ASSUME NEW some \in SUBSET Parts
    PROVE  Restrict(File, some) \in Listings /\ DOMAIN Restrict(File, some) = some
           /\ SumFunction([p \in some |-> AllOf(File[p])]) \in Nat
<1>1. \A p \in some : File[p] \in Entries
  BY PartsAssumption
<1>2. Restrict(File, some) \in Listings /\ DOMAIN Restrict(File, some) = some
  BY <1>1, ListingsAre DEF Restrict
<1>3. IsFiniteSet(some)
  BY FiniteAssumption, FS_Subset
<1>4. [p \in some |-> AllOf(File[p])] \in [some -> Nat]
  BY <1>1, AllOfType
<1> QED BY <1>2, <1>3, <1>4, SumType

\* Types: parts of a file are imported.
LEMMA ImportsTyped == ASSUME Typed, NEW t \in Tabs, Imports(t) PROVE Typed'
<1>1. PICK some \in SUBSET coming :
          /\ parts' = Over(Restrict(File, some), parts)
          /\ coming' = coming \ some
          /\ wanted' = [id \in Ids |-> wanted[id] + Waiting(Restrict(File, some), id)]
          /\ least' = least + SumFunction([p \in some |-> AllOf(File[p])])
  BY DEF Imports
<1>0. astray' \in BOOLEAN
  BY StrayTyped DEF Imports
<1>2. some \in SUBSET Parts
  BY DEF Typed, RepoTyped
<1>3. /\ Restrict(File, some) \in Listings
      /\ SumFunction([p \in some |-> AllOf(File[p])]) \in Nat
  BY <1>2, FileListing
<1>4. parts' \in Listings
  BY <1>1, <1>3, OverListing DEF Typed, RepoTyped
<1>5. wanted' \in Entries
  <2>1. \A id \in Ids : wanted[id] \in Nat /\ Waiting(Restrict(File, some), id) \in Nat
    BY <1>3, WaitingType DEF Typed, OwnerTyped, Entries
  <2>2. \A id \in Ids : wanted[id] + Waiting(Restrict(File, some), id) \in Nat
    BY <2>1
  <2> QED BY <1>1, <2>2 DEF Entries
<1>6. least' \in Nat
  BY <1>1, <1>3 DEF Typed, OwnerTyped
<1>7. coming' \in SUBSET Parts
  BY <1>1 DEF Typed, RepoTyped
<1>8. Nothing \in Maps(minted)
  BY TypedTab
<1>9. ImportTyped'
  BY <1>4, <1>8 DEF Typed, ImportTyped, Imports
<1> QED BY <1>0, <1>4, <1>5, <1>6, <1>7, <1>9 DEF Typed, Imports, viewVars, RepoTyped, OwnerTyped, ViewTyped, CallTyped

\* The first part listed is one of them.
LEMMA FirstPart ==
    ASSUME NEW some \in Listings, some # Nothing
    PROVE  Min(DOMAIN some) \in DOMAIN some /\ Min(DOMAIN some) \in Parts /\ some[Min(DOMAIN some)] \in Entries
<1>1. DOMAIN some # {}
  BY ListingsAre DEF Nothing
<1>2. DOMAIN some \in SUBSET Nat
  BY PartsAssumption, ListingsAre
<1> QED BY <1>1, <1>2, Least, ListingsAre

\* Types: a tab sends a drain.
LEMMA DrainsTyped == ASSUME Typed, NEW t \in Tabs, Drains(t) PROVE Typed'
<1> DEFINE p == Min(DOMAIN pending[t])
<1>1. PICK writes \in Drained(pending[t][p], held[t], later[t]) :
          out' = [out EXCEPT ![t] = [NotOut EXCEPT
              !.said = "out", !.updates = writes.updates, !.creates = writes.creates,
              !.takes = {p}]]
  BY DEF Drains
<1>2. p \in Parts /\ pending[t][p] \in Entries
  BY TypedTab, FirstPart DEF Drains
<1> HIDE DEF p
<1>3. writes.updates \in Maps(minted) /\ writes.creates \subseteq Owned /\ IsFiniteSet(writes.creates)
  BY <1>2, TypedTab, FiniteIds, DrainedTyped
<1>4. [NotOut EXCEPT !.said = "out", !.updates = writes.updates, !.creates = writes.creates,
                     !.takes = {p}] \in CallsOf(minted)
  <2>1. NotOut \in CallsOf(minted)
    BY TypedTab
  <2> QED BY <1>2, <1>3, <2>1 DEF CallsOf
<1>5. out' \in [Tabs -> CallsOf(minted)]
  BY <1>1, <1>4 DEF Typed, CallTyped
<1>6. astray' \in BOOLEAN
  BY StrayTyped DEF Drains
<1> QED BY <1>5, <1>6 DEF Typed, Drains, repoVars, viewVars, importVars, RepoTyped, OwnerTyped, ViewTyped,
               ImportTyped, CallTyped

Touched(left) == {p \in DOMAIN parts : p \notin DOMAIN left \/ left[p] # parts[p]}
ShedCall(left) == [NotOut EXCEPT !.said = "out", !.takes = Touched(left),
                                 !.leaves = Restrict(left, Touched(left) \cap DOMAIN left), !.sheds = TRUE]

\* What a tab sheds, and what it sends for it.
LEMMA ShedsPicks ==
    ASSUME NEW t \in Tabs, Sheds(t)
    PROVE  \E id \in Ids : \E copies \in {1, Waiting(parts, id)} :
              /\ \A k \in DOMAIN held[t] : held[t][k].id # id
              /\ Waiting(parts, id) > 0
              /\ out' = [out EXCEPT ![t] = ShedCall(Shed(parts, id, copies))]
              /\ Asks({}, {id}, copies)
              /\ least' = Less(least, copies)
<1>1. PICK id \in Ids : \E copies \in {1, Waiting(parts, id)} :
          /\ \A k \in DOMAIN held[t] : held[t][k].id # id
          /\ Waiting(parts, id) > 0
          /\ LET left == Shed(parts, id, copies)
                 touched == {p \in DOMAIN parts : p \notin DOMAIN left \/ left[p] # parts[p]}
             IN  out' = [out EXCEPT ![t] = [NotOut EXCEPT
                     !.said = "out", !.takes = touched,
                     !.leaves = Restrict(left, touched \cap DOMAIN left),
                     !.sheds = TRUE]]
          /\ Asks({}, {id}, copies)
          /\ least' = Less(least, copies)
  BY DEF Sheds
<1>2. PICK copies \in {1, Waiting(parts, id)} :
          /\ \A k \in DOMAIN held[t] : held[t][k].id # id
          /\ Waiting(parts, id) > 0
          /\ LET left == Shed(parts, id, copies)
                 touched == {p \in DOMAIN parts : p \notin DOMAIN left \/ left[p] # parts[p]}
             IN  out' = [out EXCEPT ![t] = [NotOut EXCEPT
                     !.said = "out", !.takes = touched,
                     !.leaves = Restrict(left, touched \cap DOMAIN left),
                     !.sheds = TRUE]]
          /\ Asks({}, {id}, copies)
          /\ least' = Less(least, copies)
  BY <1>1
<1>3. out' = [out EXCEPT ![t] = ShedCall(Shed(parts, id, copies))]
  BY <1>2 DEF ShedCall, Touched
<1> QED BY <1>2, <1>3

\* Types: a tab sends a shed.
LEMMA ShedsTyped == ASSUME Typed, NEW t \in Tabs, Sheds(t) PROVE Typed'
<1>0. PICK id \in Ids : \E copies \in {1, Waiting(parts, id)} :
              /\ \A k \in DOMAIN held[t] : held[t][k].id # id
              /\ Waiting(parts, id) > 0
              /\ out' = [out EXCEPT ![t] = ShedCall(Shed(parts, id, copies))]
              /\ Asks({}, {id}, copies)
              /\ least' = Less(least, copies)
  BY ShedsPicks
<1>1. PICK copies \in {1, Waiting(parts, id)} :
              /\ out' = [out EXCEPT ![t] = ShedCall(Shed(parts, id, copies))]
              /\ Asks({}, {id}, copies)
              /\ least' = Less(least, copies)
  BY <1>0
<1>2. parts \in Listings /\ copies \in Nat
  BY WaitingType DEF Typed, RepoTyped
<1> DEFINE left == Shed(parts, id, copies)
           touched == Touched(left)
<1>3. left \in Listings /\ DOMAIN left \subseteq DOMAIN parts
  BY <1>2, FiniteAssumption, ShedTyped
<1> HIDE DEF left
<1>4. touched \in SUBSET Parts /\ Restrict(left, touched \cap DOMAIN left) \in Listings
  BY <1>2, <1>3, ListingsAre, RestrictListing DEF Touched
<1> HIDE DEF touched
<1>5. ShedCall(left) \in CallsOf(minted)
  <2>1. NotOut \in CallsOf(minted)
    BY TypedTab
  <2>2. ShedCall(left) = [NotOut EXCEPT !.said = "out", !.takes = touched,
                                 !.leaves = Restrict(left, touched \cap DOMAIN left), !.sheds = TRUE]
    BY DEF ShedCall, touched
  <2> QED BY <1>4, <2>1, <2>2 DEF CallsOf
<1>6. out' \in [Tabs -> CallsOf(minted)]
  BY <1>1, <1>5 DEF Typed, CallTyped, left
<1>7. wanted' \in Entries
  BY <1>1, <1>2, AsksTyped
<1>8. least' \in Nat
  BY <1>1, <1>2 DEF Typed, OwnerTyped, Less
<1>9. pressed' \in 0 .. Presses
  BY PressedTyped DEF Sheds
<1>10. pending' \in [Tabs -> Listings]
  BY <1>2 DEF Typed, ImportTyped, Sheds
<1>11. astray' \in BOOLEAN
  BY StrayTyped DEF Sheds
<1> QED BY <1>6, <1>7, <1>8, <1>9, <1>10, <1>11 DEF Typed, Sheds, repoVars, viewVars, RepoTyped, OwnerTyped, ViewTyped,
               ImportTyped, CallTyped

\* The parts once a call has landed are a listing.
LEMMA TakenListing ==
    ASSUME NEW m, NEW call \in CallsOf(m), NEW some \in Listings
    PROVE  Over(call.leaves, But(some, call.takes)) \in Listings
<1>1. call.leaves \in Listings
  BY DEF CallsOf
<1> QED BY <1>1, ButListing, OverListing

\* Types: a call lands, and the server mints a key for each record it makes.
LEMMA LandsTyped == ASSUME Typed, NEW t \in Tabs, Lands(t) PROVE Typed'
<1> DEFINE call == out[t]
           last == minted + Cardinality(call.creates)
<1>1. PICK made \in [minted + 1 .. last -> call.creates] :
          /\ repo' = Over(call.updates, Over(made, repo))
          /\ out' = [out EXCEPT ![t].said = "landed", ![t].wrote = Over(call.updates, made)]
  BY DEF Lands
<1>2. call \in CallsOf(minted) /\ minted \in Nat /\ Keys \in Nat
  BY TypedTab
<1>3. call.creates \subseteq Owned /\ Cardinality(call.creates) \in Nat /\ call.updates \in Maps(minted)
  BY <1>2, FS_CardinalityType DEF CallsOf
<1>4. last \in 0 .. Keys /\ last \in Nat /\ minted <= last /\ minted' = last
  BY <1>2, <1>3 DEF Lands
<1> HIDE DEF last
<1>5. /\ Maps(minted) \subseteq Maps(last) /\ Readings(minted) \subseteq Readings(last)
      /\ PressesOf(minted) \subseteq PressesOf(last) /\ CallsOf(minted) \subseteq CallsOf(last)
  BY <1>2, <1>4, TypedLater
<1>6. made \in Maps(last)
  <2>1. minted + 1 .. last \subseteq 1 .. last
    BY <1>2, <1>4
  <2> HIDE DEF call
  <2> QED BY <1>1, <1>3, <2>1, MapsAre
<1>7. repo \in Maps(last) /\ call.updates \in Maps(last)
  BY <1>3, <1>5 DEF Typed, RepoTyped
<1>8. repo' \in Maps(last) /\ Over(call.updates, made) \in Maps(last)
  BY <1>1, <1>6, <1>7, OverMap
<1>9. parts' \in Listings
  BY <1>2, TakenListing DEF Typed, RepoTyped, Lands, Taken
<1>10. [call EXCEPT !.said = "landed", !.wrote = Over(call.updates, made)] \in CallsOf(last)
  BY <1>2, <1>5, <1>8 DEF CallsOf
<1>11. out' = [out EXCEPT ![t] = [call EXCEPT !.said = "landed", !.wrote = Over(call.updates, made)]]
  BY <1>1 DEF Typed, CallTyped
<1> HIDE DEF call
<1>12. CallTyped'
  BY <1>4, <1>5, <1>10, <1>11 DEF Typed, CallTyped, Lands
<1>13. RepoTyped'
  BY <1>4, <1>8, <1>9 DEF Typed, RepoTyped, Lands
<1> QED BY <1>4, <1>5, <1>12, <1>13
      DEF Typed, Lands, ownerVars, viewVars, importVars, OwnerTyped, ViewTyped, ImportTyped

\* Types: a call fails.
LEMMA DeniesTyped == ASSUME Typed, NEW t \in Tabs, Denies(t) PROVE Typed'
<1>1. out' \in [Tabs -> CallsOf(minted)]
  BY DEF Typed, CallTyped, Denies, CallsOf
<1> QED BY <1>1 DEF Typed, Denies, repoVars, ownerVars, viewVars, importVars, RepoTyped, OwnerTyped, ViewTyped,
               ImportTyped, CallTyped

\* Types: a tab hears its call has landed.
LEMMA HearsTyped == ASSUME Typed, NEW t \in Tabs, Hears(t) PROVE Typed'
<1>1. out[t] \in CallsOf(minted) /\ out[t].wrote \in Maps(minted)
  BY TypedTab DEF CallsOf
<1>2. /\ Over(out[t].wrote, since[t]) \in Maps(minted) /\ Over(out[t].wrote, later[t]) \in Maps(minted)
      /\ Over(out[t].leaves, But(pending[t], out[t].takes)) \in Listings
  BY <1>1, TypedTab, OverMap, TakenListing
<1>3. since' \in [Tabs -> Maps(minted)] /\ since'[t] \in Maps(minted)
  BY <1>2 DEF Typed, ViewTyped, Hears
<1>4. Fold(held[t], since'[t]) \in Maps(minted)
  BY <1>3, TypedTab, OverMap DEF Fold
<1>5. held' \in [Tabs -> Maps(minted)]
  BY <1>4 DEF Typed, ViewTyped, Hears
<1>6. ImportTyped'
  BY <1>2 DEF Typed, ImportTyped, Hears, repoVars
<1>7. CallTyped'
  BY TypedTab DEF Typed, CallTyped, Hears, repoVars
<1> QED BY <1>3, <1>5, <1>6, <1>7 DEF Typed, Hears, repoVars, ownerVars, RepoTyped, OwnerTyped, ViewTyped

\* Types: a tab hears its call has failed and lists the parts again.
LEMMA RelistsTyped == ASSUME Typed, NEW t \in Tabs, Relists(t) PROVE Typed'
<1>1. NotOut \in CallsOf(minted)
  BY TypedTab
<1>2. out' \in [Tabs -> CallsOf(minted)] /\ pending' \in [Tabs -> Listings]
  BY <1>1 DEF Typed, RepoTyped, ImportTyped, CallTyped, Relists
<1>3. sure' \in BOOLEAN /\ astray' \in BOOLEAN
  BY StrayTyped DEF Relists
<1> QED BY <1>2, <1>3 DEF Typed, Relists, repoVars, viewVars, RepoTyped, OwnerTyped, ViewTyped,
               ImportTyped, CallTyped

\* Every step keeps the types.
LEMMA TypedNext == Typed /\ [Next]_vars => Typed'
<1> SUFFICES ASSUME Typed, [Next]_vars PROVE Typed'
  OBVIOUS
<1>1. CASE UNCHANGED vars
  BY <1>1 DEF vars, repoVars, ownerVars, viewVars, importVars, Typed, RepoTyped, OwnerTyped, ViewTyped,
              ImportTyped, CallTyped
<1>2. ASSUME NEW t \in Tabs, Viewing(t) PROVE Typed'
  BY <1>2, OpensTyped, PaintsTyped, ReadsPageTyped, ReadEndsTyped, RemembersTyped, AttachesTyped, ClosesTyped
     DEF Viewing
<1>3. ASSUME NEW t \in Tabs, Pressing(t) PROVE Typed'
  BY <1>3, TurnsTyped, AmendsTyped, AddsTyped, UnfilesTyped, MakesTyped, PutsTyped, RemovesTyped, PressEndsTyped,
     AddEndsTyped, PressFailsTyped, DropsPlaceTyped DEF Pressing
<1>4. ASSUME NEW t \in Tabs, Importing(t) PROVE Typed'
  BY <1>4, ImportsTyped, DrainsTyped, ShedsTyped, LandsTyped, DeniesTyped, HearsTyped, RelistsTyped DEF Importing
<1> QED BY <1>1, <1>2, <1>3, <1>4 DEF Next

(***************************************************************************)
(* Every variable keeps its type, whatever the tabs do and however many     *)
(* there are: the repository, a view, a call under way and what a tab       *)
(* remembers name only keys the server has minted, each a record of one     *)
(* copy or more.  Typed says that; TypeOK is what the run checks of it.     *)
(***************************************************************************)
THEOREM AlwaysTyped == Spec => []TypeOK
<1>1. Spec => []Typed
  BY TypedInit, TypedNext, PTL DEF Spec
<1> QED BY <1>1, TypedTypeOK, PTL

\* To lay nothing over a view, to lay it over nothing and to drop nothing all
\* leave it.
LEMMA OverNothing ==
    ASSUME NEW m, NEW view \in Maps(m)
    PROVE  Over(Nothing, view) = view /\ Over(view, Nothing) = view /\ But(view, {}) = view
<1>1. view = [k \in DOMAIN view |-> view[k]]
  BY MapsAre
<1> QED BY <1>1 DEF Over, Nothing, But, Restrict

\* A write taken from those to come and put in the view leaves what they come
\* to.
LEMMA OverPut ==
    ASSUME NEW m, NEW writes \in Maps(m), NEW view \in Maps(m), NEW k \in DOMAIN writes
    PROVE  Over(But(writes, {k}), Over(Only(k, writes[k]), view)) = Over(writes, view)
<1> DEFINE v == Over(But(writes, {k}), Over(Only(k, writes[k]), view))
           w == Over(writes, view)
<1>1. DOMAIN v = DOMAIN w
  BY DEF Over, But, Restrict, Only
<1>2. \A j \in DOMAIN v : v[j] = w[j]
  BY DEF Over, But, Restrict, Only
<1>3. v = [j \in DOMAIN v |-> v[j]] /\ w = [j \in DOMAIN w |-> w[j]]
  BY DEF Over
<1> HIDE DEF v, w
<1>4. v = w
  BY <1>1, <1>2, <1>3
<1> QED BY <1>4 DEF v, w

\* A drop taken from those to come and done leaves what they come to.
LEMMA ButRemove ==
    ASSUME NEW view, NEW drops, NEW k \in drops
    PROVE  But(But(view, {k}), drops \ {k}) = But(view, drops)
<1> DEFINE v == But(But(view, {k}), drops \ {k})
           w == But(view, drops)
<1>1. DOMAIN v = DOMAIN w
  BY DEF But, Restrict
<1>2. \A j \in DOMAIN v : v[j] = w[j]
  BY DEF But, Restrict
<1>3. v = [j \in DOMAIN v |-> v[j]] /\ w = [j \in DOMAIN w |-> w[j]]
  BY DEF But, Restrict
<1> HIDE DEF v, w
<1>4. v = w
  BY <1>1, <1>2, <1>3
<1> QED BY <1>4 DEF v, w

-----------------------------------------------------------------------------
(* Changes that say what they do: their view is the one they are of, with  *)
(* what they write laid over it and what they drop gone.                   *)

IsChange(change, view) ==
    /\ change.view = But(Over(change.writes, view), change.drops)
    /\ DOMAIN change.writes \subseteq DOMAIN view
    /\ change.drops \subseteq DOMAIN view
    /\ DOMAIN change.writes \cap change.drops = {}

\* To change nothing says what it does.
LEMMA NoChangeIs ==
    ASSUME NEW m, NEW view \in Maps(m)
    PROVE  IsChange(NoChange(view), view)
<1>1. But(Over(Nothing, view), {}) = view
  BY OverNothing
<1> QED BY <1>1, NothingMap DEF IsChange, NoChange

\* Where the view of a change is.
LEMMA ChangeAt ==
    ASSUME NEW view, NEW change, IsChange(change, view)
    PROVE  /\ DOMAIN change.view = (DOMAIN change.writes \cup DOMAIN view) \ change.drops
           /\ \A k \in DOMAIN change.view :
                 change.view[k] = IF k \in DOMAIN change.writes THEN change.writes[k] ELSE view[k]
<1>1. change.view = But(Over(change.writes, view), change.drops)
  BY DEF IsChange
<1> QED BY <1>1 DEF But, Restrict, Over

\* Two changes that say what they do are one that does.
LEMMA ThenIs ==
    ASSUME NEW m, NEW view \in Maps(m), NEW first \in Changes(m), NEW second \in Changes(m),
           IsChange(first, view), IsChange(second, first.view)
    PROVE  IsChange(Then(first, second), view)
<1> DEFINE both == Then(first, second)
           w1 == first.writes  d1 == first.drops  w2 == second.writes  d2 == second.drops
           v == But(Over(both.writes, view), both.drops)
<1>1. /\ both.writes = But(Over(w2, w1), d2) /\ both.drops = d1 \cup d2 /\ both.view = second.view
  BY DEF Then
<1>2. DOMAIN first.view = (DOMAIN w1 \cup DOMAIN view) \ d1
      /\ \A k \in DOMAIN first.view : first.view[k] = IF k \in DOMAIN w1 THEN w1[k] ELSE view[k]
  BY ChangeAt
<1>3. DOMAIN second.view = (DOMAIN w2 \cup DOMAIN first.view) \ d2
      /\ \A k \in DOMAIN second.view : second.view[k] = IF k \in DOMAIN w2 THEN w2[k] ELSE first.view[k]
  BY ChangeAt
<1>4. /\ DOMAIN w1 \subseteq DOMAIN view /\ d1 \subseteq DOMAIN view /\ DOMAIN w1 \cap d1 = {}
      /\ DOMAIN w2 \subseteq DOMAIN first.view /\ d2 \subseteq DOMAIN first.view /\ DOMAIN w2 \cap d2 = {}
  BY DEF IsChange
<1>5. /\ DOMAIN both.writes = (DOMAIN w2 \cup DOMAIN w1) \ d2
      /\ \A k \in DOMAIN both.writes : both.writes[k] = IF k \in DOMAIN w2 THEN w2[k] ELSE w1[k]
  BY <1>1 DEF But, Restrict, Over
<1>6. /\ DOMAIN v = (DOMAIN both.writes \cup DOMAIN view) \ both.drops
      /\ \A k \in DOMAIN v : v[k] = IF k \in DOMAIN both.writes THEN both.writes[k] ELSE view[k]
      /\ v \in Maps(m) /\ second.view \in Maps(m)
  <2>1. both \in Changes(m)
    BY ThenTyped
  <2>2. v \in Maps(m) /\ second.view \in Maps(m)
    BY <2>1, OverMap, ButMap DEF Changes
  <2> HIDE DEF both
  <2>3. /\ DOMAIN v = (DOMAIN both.writes \cup DOMAIN view) \ both.drops
        /\ \A k \in DOMAIN v : v[k] = IF k \in DOMAIN both.writes THEN both.writes[k] ELSE view[k]
    BY DEF But, Restrict, Over
  <2> QED BY <2>2, <2>3
<1> HIDE DEF both, w1, d1, w2, d2, v
<1>7. DOMAIN v = DOMAIN second.view
  BY <1>1, <1>2, <1>3, <1>4, <1>5, <1>6
<1>8. ASSUME NEW k \in DOMAIN v PROVE v[k] = second.view[k]
  <2>1. CASE k \in DOMAIN w2
    BY <1>1, <1>3, <1>5, <1>6, <1>7, <2>1
  <2>2. CASE k \notin DOMAIN w2 /\ k \in DOMAIN w1
    <3>1. k \in DOMAIN both.writes /\ both.writes[k] = w1[k] /\ v[k] = w1[k]
      BY <1>1, <1>5, <1>6, <2>2
    <3>2. second.view[k] = first.view[k] /\ k \in DOMAIN first.view
      BY <1>3, <1>7, <2>2
    <3> QED BY <1>2, <2>2, <3>1, <3>2
  <2>3. CASE k \notin DOMAIN w2 /\ k \notin DOMAIN w1
    <3>1. k \notin DOMAIN both.writes /\ v[k] = view[k]
      BY <1>5, <1>6, <2>3
    <3>2. second.view[k] = first.view[k] /\ k \in DOMAIN first.view
      BY <1>3, <1>7, <2>3
    <3> QED BY <1>2, <2>3, <3>1, <3>2
  <2> QED BY <2>1, <2>2, <2>3
<1>9. v = second.view
  BY <1>6, <1>7, <1>8, MapsEqual
<1>10. /\ DOMAIN both.writes \subseteq DOMAIN view /\ both.drops \subseteq DOMAIN view
       /\ DOMAIN both.writes \cap both.drops = {}
  BY <1>1, <1>2, <1>4, <1>5
<1> QED BY <1>1, <1>9, <1>10 DEF IsChange, both, v

\* What a change of one stack does to the others.
Touches(change, view, k, next) ==
    /\ DOMAIN change.view \subseteq DOMAIN view
    /\ \A j \in DOMAIN view \ {k} : /\ j \in DOMAIN change.view
                                    /\ change.view[j].id = view[j].id
                                    /\ view[j].id # next.id => change.view[j] = view[j]
    /\ k \in DOMAIN change.view => change.view[k].id = next.id

Gains(after, before, id, some, other) ==
    Count(after, id) + (IF some.id = id THEN some.n ELSE 0)
        = Count(before, id) + (IF other.id = id THEN other.n ELSE 0)

\* What the counts gain when a record is put in another's place.
LEMMA CountExcept ==
    ASSUME NEW m \in Nat, NEW view \in Maps(m), NEW k \in DOMAIN view, NEW one \in Owned, NEW id
    PROVE  Gains([view EXCEPT ![k] = one], view, id, view[k], one)
<1>1. Over(Only(k, one), view) = [view EXCEPT ![k] = one]
  <2>1. [view EXCEPT ![k] = one] \in Maps(m)
    BY ExceptMap
  <2>2. k \in 1 .. m
    BY MapsAre
  <2>3. Over(Only(k, one), view) \in Maps(m)
    BY <2>2, OnlyMap, OverMap
  <2> DEFINE v == Over(Only(k, one), view)  w == [view EXCEPT ![k] = one]
  <2>4. DOMAIN v = DOMAIN w /\ \A j \in DOMAIN v : v[j] = w[j]
    BY DEF Over, Only
  <2> HIDE DEF v, w
  <2>5. v \in Maps(m) /\ w \in Maps(m)
    BY <2>1, <2>3 DEF v, w
  <2>6. v = w
    BY <2>4, <2>5, MapsEqual
  <2> QED BY <2>6 DEF v, w
<1>2. k \in 1 .. m /\ But(view, {k}) \in Maps(m) /\ view[k] \in Owned
  BY MapsAre, ButMap
<1>3. Count(Over(Only(k, one), view), id) = Count(But(view, {k}), id) + IF one.id = id THEN one.n ELSE 0
  BY <1>2, CountOnly
<1>4. Count(view, id) = Count(But(view, {k}), id) + IF view[k].id = id THEN view[k].n ELSE 0
  BY CountBut
<1>5. Count(But(view, {k}), id) \in Nat /\ one.n \in Nat /\ view[k].n \in Nat
  BY <1>2, CountSum, OwnedOnes
<1> QED BY <1>1, <1>3, <1>4, <1>5 DEF Gains

\* A stack put in a record's place says what it does, touches the records of no
\* third identity, and the counts gain what it holds and lose what the record
\* held.
LEMMA ApplyDoes ==
    ASSUME NEW m \in Nat, NEW view \in Maps(m), NEW k \in DOMAIN view, NEW next \in Stacked,
           NEW change \in Apply(view, k, next)
    PROVE  /\ IsChange(change, view)
           /\ Touches(change, view, k, next)
           /\ \A id : Gains(change.view, view, id, view[k], next)
<1> DEFINE into == {j \in DOMAIN view \ {k} : Joins(view[j], next)}
<1>0. /\ k \in 1 .. m /\ view[k] \in Owned /\ view[k].n \in Nat /\ next.n \in Nat
      /\ view = [j \in DOMAIN view |-> view[j]]
  BY MapsAre, OwnedOnes, StackedOnes
<1>1. CASE next.n = 0
  <2>1. change = [writes |-> Nothing, drops |-> {k}, view |-> But(view, {k})]
    BY <1>1 DEF Apply
  <2>2. IsChange(change, view)
    BY <2>1, OverNothing, NothingMap DEF IsChange
  <2>3. Touches(change, view, k, next)
    BY <2>1 DEF Touches, But, Restrict
  <2>4. ASSUME NEW id PROVE Gains(change.view, view, id, view[k], next)
    <3>1. Count(view, id) = Count(But(view, {k}), id) + IF view[k].id = id THEN view[k].n ELSE 0
      BY CountBut
    <3>2. Count(But(view, {k}), id) \in Nat
      BY ButMap, CountSum
    <3>3. change.view = But(view, {k})
      BY <2>1
    <3> QED BY <1>0, <1>1, <3>1, <3>2, <3>3 DEF Gains
  <2> QED BY <2>2, <2>3, <2>4
<1>2. CASE next.n # 0 /\ into = {}
  <2>1. change = [writes |-> Only(k, next), drops |-> {}, view |-> [view EXCEPT ![k] = next]]
    BY <1>2 DEF Apply
  <2>2. next \in Owned
    BY <1>2, StackedOnes
  <2>3. IsChange(change, view)
    <3> DEFINE v == But(Over(Only(k, next), view), {})  w == [view EXCEPT ![k] = next]
    <3>1. DOMAIN v = DOMAIN w /\ \A j \in DOMAIN v : v[j] = w[j]
      BY DEF Over, Only, But, Restrict
    <3>2. v = [j \in DOMAIN v |-> v[j]] /\ w = [j \in DOMAIN w |-> w[j]]
      BY DEF But, Restrict
    <3> HIDE DEF v, w
    <3>3. v = w
      BY <3>1, <3>2
    <3>4. change.view = But(Over(change.writes, view), change.drops)
      BY <2>1, <3>3 DEF v, w
    <3>5. DOMAIN change.writes = {k} /\ change.drops = {}
      BY <2>1, OnlyAt
    <3> QED BY <3>4, <3>5 DEF IsChange
  <2>4. Touches(change, view, k, next)
    BY <2>1 DEF Touches
  <2>5. \A id : Gains(change.view, view, id, view[k], next)
    BY <2>1, <2>2, CountExcept
  <2> QED BY <2>3, <2>4, <2>5
<1>3. CASE next.n # 0 /\ into # {}
  <2>1. PICK j \in into :
            change = [writes |-> Only(j, Merge(view[j], next)), drops |-> {k},
                      view |-> But([view EXCEPT ![j] = Merge(@, next)], {k})]
    BY <1>3 DEF Apply
  <2>2. /\ j \in DOMAIN view /\ j # k /\ j \in 1 .. m
        /\ view[j] \in Owned /\ view[j].n \in Nat /\ view[j].id = next.id
    BY MapsAre, OwnedOnes DEF Joins
  <2> DEFINE one == Merge(view[j], next)
             w == [view EXCEPT ![j] = one]
  <2>3. one \in Owned /\ one.id = next.id /\ one.n = view[j].n + next.n
    BY <1>0, <2>2, MergeOwned
  <2>4. change = [writes |-> Only(j, one), drops |-> {k}, view |-> But(w, {k})]
    BY <2>1, <2>2
  <2> HIDE DEF one
  <2>5. w \in Maps(m) /\ DOMAIN w = DOMAIN view /\ \A i \in DOMAIN view : w[i] = IF i = j THEN one ELSE view[i]
    BY <2>3, ExceptMap
  <2> HIDE DEF w
  <2>6. IsChange(change, view)
    <3> DEFINE v == But(Over(Only(j, one), view), {k})  u == But(w, {k})
    <3>1. DOMAIN v = DOMAIN u
      BY <2>2, <2>5 DEF Over, Only, But, Restrict
    <3>2. \A i \in DOMAIN v : v[i] = u[i]
      BY <2>2, <2>5 DEF Over, Only, But, Restrict
    <3>3. v = [i \in DOMAIN v |-> v[i]] /\ u = [i \in DOMAIN u |-> u[i]]
      BY DEF But, Restrict
    <3> HIDE DEF v, u
    <3>4. v = u
      BY <3>1, <3>2, <3>3
    <3>5. change.view = But(Over(change.writes, view), change.drops)
      BY <2>4, <3>4 DEF v, u
    <3>6. DOMAIN change.writes = {j} /\ change.drops = {k}
      BY <2>4, OnlyAt
    <3> QED BY <2>2, <3>5, <3>6 DEF IsChange
  <2>7. Touches(change, view, k, next)
    <3>1. DOMAIN But(w, {k}) = DOMAIN view \ {k} /\ \A i \in DOMAIN view \ {k} : But(w, {k})[i] = w[i]
      BY <2>5 DEF But, Restrict
    <3>2. \A i \in DOMAIN view \ {k} : /\ But(w, {k})[i].id = view[i].id
                                       /\ view[i].id # next.id => But(w, {k})[i] = view[i]
      BY <2>2, <2>3, <2>5, <3>1
    <3> QED BY <2>4, <3>1, <3>2 DEF Touches
  <2>8. ASSUME NEW id PROVE Gains(change.view, view, id, view[k], next)
    <3>1. Gains(w, view, id, view[j], one)
      BY <2>2, <2>3, CountExcept DEF w
    <3>2. Count(w, id) = Count(But(w, {k}), id) + IF view[k].id = id THEN view[k].n ELSE 0
      <4>1. k \in DOMAIN w /\ w[k] = view[k]
        BY <2>2, <2>5
      <4>2. Count(w, id) = Count(But(w, {k}), id) + IF w[k].id = id THEN w[k].n ELSE 0
        BY <2>5, <4>1, CountBut
      <4> QED BY <4>1, <4>2
    <3>3. Count(But(w, {k}), id) \in Nat /\ Count(w, id) \in Nat /\ Count(view, id) \in Nat
      BY <2>5, ButMap, CountSum
    <3> QED BY <1>0, <2>2, <2>3, <2>4, <3>1, <3>2, <3>3 DEF Gains
  <2> QED BY <2>6, <2>7, <2>8
<1> QED BY <1>1, <1>2, <1>3

\* How far a place is emptied: the stacks left in it are as they were, none of
\* the others is in it, and each card has the copies it had, in it or unfiled.
Moved(change, view, place, left) ==
    /\ IsChange(change, view)
    /\ \A k \in left : k \in DOMAIN change.view /\ change.view[k] = view[k]
    /\ \A k \in DOMAIN change.view : change.view[k].id.place = place => k \in left
    /\ \A id \in Ids : id.place \notin {place, Unfiled} => Count(change.view, id) = Count(view, id)
    /\ \A card \in Cards :
          LET in == [card |-> card, place |-> place]  loose == [card |-> card, place |-> Unfiled]
          IN  Count(change.view, loose) + Count(change.view, in) = Count(view, loose) + Count(view, in)

\* One stack more taken out of the place.
LEMMA MovedOne ==
    ASSUME NEW m \in Nat, NEW view \in Maps(m), NEW place \in Places, NEW left \in SUBSET InPlace(view, place),
           NEW k \in left, NEW change \in Changes(m), Moved(change, view, place, left),
           NEW next \in Apply(change.view, k, Loosened(view, k))
    PROVE  Moved(Then(change, next), view, place, left \ {k})
<1> DEFINE free == Loosened(view, k)
           both == Then(change, next)
<1>1. /\ k \in DOMAIN view /\ view[k].id.place = place /\ view[k] \in Owned /\ place # Unfiled
      /\ view[k].id \in Ids /\ view[k].n \in Nat
  BY MapsAre, OwnedOnes, PlaceAssumption DEF InPlace
<1>2. free \in Stacked /\ free.id = [card |-> view[k].id.card, place |-> Unfiled] /\ free.n = view[k].n
  BY <1>1, UnfiledTyped
<1> HIDE DEF free
<1>3. change.view \in Maps(m) /\ k \in DOMAIN change.view /\ change.view[k] = view[k]
  BY DEF Changes, Moved
<1>4. next \in Apply(change.view, k, free)
  BY DEF free
<1>5. /\ IsChange(next, change.view) /\ Touches(next, change.view, k, free)
      /\ \A id : Gains(next.view, change.view, id, change.view[k], free)
  BY <1>2, <1>3, <1>4, ApplyDoes
<1>6. next \in Changes(m) /\ next.view \in Maps(m)
  BY <1>2, <1>3, <1>4, ApplyTyped DEF Changes
<1>7. both.view = next.view /\ IsChange(both, view)
  BY <1>5, <1>6, ThenIs DEF Moved, Then
<1>8. ASSUME NEW j \in left \ {k}
      PROVE  j \in DOMAIN next.view /\ next.view[j] = view[j]
  <2>1. j \in DOMAIN change.view /\ change.view[j] = view[j]
    BY DEF Moved
  <2>2. view[j].id.place = place
    BY DEF InPlace
  <2>3. view[j].id # free.id
    BY <1>1, <1>2, <2>2
  <2> QED BY <1>5, <2>1, <2>3 DEF Touches
<1>9. ASSUME NEW j \in DOMAIN next.view, next.view[j].id.place = place
      PROVE  j \in left \ {k}
  <2>1. j \in DOMAIN change.view
    BY <1>5 DEF Touches
  <2>2. j # k
    BY <1>1, <1>2, <1>5, <1>9 DEF Touches
  <2>3. change.view[j].id = next.view[j].id
    BY <1>5, <2>1, <2>2 DEF Touches
  <2> QED BY <1>9, <2>1, <2>2, <2>3 DEF Moved
<1>10. \A id \in Ids : Count(next.view, id) \in Nat /\ Count(change.view, id) \in Nat
  BY <1>3, <1>6, CountSum
<1>11. ASSUME NEW id \in Ids, id.place \notin {place, Unfiled}
       PROVE  Count(next.view, id) = Count(view, id)
  <2>1. id # view[k].id /\ id # free.id
    BY <1>1, <1>2, <1>11
  <2>2. Count(next.view, id) = Count(change.view, id)
    BY <1>3, <1>5, <1>10, <2>1 DEF Gains
  <2> QED BY <1>11, <2>2 DEF Moved
<1>12. ASSUME NEW card \in Cards
       PROVE  LET in == [card |-> card, place |-> place]  loose == [card |-> card, place |-> Unfiled]
              IN  Count(next.view, loose) + Count(next.view, in) = Count(view, loose) + Count(view, in)
  <2> DEFINE in == [card |-> card, place |-> place]
             loose == [card |-> card, place |-> Unfiled]
  <2>1. in \in Ids /\ loose \in Ids /\ in # loose
    BY <1>1 DEF Ids
  <2>2. Count(change.view, loose) + Count(change.view, in) = Count(view, loose) + Count(view, in)
    BY DEF Moved
  <2>3. view[k].id = in <=> free.id = loose
    <3>1. view[k].id = [card |-> view[k].id.card, place |-> place]
      BY <1>1 DEF Ids
    <3> QED BY <1>2, <3>1
  <2>4. view[k].id # loose /\ free.id # in
    BY <1>1, <1>2
  <2>5. Gains(next.view, change.view, in, view[k], free) /\ Gains(next.view, change.view, loose, view[k], free)
    BY <1>3, <1>5
  <2>6. /\ Count(next.view, in) \in Nat /\ Count(next.view, loose) \in Nat
        /\ Count(change.view, in) \in Nat /\ Count(change.view, loose) \in Nat
    BY <1>10, <2>1
  <2> HIDE DEF in, loose
  <2>7. Count(next.view, loose) + Count(next.view, in) = Count(change.view, loose) + Count(change.view, in)
    BY <1>1, <1>2, <2>3, <2>4, <2>5, <2>6 DEF Gains
  <2>8. Count(next.view, loose) + Count(next.view, in) = Count(view, loose) + Count(view, in)
    BY <2>2, <2>7
  <2> QED BY <2>8 DEF in, loose
<1> HIDE DEF both
<1> QED BY <1>7, <1>8, <1>9, <1>11, <1>12 DEF Moved, both

\* Emptying a place unfiles what it held, and changes nothing else.
LEMMA EmptiedMoves ==
    ASSUME NEW m \in Nat, NEW view \in Maps(m), NEW place \in Places,
           NEW change \in Emptied(view, place)
    PROVE  Moved(change, view, place, {})
<1> DEFINE S == InPlace(view, place)
<1>1. PICK h \in [SUBSET InPlace(view, place) -> SUBSET Changes(m)] :
              /\ h[{}] = {NoChange(view)}
              /\ \A s \in SUBSET InPlace(view, place) : s # {} =>
                    \E k \in s : h[s] = Unfolded(view, k, h[s \ {k}])
              /\ Emptied(view, place) = h[InPlace(view, place)]
  BY EmptiedTable
<1> DEFINE T == {s \in SUBSET S : \A c \in h[s] : Moved(c, view, place, S \ s)}
<1>2. {} \in T
  <2>1. NoChange(view).view = view
    BY DEF NoChange
  <2>2. IsChange(NoChange(view), view)
    BY NoChangeIs
  <2>3. Moved(NoChange(view), view, place, S \ {})
    BY <2>1, <2>2 DEF Moved, InPlace
  <2> QED BY <1>1, <2>3
<1>3. ASSUME NEW s \in SUBSET S, s # {}
      PROVE  \E k \in s : s \ {k} \in T => s \in T
  <2>1. PICK k \in s : h[s] = Unfolded(view, k, h[s \ {k}])
    BY <1>1, <1>3
  <2>2. ASSUME s \ {k} \in T, NEW c \in h[s]
        PROVE  Moved(c, view, place, S \ s)
    <3>1. PICK one \in h[s \ {k}] : \E next \in Apply(one.view, k, Loosened(view, k)) : c = Then(one, next)
      BY <2>1 DEF Unfolded
    <3>2. PICK next \in Apply(one.view, k, Loosened(view, k)) : c = Then(one, next)
      BY <3>1
    <3> DEFINE left == S \ (s \ {k})
    <3>3. one \in Changes(m) /\ Moved(one, view, place, left)
      BY <1>1, <2>2
    <3>4. left \in SUBSET S /\ k \in left /\ left \ {k} = S \ s
      OBVIOUS
    <3> HIDE DEF left
    <3>5. Moved(Then(one, next), view, place, left \ {k})
      BY <3>3, <3>4, MovedOne
    <3> QED BY <3>2, <3>4, <3>5
  <2> QED BY <2>2
<1>4. IsFiniteSet(S)
  BY MapFinite, FS_Subset DEF InPlace
<1>5. S \in T
  <2> HIDE DEF T, S
  <2> QED BY <1>2, <1>3, <1>4, SubsetDescent
<1> QED BY <1>1, <1>5

\* What the owner asked for when a place is emptied is what comes of it.
LEMMA EmptiedCounts ==
    ASSUME NEW m \in Nat, NEW view \in Maps(m), NEW place \in Places,
           NEW change \in Changes(m), Moved(change, view, place, {}), NEW id \in Ids
    PROVE  Count(change.view, id)
               = IF id.place = place THEN 0
                 ELSE IF id.place = Unfiled THEN Count(view, id) + Count(view, [id EXCEPT !.place = place])
                 ELSE Count(view, id)
<1>1. change.view \in Maps(m) /\ place # Unfiled
  BY PlaceAssumption DEF Changes
<1>2. ASSUME NEW other \in Ids, other.place = place
      PROVE  Count(change.view, other) = 0
  <2>1. \A k \in DOMAIN change.view : change.view[k].id # other
    BY <1>2 DEF Moved
  <2> QED BY <1>1, <2>1, CountNone
<1>3. CASE id.place = Unfiled
  <2> DEFINE in == [card |-> id.card, place |-> place]
  <2>1. id = [card |-> id.card, place |-> Unfiled] /\ [id EXCEPT !.place = place] = in /\ id.card \in Cards
        /\ in \in Ids
    BY <1>3 DEF Ids
  <2>2. Count(change.view, id) + Count(change.view, in) = Count(view, id) + Count(view, in)
    BY <2>1 DEF Moved
  <2>3. Count(change.view, in) = 0
    BY <1>2, <2>1
  <2>4. Count(change.view, id) \in Nat
    BY <1>1, CountSum
  <2> HIDE DEF in
  <2> QED BY <1>1, <1>3, <2>1, <2>2, <2>3, <2>4
<1>4. CASE id.place = place
  BY <1>2, <1>4
<1>5. CASE id.place \notin {place, Unfiled}
  BY <1>5 DEF Moved
<1> QED BY <1>3, <1>4, <1>5

\* Records of one view that stand in another as they are.
Under(some, view) == DOMAIN some \subseteq DOMAIN view /\ \A k \in DOMAIN some : some[k] = view[k]

\* The writes of a drain: for each identity a part holds either the record it
\* joins or one it makes, never both and never two.
Fills(updates, creates, part, view) ==
    /\ \A k \in DOMAIN updates : /\ k \in DOMAIN view /\ updates[k].id = view[k].id
                                 /\ part[view[k].id] > 0
                                 /\ updates[k].n = view[k].n + part[view[k].id]
    /\ \A one \in creates : one.id \in Ids /\ part[one.id] > 0 /\ one.n = part[one.id]
    /\ \A j, k \in DOMAIN updates : view[j].id = view[k].id => j = k
    /\ \A k \in DOMAIN updates : \A one \in creates : one.id # view[k].id
    /\ \A id \in Ids : part[id] > 0 =>
          (\E k \in DOMAIN updates : view[k].id = id) \/ (\E one \in creates : one.id = id)

\* A drain writes that, when the records its tab remembers are as its view
\* holds them.
LEMMA DrainedFills ==
    ASSUME NEW m \in Nat, NEW view \in Maps(m), NEW last, Under(last, view), NEW part \in Entries,
           NEW writes \in Drained(part, view, last)
    PROVE  Fills(writes.updates, writes.creates, part, view)
<1>1. PICK into, at, was : Joining(into, at, was, part, view, last, writes)
  BY DrainedJoins
<1>2. ASSUME NEW id \in into
      PROVE  /\ id \in Ids /\ part[id] > 0 /\ at[id] \in DOMAIN view /\ view[at[id]].id = id
             /\ was[id] = view[at[id]]
  BY <1>1 DEF Joining, Filled, Under
<1> DEFINE keys == {at[id] : id \in into}
           Mine(k) == CHOOSE id \in into : at[id] = k
<1>3. ASSUME NEW k \in keys
      PROVE  /\ Mine(k) \in into /\ at[Mine(k)] = k /\ Mine(k) = view[k].id
  <2>1. Mine(k) \in into /\ at[Mine(k)] = k
    OBVIOUS
  <2> HIDE DEF Mine
  <2> QED BY <1>2, <2>1
<1>4. writes.updates = [k \in keys |-> Merge(was[Mine(k)], Entry(part, Mine(k)))]
  BY <1>1 DEF Joining
<1> HIDE DEF Mine, keys
<1>5. DOMAIN writes.updates = keys
  BY <1>4
<1>6. ASSUME NEW k \in keys
      PROVE  /\ k \in DOMAIN view /\ writes.updates[k].id = view[k].id
             /\ part[view[k].id] > 0 /\ view[k].id \in into
             /\ writes.updates[k].n = view[k].n + part[view[k].id]
  <2>1. was[Mine(k)] = view[k] /\ k \in DOMAIN view /\ part[view[k].id] > 0
    BY <1>2, <1>3
  <2>2. writes.updates[k] = Merge(view[k], Entry(part, view[k].id))
    BY <1>3, <1>4, <2>1
  <2>3. view[k] \in Owned
    BY <2>1, MapsAre
  <2>4. Entry(part, view[k].id).n = part[view[k].id] /\ part[view[k].id] \in Nat
    BY <2>3 DEF Entry, Entries, Owned
  <2>5. Merge(view[k], Entry(part, view[k].id)) = [id |-> view[k].id, n |-> view[k].n + part[view[k].id]]
    BY <2>3, <2>4, MergeOwned
  <2> QED BY <1>3, <2>1, <2>2, <2>5
<1>7. \A one \in writes.creates : /\ one.id \in Ids /\ part[one.id] > 0 /\ one.n = part[one.id]
                                  /\ one.id \notin into
  BY <1>1 DEF Joining, Entry, Filled
<1>8. \A j, k \in keys : view[j].id = view[k].id => j = k
  BY <1>3
<1>9. \A k \in keys : \A one \in writes.creates : one.id # view[k].id
  BY <1>6, <1>7
<1>10. ASSUME NEW id \in Ids, part[id] > 0
       PROVE  (\E k \in keys : view[k].id = id) \/ (\E one \in writes.creates : one.id = id)
  <2>1. CASE id \in into
    <3>1. at[id] \in keys /\ view[at[id]].id = id
      BY <1>2, <2>1 DEF keys
    <3> QED BY <3>1
  <2>2. CASE id \notin into
    <3>1. Entry(part, id) \in writes.creates /\ Entry(part, id).id = id
      BY <1>1, <1>10, <2>2 DEF Joining, Entry, Filled
    <3> QED BY <3>1
  <2> QED BY <2>1, <2>2
<1> QED BY <1>5, <1>6, <1>7, <1>8, <1>9, <1>10 DEF Fills

\* Once a drain has landed there are as many copies more of each identity as
\* the part held.
LEMMA LandingCounts ==
    ASSUME NEW m \in Nat, NEW n \in Nat, m <= n, NEW view \in Maps(m), NEW updates \in Maps(m),
           NEW creates \in SUBSET Owned, NEW part \in Entries, Fills(updates, creates, part, view),
           NEW made \in Bijection(m + 1 .. n, creates), NEW id \in Ids
    PROVE  Count(Over(updates, Over(made, view)), id) = Count(view, id) + part[id]
<1> DEFINE minting == m + 1 .. n
           w == Over(updates, Over(made, view))
           S == DOMAIN w
           R == DOMAIN view
           F == Counted(w, id)
           G == Counted(view, id)
<1>0. /\ made \in [minting -> creates]
      /\ \A j, k \in minting : made[j] = made[k] => j = k
      /\ \A one \in creates : \E k \in minting : made[k] = one
  BY DEF Bijection, Injection, Surjection, IsInjective
<1>1. R \subseteq 1 .. m /\ minting \cap R = {} /\ DOMAIN made = minting
  BY <1>0, MapsAre
<1>2. DOMAIN updates \subseteq R
  BY DEF Fills
<1>3. /\ S = R \cup minting
      /\ \A k \in S : w[k] = IF k \in DOMAIN updates THEN updates[k]
                             ELSE IF k \in minting THEN made[k] ELSE view[k]
  BY <1>1, <1>2 DEF Over
<1>4. w \in Maps(n)
  <2>1. view \in Maps(n) /\ updates \in Maps(n)
    BY MapsLater
  <2>2. minting \subseteq 1 .. n
    OBVIOUS
  <2>3. made \in Maps(n)
    <3>1. \A k \in DOMAIN made : made[k] \in Owned
      BY <1>0, <1>1
    <3>2. made = [k \in DOMAIN made |-> made[k]]
      BY <1>0
    <3> HIDE DEF minting
    <3> QED BY <1>1, <2>2, <3>1, <3>2, MapsAre
  <2> QED BY <2>1, <2>3, OverMap
<1> HIDE DEF w
<1>5. F \in [S -> Nat] /\ Count(w, id) = SumFunction(F) /\ IsFiniteSet(S)
  BY <1>4, CountSum, MapFinite
<1>6. G \in [R -> Nat] /\ Count(view, id) = SumFunction(G) /\ R \in SUBSET S
  BY <1>3, CountSum
<1>7. part[id] \in Nat /\ \A k \in R : view[k] \in Owned /\ view[k].id \in Ids /\ view[k].n \in Nat
  BY MapsAre, OwnedOnes DEF Entries
<1>8. /\ \A k \in S : F[k] = IF w[k].id = id THEN w[k].n ELSE 0
      /\ \A k \in R : G[k] = IF view[k].id = id THEN view[k].n ELSE 0
  BY DEF Counted
<1> HIDE DEF F, G, S
<1>9. ASSUME NEW k \in S,
             ~(k \in DOMAIN updates /\ view[k].id = id), ~(k \in minting /\ made[k].id = id)
      PROVE  F[k] = IF k \in R THEN G[k] ELSE 0
  <2>1. CASE k \in DOMAIN updates
    <3>1. updates[k].id = view[k].id /\ w[k] = updates[k] /\ k \in R
      BY <1>2, <1>3, <2>1 DEF Fills
    <3> QED BY <1>8, <1>9, <2>1, <3>1
  <2>2. CASE k \notin DOMAIN updates /\ k \in minting
    <3>1. w[k] = made[k] /\ k \notin R
      BY <1>1, <1>3, <2>2
    <3> QED BY <1>8, <1>9, <2>2, <3>1
  <2>3. CASE k \notin DOMAIN updates /\ k \notin minting
    <3>1. w[k] = view[k] /\ k \in R
      BY <1>3, <2>3
    <3> QED BY <1>8, <3>1
  <2> QED BY <2>1, <2>2, <2>3
<1>10. CASE part[id] = 0
  <2>1. ASSUME NEW k \in S
        PROVE  F[k] = IF k \in R THEN G[k] ELSE 0
    <3>1. ~(k \in DOMAIN updates /\ view[k].id = id)
      BY <1>10 DEF Fills
    <3>2. ~(k \in minting /\ made[k].id = id)
      BY <1>0, <1>10 DEF Fills
    <3> QED BY <1>9, <3>1, <3>2
  <2>2. SumFunction(F) = SumFunction(G)
    <3>1. \A k \in S \ R : F[k] = 0
      BY <2>1
    <3>2. \A k \in R : G[k] = F[k]
      BY <1>6, <2>1
    <3> HIDE DEF R
    <3> QED BY <1>5, <1>6, <3>1, <3>2, SumZeros
  <2>3. SumFunction(G) \in Nat
    BY <1>6, CountSum
  <2> QED BY <1>5, <1>6, <1>10, <2>2, <2>3 DEF w
<1>11. ASSUME NEW x \in S, F[x] = (IF x \in R THEN G[x] ELSE 0) + part[id],
              \A k \in S \ {x} : F[k] = IF k \in R THEN G[k] ELSE 0
       PROVE  Count(w, id) = Count(view, id) + part[id]
  <2> HIDE DEF R
  <2>1. SumFunction(F) = SumFunction(G) + part[id]
    BY <1>5, <1>6, <1>7, <1>11, SumMore
  <2> QED BY <1>5, <1>6, <2>1
<1>12. CASE \E k \in DOMAIN updates : view[k].id = id
  <2>1. PICK x \in DOMAIN updates : view[x].id = id
    BY <1>12
  <2>2. x \in S /\ x \in R /\ w[x] = updates[x] /\ updates[x].id = id /\ updates[x].n = view[x].n + part[id]
    BY <1>2, <1>3, <2>1 DEF Fills
  <2>3. F[x] = G[x] + part[id]
    BY <1>8, <2>1, <2>2
  <2>4. ASSUME NEW k \in S \ {x} PROVE F[k] = IF k \in R THEN G[k] ELSE 0
    <3>1. ~(k \in DOMAIN updates /\ view[k].id = id)
      BY <2>1, <2>4 DEF Fills
    <3>2. ~(k \in minting /\ made[k].id = id)
      BY <1>0, <2>1 DEF Fills
    <3> QED BY <1>9, <3>1, <3>2
  <2> QED BY <1>11, <2>2, <2>3, <2>4 DEF w
<1>13. CASE part[id] > 0 /\ ~(\E k \in DOMAIN updates : view[k].id = id)
  <2>1. PICK one \in creates : one.id = id
    BY <1>13 DEF Fills
  <2>2. PICK x \in minting : made[x] = one
    BY <1>0
  <2>3. x \in S /\ x \notin R /\ w[x] = one /\ one.n = part[id]
    BY <1>1, <1>2, <1>3, <2>1, <2>2 DEF Fills
  <2>4. F[x] = 0 + part[id]
    BY <1>7, <1>8, <2>1, <2>3
  <2>5. ASSUME NEW k \in S \ {x} PROVE F[k] = IF k \in R THEN G[k] ELSE 0
    <3>1. ~(k \in minting /\ made[k].id = id)
      <4> SUFFICES ASSUME k \in minting, made[k].id = id PROVE FALSE
        OBVIOUS
      <4>1. made[k] \in Owned /\ one \in Owned /\ made[k].n = part[id] /\ one.n = part[id]
        BY <1>0, <2>1 DEF Fills
      <4>2. made[k] = one
        BY <2>1, <4>1, OwnedOnes
      <4> QED BY <1>0, <2>2, <2>5, <4>2
    <3> QED BY <1>9, <1>13, <3>1
  <2> QED BY <1>11, <2>3, <2>4, <2>5 DEF w
<1> QED BY <1>7, <1>10, <1>12, <1>13

-----------------------------------------------------------------------------
(* What waits.                                                             *)

\* What waits is what waits in a part and what waits in the others.
LEMMA WaitingBut ==
    ASSUME NEW some \in Listings, NEW p \in DOMAIN some, NEW id \in Ids
    PROVE  Waiting(some, id) = some[p][id] + Waiting(But(some, {p}), id)
<1> DEFINE left == But(some, {p})  F == EachOf(some, id)  G == EachOf(left, id)
<1>1. left \in Listings /\ DOMAIN left = DOMAIN some \ {p} /\ \A q \in DOMAIN some \ {p} : left[q] = some[q]
  BY ButListing, ButAt
<1> HIDE DEF left
<1>2. F \in [DOMAIN some -> Nat] /\ Waiting(some, id) = SumFunction(F) /\ IsFiniteSet(DOMAIN some)
  BY FiniteAssumption, WaitingSum
<1>3. G \in [DOMAIN some \ {p} -> Nat] /\ Waiting(left, id) = SumFunction(G)
  BY <1>1, FiniteAssumption, WaitingSum
<1>4. F[p] = some[p][id] /\ \A q \in DOMAIN some \ {p} : G[q] = F[q]
  BY <1>1 DEF EachOf
<1> HIDE DEF F, G
<1>5. SumFunction(F) = F[p] + SumFunction(G)
  BY <1>2, <1>3, <1>4, SumLess
<1> QED BY <1>2, <1>3, <1>4, <1>5 DEF left

\* Nothing waits that no part holds.
LEMMA WaitingNone ==
    ASSUME NEW some \in Listings, NEW id \in Ids, \A p \in DOMAIN some : some[p][id] = 0
    PROVE  Waiting(some, id) = 0
<1> DEFINE F == EachOf(some, id)
<1>1. F \in [DOMAIN some -> Nat] /\ Waiting(some, id) = SumFunction(F) /\ IsFiniteSet(DOMAIN some)
  BY FiniteAssumption, WaitingSum
<1>2. \A p \in DOMAIN some : F[p] = 0
  BY DEF EachOf
<1> HIDE DEF F
<1> QED BY <1>1, <1>2, SumSame

LeftBefore(listing, id, copies, p) ==
    [q \in DOMAIN listing |-> IF q < p THEN Left(listing, id, copies, q) ELSE 0]

\* What is left of the first parts: what they held, less what is shed.
LEMMA LeftSums ==
    ASSUME NEW listing \in Listings, NEW id \in Ids, NEW copies \in Nat
    PROVE  \A n \in Nat : SumFunction(LeftBefore(listing, id, copies, n))
                              = Less(SumFunction(Earlier(listing, id, n)), copies)
<1> DEFINE D == DOMAIN listing
           A(n) == Earlier(listing, id, n)
           L(n) == LeftBefore(listing, id, copies, n)
           T == {n \in Nat : SumFunction(L(n)) = Less(SumFunction(A(n)), copies)}
<1>1. IsFiniteSet(D) /\ D \subseteq Nat
  BY FiniteAssumption, PartsAssumption, WaitingSum, ListingsAre
<1>2. \A p \in D : listing[p][id] \in Nat /\ Left(listing, id, copies, p) \in Nat
  BY FiniteAssumption, LeftTyped, ListingsAre DEF Entries
<1>3. \A n \in Nat : A(n) \in [D -> Nat] /\ L(n) \in [D -> Nat]
  BY <1>2 DEF Earlier, LeftBefore
<1>4. \A n \in Nat, p \in D : /\ A(n)[p] = IF p < n THEN listing[p][id] ELSE 0
                              /\ L(n)[p] = IF p < n THEN Left(listing, id, copies, p) ELSE 0
  BY DEF Earlier, LeftBefore
<1>5. \A n \in Nat : SumFunction(A(n)) \in Nat /\ SumFunction(L(n)) \in Nat
  <2> TAKE n \in Nat
  <2>1. A(n) \in [D -> Nat] /\ L(n) \in [D -> Nat]
    BY <1>3
  <2> HIDE DEF A, L, D
  <2> QED BY <1>1, <2>1, SumType
<1>6. 0 \in T
  <2>1. A(0) \in [D -> Nat] /\ L(0) \in [D -> Nat] /\ \A p \in D : A(0)[p] = 0 /\ L(0)[p] = 0
    BY <1>1, <1>3, <1>4
  <2> HIDE DEF A, L, D
  <2>2. SumFunction(A(0)) = 0 /\ SumFunction(L(0)) = 0
    BY <1>1, <2>1, SumSame
  <2> QED BY <2>2 DEF Less
<1>7. ASSUME NEW n \in Nat, n \in T PROVE n + 1 \in T
  <2>1. n + 1 \in Nat /\ SumFunction(A(n)) \in Nat /\ SumFunction(L(n)) \in Nat
        /\ SumFunction(A(n + 1)) \in Nat /\ SumFunction(L(n + 1)) \in Nat
    BY <1>5
  <2>2. /\ A(n) \in [D -> Nat] /\ L(n) \in [D -> Nat] /\ A(n + 1) \in [D -> Nat] /\ L(n + 1) \in [D -> Nat]
    BY <1>3, <2>1
  <2>3. \A p \in D : p # n => A(n + 1)[p] = A(n)[p] /\ L(n + 1)[p] = L(n)[p]
    BY <1>1, <1>4, <2>1
  <2>4. SumFunction(L(n)) = Less(SumFunction(A(n)), copies)
    BY <1>7
  <2>5. CASE n \notin D
    <3>1. A(n + 1) = A(n) /\ L(n + 1) = L(n)
      <4> HIDE DEF A, L, D
      <4> QED BY <2>2, <2>3, <2>5
    <3> HIDE DEF A, L
    <3> QED BY <2>1, <2>4, <3>1
  <2>6. CASE n \in D
    <3>1. /\ A(n)[n] = 0 /\ L(n)[n] = 0
          /\ A(n + 1)[n] = listing[n][id] /\ L(n + 1)[n] = Left(listing, id, copies, n)
      BY <1>4, <2>1, <2>6
    <3>2. listing[n][id] \in Nat /\ Left(listing, id, copies, n) \in Nat
      BY <1>2, <2>6
    <3>3. SumFunction(A(n + 1)) = SumFunction(A(n)) + listing[n][id]
      <4> DEFINE F == A(n + 1)  G == A(n)
      <4>1. F \in [D -> Nat] /\ G \in [D -> Nat] /\ F[n] = G[n] + listing[n][id] /\ \A p \in D \ {n} : F[p] = G[p]
        BY <2>2, <2>3, <3>1, <3>2
      <4> HIDE DEF F, G, D
      <4>2. SumFunction(F) = SumFunction(G) + listing[n][id]
        <5>1. IsFiniteSet(D) /\ n \in D /\ listing[n][id] \in Nat
          BY <1>1, <2>6, <3>2 DEF D
        <5>2. F[n] = G[n] + listing[n][id]
          BY <4>1
        <5>3. \A p \in D \ {n} : F[p] = G[p]
          BY <4>1
        <5>4. SumFunction(F) + G[n] = SumFunction(G) + F[n]
          <6> HIDE DEF F, G, D
          <6>1. F \in [D -> Nat] /\ G \in [D -> Nat]
            BY <4>1
          <6> QED BY <5>1, <5>3, <6>1, SumGrown
        <5>5. SumFunction(F) \in Nat /\ SumFunction(G) \in Nat /\ G[n] = 0
          BY <2>1, <3>1 DEF F, G
        <5> QED BY <5>1, <5>2, <5>4, <5>5
      <4> QED BY <4>2 DEF F, G
    <3>4. SumFunction(L(n + 1)) = SumFunction(L(n)) + Left(listing, id, copies, n)
      <4> DEFINE F == L(n + 1)  G == L(n)  c == Left(listing, id, copies, n)
      <4>1. F \in [D -> Nat] /\ G \in [D -> Nat] /\ F[n] = G[n] + c /\ \A p \in D \ {n} : F[p] = G[p]
        BY <2>2, <2>3, <3>1, <3>2
      <4>2. c \in Nat
        BY <3>2
      <4> HIDE DEF F, G, D, c
      <4>3. SumFunction(F) = SumFunction(G) + c
        <5>1. IsFiniteSet(D) /\ n \in D
          BY <1>1, <2>6 DEF D
        <5>2. F[n] = G[n] + c
          BY <4>1
        <5>3. \A p \in D \ {n} : F[p] = G[p]
          BY <4>1
        <5>4. SumFunction(F) + G[n] = SumFunction(G) + F[n]
          <6>1. F \in [D -> Nat] /\ G \in [D -> Nat]
            BY <4>1
          <6> QED BY <5>1, <5>3, <6>1, SumGrown
        <5>5. SumFunction(F) \in Nat /\ SumFunction(G) \in Nat /\ G[n] = 0
          BY <2>1, <3>1 DEF F, G
        <5> QED BY <4>2, <5>2, <5>4, <5>5
      <4> QED BY <4>3 DEF F, G, c
    <3>5. Left(listing, id, copies, n)
              = IF listing[n][id] <= Less(copies, SumFunction(A(n))) THEN 0
                ELSE listing[n][id] - Less(copies, SumFunction(A(n)))
      <4>1. Owed(listing, id, copies, n) = Less(copies, SumFunction(A(n)))
        BY <2>1 DEF Owed, Less
      <4> QED BY <4>1 DEF Left
    <3> DEFINE a == SumFunction(A(n))  l == SumFunction(L(n))  c == listing[n][id]
               b == SumFunction(A(n + 1))  k == SumFunction(L(n + 1))  f == Left(listing, id, copies, n)
    <3>6. a \in Nat /\ l \in Nat /\ c \in Nat /\ f \in Nat /\ b = a + c /\ k = l + f /\ l = Less(a, copies)
          /\ f = IF c <= Less(copies, a) THEN 0 ELSE c - Less(copies, a)
      BY <2>1, <2>4, <3>2, <3>3, <3>4, <3>5
    <3>7. k = Less(b, copies)
      <4> HIDE DEF a, l, c, b, k, f
      <4> QED BY <3>6 DEF Less
    <3> QED BY <2>1, <3>7
  <2> QED BY <2>5, <2>6
<1>8. \A n \in Nat : n \in T
  <2>1. \A n \in Nat : n \in T => n + 1 \in T
    BY <1>7
  <2> HIDE DEF T
  <2> QED BY <1>6, <2>1, NatSetInduction
<1> QED BY <1>8

\* So as many copies fewer wait of what is shed, and as many as did of the
\* rest.
LEMMA SparedWaits ==
    ASSUME NEW listing \in Listings, NEW id \in Ids, NEW copies \in Nat, NEW other \in Ids
    PROVE  Waiting(Spared(listing, id, copies), other)
               = IF other = id THEN Less(Waiting(listing, id), copies) ELSE Waiting(listing, other)
<1> DEFINE D == DOMAIN listing
           kept == Spared(listing, id, copies)
<1>1. kept \in Listings /\ DOMAIN kept = D
  BY FiniteAssumption, ShedTyped DEF Spared
<1>2. ASSUME NEW p \in D
      PROVE  kept[p][other] = IF other = id THEN Left(listing, id, copies, p) ELSE listing[p][other]
  <2>1. listing[p] \in Entries
    BY ListingsAre
  <2> QED BY <2>1 DEF Spared, Entries
<1> HIDE DEF kept
<1>3. Waiting(kept, other) = SumFunction(EachOf(kept, other))
  BY <1>1, FiniteAssumption, WaitingSum
<1>4. CASE other # id
  <2>1. EachOf(kept, other) = EachOf(listing, other)
    BY <1>1, <1>2, <1>4 DEF EachOf
  <2>2. Waiting(listing, other) = SumFunction(EachOf(listing, other))
    BY FiniteAssumption, WaitingSum
  <2> QED BY <1>3, <1>4, <2>1, <2>2 DEF kept
<1>5. CASE other = id
  <2>1. PICK n \in Nat : \A p \in D : p < n
    <3>1. IsFiniteSet(D) /\ D \in SUBSET Nat
      BY FiniteAssumption, PartsAssumption, WaitingSum, ListingsAre
    <3> QED BY <3>1, Bounded
  <2>2. LeftBefore(listing, id, copies, n) = EachOf(kept, id)
    BY <1>1, <1>2, <1>5, <2>1 DEF LeftBefore, EachOf
  <2>3. Earlier(listing, id, n) = EachOf(listing, id)
    BY <2>1 DEF Earlier, EachOf
  <2>4. Waiting(listing, id) = SumFunction(EachOf(listing, id))
    BY FiniteAssumption, WaitingSum
  <2>5. SumFunction(LeftBefore(listing, id, copies, n)) = Less(SumFunction(Earlier(listing, id, n)), copies)
    BY LeftSums
  <2> QED BY <1>3, <1>5, <2>2, <2>3, <2>4, <2>5 DEF kept
<1> QED BY <1>4, <1>5

\* A shed takes out as many copies as it is asked to, and of nothing else.
LEMMA ShedWaits ==
    ASSUME NEW listing \in Listings, NEW id \in Ids, NEW copies \in Nat, NEW other \in Ids
    PROVE  Waiting(Shed(listing, id, copies), other)
               = IF other = id THEN Less(Waiting(listing, id), copies) ELSE Waiting(listing, other)
<1> DEFINE kept == Spared(listing, id, copies)
           left == Shed(listing, id, copies)
           R == {p \in DOMAIN listing : ~Empty(kept[p])}
           F == EachOf(kept, other)
           G == EachOf(left, other)
<1>1. kept \in Listings /\ DOMAIN kept = DOMAIN listing /\ left \in Listings /\ left = Restrict(kept, R)
  BY FiniteAssumption, ShedTyped, ShedIs DEF Spared
<1>2. Waiting(kept, other) = IF other = id THEN Less(Waiting(listing, id), copies) ELSE Waiting(listing, other)
  BY SparedWaits
<1> HIDE DEF kept, left
<1>3. DOMAIN left = R /\ \A p \in R : left[p] = kept[p]
  BY <1>1 DEF Restrict
<1>4. /\ F \in [DOMAIN kept -> Nat] /\ Waiting(kept, other) = SumFunction(F) /\ IsFiniteSet(DOMAIN kept)
      /\ G \in [R -> Nat] /\ Waiting(left, other) = SumFunction(G)
  BY <1>1, <1>3, FiniteAssumption, WaitingSum
<1>5. /\ \A p \in DOMAIN kept \ R : F[p] = 0
      /\ \A p \in R : G[p] = F[p]
      /\ R \in SUBSET DOMAIN kept
  BY <1>1, <1>3 DEF EachOf, Empty
<1> HIDE DEF F, G, R
<1>6. SumFunction(F) = SumFunction(G)
  BY <1>4, <1>5, SumZeros
<1> QED BY <1>2, <1>4, <1>6 DEF left

\* Once it has landed the parts are what the shed left of them.
LEMMA ShedTaken ==
    ASSUME NEW left \in Listings, parts \in Listings, DOMAIN left \subseteq DOMAIN parts
    PROVE  Taken(ShedCall(left)) = left
<1> DEFINE touched == Touched(left)
           v == Over(Restrict(left, touched \cap DOMAIN left), But(parts, touched))
<1>1. Taken(ShedCall(left)) = v
  BY DEF Taken, ShedCall, NotOut
<1>2. \A p \in DOMAIN parts : p \notin touched => p \in DOMAIN left /\ left[p] = parts[p]
  BY DEF Touched
<1>3. \A p \in touched : p \in DOMAIN parts
  BY DEF Touched
<1> HIDE DEF touched
<1>4. /\ DOMAIN v = DOMAIN left
      /\ \A p \in DOMAIN v : v[p] = left[p]
      /\ v = [p \in DOMAIN v |-> v[p]]
  BY <1>2, <1>3 DEF Over, But, Restrict
<1>5. left = [p \in DOMAIN left |-> left[p]]
  BY ListingsAre
<1> HIDE DEF v
<1> QED BY <1>1, <1>4, <1>5

\* Three views laid over each other, in either order of laying.
LEMMA OverOver ==
    ASSUME NEW f, NEW g, NEW h
    PROVE  Over(f, Over(g, h)) = Over(Over(f, g), h)
<1> DEFINE v == Over(f, Over(g, h))  w == Over(Over(f, g), h)
<1>1. DOMAIN v = DOMAIN w
  BY DEF Over
<1>2. \A k \in DOMAIN v : v[k] = w[k]
  BY DEF Over
<1>3. v = [k \in DOMAIN v |-> v[k]] /\ w = [k \in DOMAIN w |-> w[k]]
  BY DEF Over
<1> HIDE DEF v, w
<1>4. v = w
  BY <1>1, <1>2, <1>3
<1> QED BY <1>4 DEF v, w

\* What stands in a view already changes nothing laid over it.
LEMMA OverUnder ==
    ASSUME NEW m, NEW some \in Maps(m), NEW view \in Maps(m), Under(some, view)
    PROVE  Over(some, view) = view
<1> DEFINE v == Over(some, view)
<1>1. DOMAIN v = DOMAIN view /\ \A k \in DOMAIN v : v[k] = view[k]
  BY DEF Over, Under
<1>2. v \in Maps(m)
  BY OverMap
<1> HIDE DEF v
<1>3. v = view
  BY <1>1, <1>2, MapsEqual
<1> QED BY <1>3 DEF v

\* What stands in a view stands in it when the same is laid over both.
LEMMA UnderOver ==
    ASSUME NEW f, NEW some, NEW view
    PROVE  /\ Under(some, view) => Under(Over(f, some), Over(f, view))
           /\ Under(some, Over(some, view))
           /\ Under(Nothing, view)
  BY DEF Under, Over, Nothing

\* And in whatever that view stands in.
LEMMA UnderUnder ==
    ASSUME NEW f, NEW g, NEW h, Under(f, g), Under(g, h)
    PROVE  Under(f, h)
  BY DEF Under

\* A record that is new covers none that is there.
LEMMA NewUnder ==
    ASSUME NEW m \in Nat, NEW some \in Maps(m), NEW view \in Maps(m), NEW one, Under(some, view)
    PROVE  Under(some, Over(Only(m + 1, one), view))
<1>1. \A k \in DOMAIN view : k # m + 1
  BY MapsAre
<1> QED BY <1>1 DEF Under, Over, Only

\* A change that is apart from some records leaves them as they are.
LEMMA ChangeUnder ==
    ASSUME NEW view, NEW change, IsChange(change, view), NEW some, Under(some, view),
           (DOMAIN change.writes \cup change.drops) \cap DOMAIN some = {}
    PROVE  Under(some, change.view)
<1>1. /\ DOMAIN change.view = (DOMAIN change.writes \cup DOMAIN view) \ change.drops
      /\ \A k \in DOMAIN change.view :
            change.view[k] = IF k \in DOMAIN change.writes THEN change.writes[k] ELSE view[k]
  BY ChangeAt
<1> QED BY <1>1 DEF Under

\* The count once the server has minted a record.
LEMMA CountNew ==
    ASSUME NEW m \in Nat, NEW view \in Maps(m), NEW one \in Owned, NEW id
    PROVE  Count(Over(Only(m + 1, one), view), id) = Count(view, id) + IF one.id = id THEN one.n ELSE 0
<1>1. m + 1 \in Nat /\ m <= m + 1 /\ m + 1 \in 1 .. m + 1 /\ m + 1 \notin DOMAIN view
  BY MapsAre
<1>2. view \in Maps(m + 1)
  BY <1>1, MapsLater
<1>3. But(view, {m + 1}) = view
  <2> DEFINE v == But(view, {m + 1})
  <2>1. v \in Maps(m) /\ DOMAIN v = DOMAIN view /\ \A k \in DOMAIN v : v[k] = view[k]
    BY <1>1, ButMap, ButAt
  <2> HIDE DEF v
  <2>2. v = view
    BY <2>1, MapsEqual
  <2> QED BY <2>2 DEF v
<1>4. Count(Over(Only(m + 1, one), view), id) = Count(But(view, {m + 1}), id) + IF one.id = id THEN one.n ELSE 0
  BY <1>1, <1>2, CountOnly
<1> QED BY <1>3, <1>4

\* One more page of a read.
LEMMA PageRead ==
    ASSUME NEW m, NEW view \in Maps(m), NEW at, NEW k \in DOMAIN view, k < at,
           \A j \in DOMAIN view : j < at => j <= k, at \in Nat, m \in Nat
    PROVE  Over(Only(k, view[k]), Restrict(view, {j \in DOMAIN view : j >= at}))
               = Restrict(view, {j \in DOMAIN view : j >= k})
<1> DEFINE v == Over(Only(k, view[k]), Restrict(view, {j \in DOMAIN view : j >= at}))
           w == Restrict(view, {j \in DOMAIN view : j >= k})
<1>0. \A j \in DOMAIN view : j \in Nat
  BY MapsAre
<1>1. \A j : j \in DOMAIN v <=> j \in DOMAIN view /\ (j = k \/ j >= at)
  BY DEF Over, Only, Restrict
<1>2. \A j : j \in DOMAIN w <=> j \in DOMAIN view /\ j >= k
  BY DEF Restrict
<1>3. \A j \in DOMAIN view : j = k \/ j >= at <=> j >= k
  BY <1>0
<1>4. DOMAIN v = DOMAIN w
  <2> HIDE DEF v, w
  <2> QED BY <1>1, <1>2, <1>3
<1>5. \A j \in DOMAIN v : v[j] = view[j]
  BY DEF Over, Only, Restrict
<1>6. \A j \in DOMAIN w : w[j] = view[j]
  BY DEF Restrict
<1>7. v = [j \in DOMAIN v |-> v[j]] /\ w = [j \in DOMAIN w |-> w[j]]
  BY DEF Over, Restrict
<1> HIDE DEF v, w
<1>8. v = w
  BY <1>4, <1>5, <1>6, <1>7
<1> QED BY <1>8 DEF v, w

\* A read that has turned its last page.
LEMMA AllRead ==
    ASSUME NEW m, NEW view \in Maps(m), NEW at, \A j \in DOMAIN view : ~(j < at), at \in Nat, m \in Nat
    PROVE  Restrict(view, {j \in DOMAIN view : j >= at}) = view
<1>1. \A j \in DOMAIN view : j \in Nat
  BY MapsAre
<1>2. {j \in DOMAIN view : j >= at} = DOMAIN view
  BY <1>1
<1>3. view = [j \in DOMAIN view |-> view[j]]
  BY MapsAre
<1> QED BY <1>2, <1>3 DEF Restrict

\* A read that has turned none.
LEMMA NoneRead ==
    ASSUME NEW m \in Nat, NEW view \in Maps(m), m <= Keys
    PROVE  Restrict(view, {j \in DOMAIN view : j >= Keys + 1}) = Nothing
<1>1. \A j \in DOMAIN view : j \in 1 .. m
  BY MapsAre
<1>2. {j \in DOMAIN view : j >= Keys + 1} = {}
  BY <1>1, BoundsAssumption
<1> QED BY <1>2 DEF Restrict, Nothing

-----------------------------------------------------------------------------
(* Parts, and where what they hold is to go.                               *)

\* Parts that nothing in a place awaits hold nothing of it.
LEMMA NoneAwaits ==
    ASSUME NEW some \in Listings, NEW place, ~Awaits(some, place), NEW id \in Ids, id.place = place
    PROVE  Waiting(some, id) = 0
<1>1. \A p \in DOMAIN some : some[p][id] = 0
  BY ListingsAre DEF Awaits, Entries
<1> QED BY <1>1, WaitingNone

\* Nothing waits in no part.
LEMMA NothingWaits == ASSUME NEW id \in Ids PROVE Waiting(Nothing, id) = 0
<1>1. Nothing \in Listings /\ DOMAIN Nothing = {}
  BY NothingListing DEF Nothing
<1> QED BY <1>1, WaitingNone

\* As many keys as records: each record gets a key of its own.
LEMMA KeysOfTheirOwn ==
    ASSUME NEW m \in Nat, NEW creates, IsFiniteSet(creates),
           NEW made \in [m + 1 .. m + Cardinality(creates) -> creates], Range(made) = creates
    PROVE  made \in Bijection(m + 1 .. m + Cardinality(creates), creates)
<1> DEFINE n == Cardinality(creates)  minting == m + 1 .. m + n
<1>1. n \in Nat
  BY FS_CardinalityType
<1>2. IsFiniteSet(minting) /\ Cardinality(minting) = n
  <2>1. m + 1 \in Int /\ m + n \in Int
    BY <1>1
  <2>2. IsFiniteSet(minting) /\ Cardinality(minting) = IF m + 1 > m + n THEN 0 ELSE (m + n) - (m + 1) + 1
    BY <2>1, FS_Interval
  <2> HIDE DEF minting
  <2> QED BY <1>1, <2>2
<1> HIDE DEF minting
<1>3. \A one \in creates : \E k \in minting : made[k] = one
  BY DEF Range, minting
<1>4. made \in Surjection(minting, creates)
  BY <1>3 DEF Surjection, minting
<1>5. made \in Injection(minting, creates)
  BY <1>2, <1>4, FS_SurjSameCardinalityImpliesInj
<1>6. made \in Bijection(minting, creates)
  BY <1>4, <1>5 DEF Bijection
<1> QED BY <1>6 DEF minting

\* One tab, and a step of it that does not go astray.
Alone(t) == Tabs = {t}
Tame(t) == Alone(t) /\ ~astray /\ ~astray'

Meets(view, listing) == \A id \in Ids : Count(view, id) + Waiting(listing, id) = wanted[id]

\* What a tab may be in the middle of.
Ready(t) ==
    /\ ~fresh[t] => press[t] = NoPress /\ out[t] = NotOut /\ since[t] = Nothing /\ later[t] = Nothing
    /\ fresh[t] => ready[t] /\ ~reading[t].on
    /\ ~open[t] => ~ready[t] /\ ~reading[t].on /\ ~listed[t]
Single(t) ==
    /\ aside[t] = NoPress
    /\ press[t] # NoPress => out[t] = NotOut
    /\ press[t].kind \notin {"edit", "unfile"} => press[t].writes = Nothing /\ press[t].drops = {}
    /\ out[t] # NotOut => listed[t] /\ out[t].said # "nothing"
\* What it has read so far is what the repository holds from there on.
Reads(t) == reading[t].on => reading[t].seen = Restrict(repo, {k \in DOMAIN repo : k >= reading[t].at})
\* The parts it has listed are the parts there are, but for a call that has landed.
Lists(t) ==
    listed[t] => parts = IF out[t].said = "landed" THEN Over(out[t].leaves, But(pending[t], out[t].takes))
                         ELSE pending[t]
Recalls(t) == Under(later[t], since[t])

Orderly(t) == Ready(t) /\ Single(t) /\ Reads(t) /\ Lists(t) /\ Recalls(t)

-----------------------------------------------------------------------------
\* What a tab is given is what it has.
LEMMA AtTab ==
    ASSUME Typed, NEW t \in Tabs, NEW v
    PROVE  /\ [open EXCEPT ![t] = v][t] = v /\ [reading EXCEPT ![t] = v][t] = v
           /\ [held EXCEPT ![t] = v][t] = v /\ [ready EXCEPT ![t] = v][t] = v
           /\ [fresh EXCEPT ![t] = v][t] = v /\ [since EXCEPT ![t] = v][t] = v
           /\ [pending EXCEPT ![t] = v][t] = v /\ [listed EXCEPT ![t] = v][t] = v
           /\ [later EXCEPT ![t] = v][t] = v
           /\ [press EXCEPT ![t] = v][t] = v /\ [out EXCEPT ![t] = v][t] = v
  BY DEF Typed, ViewTyped, ImportTyped, CallTyped

\* A tab that presses nothing has nothing to write.
LEMMA NoPressIs == NoPress.kind = "none" /\ NoPress.writes = Nothing /\ NoPress.drops = {}
  BY DEF NoPress
\* A tab with no call out has nothing to take.
LEMMA NotOutIs == NotOut.said = "nothing" /\ NotOut.leaves = Nothing /\ NotOut.takes = {} /\ ~NotOut.sheds
  BY DEF NotOut

\* A step that does not go astray meets nothing.
LEMMA MeetsNothing == ASSUME NEW met, Straying(met), ~astray' PROVE met = {}
  BY DEF Straying

\* A press that meets nothing is the only one of a tab that has read everything.
LEMMA AgainstNothing ==
    ASSUME NEW t, NEW keys, Against(t, keys) = {}
    PROVE  press[t] = NoPress /\ out[t] = NotOut /\ fresh[t] /\ keys \cap DOMAIN since[t] = {}
  BY DEF Against, When

\* What a press, a failed one, a drain and a listing do not meet.
LEMMA PressMeets ==
    ASSUME NEW t \in Tabs, ~astray', Amends(t) \/ Adds(t) \/ Unfiles(t) \/ Sheds(t)
    PROVE  press[t] = NoPress /\ out[t] = NotOut /\ fresh[t]
<1>1. \E keys, more : Straying(Against(t, keys) \cup more)
  <2>1. CASE Amends(t)
    <3>1. PICK keys : Straying(Against(t, keys))
      BY <2>1 DEF Amends
    <3>2. Against(t, keys) = Against(t, keys) \cup {}
      OBVIOUS
    <3> QED BY <3>1, <3>2
  <2>2. CASE Adds(t) \/ Sheds(t)
    <3>1. Straying(Against(t, {}))
      BY <2>2 DEF Adds, Sheds
    <3>2. Against(t, {}) = Against(t, {}) \cup {}
      OBVIOUS
    <3> QED BY <3>1, <3>2
  <2>3. CASE Unfiles(t)
    BY <2>3 DEF Unfiles
  <2> QED BY <2>1, <2>2, <2>3
<1>2. PICK keys, more : Straying(Against(t, keys) \cup more)
  BY <1>1
<1>3. Against(t, keys) = {}
  BY <1>2, MeetsNothing
<1> QED BY <1>3, AgainstNothing

LEMMA FailMeets ==
    ASSUME NEW t \in Tabs, ~astray', PressFails(t)
    PROVE  press[t].kind # "unfile" /\ ~(press[t].kind = "edit" /\ Merged(t))
<1>1. Straying(When("stuck", press[t].kind = "unfile")
                \cup When("untold", press[t].kind = "edit" /\ Merged(t)))
  BY DEF PressFails
<1>2. When("stuck", press[t].kind = "unfile") = {} /\ When("untold", press[t].kind = "edit" /\ Merged(t)) = {}
  BY <1>1, MeetsNothing
<1> QED BY <1>2 DEF When

LEMMA DrainMeets == ASSUME NEW t \in Tabs, ~astray', Drains(t) PROVE press[t] = NoPress
<1>1. When("together", press[t] # NoPress) = {}
  BY MeetsNothing DEF Drains
<1> QED BY <1>1 DEF When

LEMMA RelistMeets ==
    ASSUME NEW t \in Tabs, ~astray', Relists(t)
    PROVE  out[t].said \in {"out", "landed", "denied"} /\ (~out[t].sheds => out[t].said # "landed")
<1>1. When("lost", out[t].said = "landed" /\ ~out[t].sheds) = {}
  BY MeetsNothing DEF Relists
<1>2. out[t].said \in {"out", "landed", "denied"}
  BY DEF Relists
<1> QED BY <1>1, <1>2 DEF When

\* A tab starts in the middle of nothing.
LEMMA OrderlyInit == ASSUME NEW t \in Tabs, Init PROVE Orderly(t)
<1>1. Under(Nothing, Nothing)
  BY DEF Under, Nothing
<1> QED BY <1>1, NoPressIs, NotOutIs DEF Init, Orderly, Ready, Single, Reads, Lists, Recalls, Unread

-----------------------------------------------------------------------------
\* A tab that closes is in the middle of nothing either, whatever it was in before.
LEMMA ClosesAnew == ASSUME Typed, NEW t \in Tabs, Closes(t) PROVE Orderly(t)' /\ ~fresh'[t]
<1>1. /\ ~open'[t] /\ reading'[t] = Unread /\ ~ready'[t] /\ ~fresh'[t] /\ since'[t] = Nothing /\ ~listed'[t]
      /\ later'[t] = Nothing /\ press'[t] = NoPress /\ aside'[t] = NoPress /\ out'[t] = NotOut
  BY DEF Typed, ViewTyped, ImportTyped, CallTyped, Closes
<1>2. Under(Nothing, Nothing) /\ ~Unread.on
  BY DEF Under, Nothing, Unread
<1> QED BY <1>1, <1>2, NoPressIs, NotOutIs DEF Orderly, Ready, Single, Reads, Lists, Recalls

-----------------------------------------------------------------------------
(* Ready and Single: which of its states go together.                      *)

Placed(t) == Ready(t) /\ Single(t)

\* Opening, painting, reading, listing and closing keep Ready and Single.
LEMMA PlacedViewing ==
    ASSUME Typed, NEW t \in Tabs, Placed(t), Viewing(t)
    PROVE  Placed(t)'
<1>1. CASE Opens(t)
  BY <1>1 DEF Typed, ViewTyped, Placed, Ready, Single, Opens, repoVars, ownerVars, importVars, Unread
<1>2. CASE Paints(t)
  BY <1>2 DEF Typed, ViewTyped, Placed, Ready, Single, Paints, repoVars, ownerVars, importVars
<1>3. CASE ReadsPage(t)
  <2>1. reading'[t].on = reading[t].on
    <3> DEFINE k == Max(Unpaged(t))  page == [reading[t] EXCEPT !.at = k, !.seen = Over(Only(k, repo[k]), @)]
    <3>1. reading' = [reading EXCEPT ![t] = page]
      BY <1>3 DEF ReadsPage
    <3>2. page.on = reading[t].on
      BY DEF Typed, ViewTyped, Readings
    <3>3. reading'[t] = page
      <4> HIDE DEF page
      <4> QED BY <3>1, AtTab
    <3> QED BY <3>2, <3>3
  <2> QED BY <1>3, <2>1 DEF Placed, Ready, Single, ReadsPage, repoVars, ownerVars, importVars
<1>4. CASE ReadEnds(t)
  <2>1. ~reading'[t].on /\ fresh'[t] /\ ready'[t] /\ reading[t].on
    BY <1>4 DEF Typed, ViewTyped, ReadEnds, Unread
  <2> QED BY <1>4, <2>1 DEF Placed, Ready, Single, ReadEnds, repoVars, importVars
<1>5. CASE Remembers(t)
  BY <1>5 DEF Placed, Ready, Single, Remembers, repoVars, ownerVars, viewVars, importVars
<1>6. CASE Attaches(t)
  <2>1. listed'[t]
    BY <1>6 DEF Typed, ImportTyped, Attaches
  <2> QED BY <1>6, <2>1 DEF Placed, Ready, Single, Attaches, repoVars, ownerVars, viewVars
<1>7. CASE Closes(t)
  BY <1>7, ClosesAnew DEF Placed, Orderly
<1> QED BY <1>1, <1>2, <1>3, <1>4, <1>5, <1>6, <1>7 DEF Viewing

\* So does every step of a press.
LEMMA PlacedPressing ==
    ASSUME Typed, NEW t \in Tabs, Tame(t), Placed(t), Pressing(t)
    PROVE  Placed(t)'
<1> USE DEF Placed, Ready, Single
<1>0. ~astray'
  BY DEF Tame
<1>1. CASE Amends(t)
  <2>1. fresh[t] /\ out[t] = NotOut /\ press[t] = NoPress
    BY <1>0, <1>1, PressMeets
  <2>2. press'[t].kind = "edit" /\ aside'[t] = press[t]
    BY <1>1 DEF Typed, CallTyped, Amends, Begin, NoPress
  <2> QED BY <1>1, <2>1, <2>2 DEF Amends, repoVars, viewVars, importVars
<1>2. CASE Adds(t)
  <2>1. fresh[t] /\ out[t] = NotOut /\ press[t] = NoPress
    BY <1>0, <1>2, PressMeets
  <2>2. press'[t].writes = Nothing /\ press'[t].drops = {} /\ aside'[t] = press[t]
    BY <1>2 DEF Typed, CallTyped, Adds, Begin, NoPress
  <2> QED BY <1>2, <2>1, <2>2 DEF Adds, repoVars, viewVars, importVars
<1>3. CASE Unfiles(t)
  <2>1. fresh[t] /\ out[t] = NotOut /\ press[t] = NoPress
    BY <1>0, <1>3, PressMeets
  <2>2. press'[t].kind \notin {"edit", "unfile"} => press'[t].writes = Nothing /\ press'[t].drops = {}
    <3>1. PICK change : press' = [press EXCEPT ![t] = [NoPress EXCEPT
                       !.kind = IF change = NoChange(held[t]) THEN "drop" ELSE "unfile",
                       !.writes = change.writes, !.drops = change.drops,
                       !.view = change.view, !.place = press'[t].place]]
      <4>1. PICK place : \E change \in Emptied(held[t], place) : press' = [press EXCEPT ![t] = [NoPress EXCEPT
                       !.kind = IF change = NoChange(held[t]) THEN "drop" ELSE "unfile",
                       !.writes = change.writes, !.drops = change.drops,
                       !.view = change.view, !.place = place]]
        BY <1>3 DEF Unfiles, Begin
      <4>2. press'[t].place = place
        BY <4>1 DEF Typed, CallTyped, NoPress
      <4> QED BY <4>1, <4>2
    <3>2. /\ press'[t].kind = IF change = NoChange(held[t]) THEN "drop" ELSE "unfile"
          /\ press'[t].writes = change.writes /\ press'[t].drops = change.drops
      BY <3>1 DEF Typed, CallTyped, NoPress
    <3> QED BY <3>2 DEF NoChange
  <2>3. aside'[t] = press[t]
    BY <1>3 DEF Typed, CallTyped, Unfiles, Begin
  <2> QED BY <1>3, <2>1, <2>2, <2>3 DEF Unfiles, repoVars, viewVars, importVars
<1>4. CASE Makes(t)
  <2>1. press'[t].writes = Nothing /\ press'[t].drops = {} /\ press[t] # NoPress
    BY <1>4, NoPressIs DEF Typed, CallTyped, Makes, NoPress
  <2> QED BY <1>4, <2>1 DEF Makes, viewVars, importVars
<1>5. CASE Puts(t)
  <2>1. press[t].writes # Nothing /\ press'[t].kind = press[t].kind
    BY <1>5 DEF Typed, CallTyped, Puts, Nothing
  <2>2. press[t] # NoPress
    BY <2>1, NoPressIs
  <2> QED BY <1>5, <2>1, <2>2 DEF Puts, viewVars, importVars
<1>6. CASE Removes(t)
  <2>1. press[t].drops # {} /\ press'[t].kind = press[t].kind
    BY <1>6 DEF Typed, CallTyped, Removes
  <2>2. press[t] # NoPress
    BY <2>1, NoPressIs
  <2> QED BY <1>6, <2>1, <2>2 DEF Removes, viewVars, importVars
<1>7. CASE PressEnds(t)
  <2>1. press[t] # NoPress
    BY <1>7, NoPressIs DEF PressEnds
  <2>2. press'[t].writes = Nothing /\ press'[t].drops = {}
    BY <1>7 DEF Typed, CallTyped, PressEnds, NoPress
  <2> QED BY <1>7, <2>1, <2>2 DEF PressEnds, importVars
<1>8. CASE AddEnds(t)
  <2>1. press[t] # NoPress
    BY <1>8, NoPressIs DEF AddEnds
  <2>2. press'[t] = NoPress
    BY <1>8 DEF Typed, CallTyped, AddEnds, Done
  <2> QED BY <1>8, <2>1, <2>2, NoPressIs DEF AddEnds, importVars
<1>9. CASE PressFails(t)
  <2>1. press[t] # NoPress
    BY <1>9, NoPressIs DEF PressFails
  <2>2. press'[t].writes = Nothing /\ press'[t].drops = {}
    BY <1>9 DEF Typed, CallTyped, PressFails, NoPress
  <2> QED BY <1>9, <2>1, <2>2 DEF PressFails, viewVars, importVars
<1>10. CASE DropsPlace(t)
  <2>1. press[t] # NoPress
    BY <1>10, NoPressIs DEF DropsPlace
  <2>2. press'[t] = NoPress
    BY <1>10 DEF Typed, CallTyped, DropsPlace, Done
  <2> QED BY <1>10, <2>1, <2>2, NoPressIs DEF DropsPlace, viewVars, importVars
<1>11. CASE Turns(t)
  BY <1>11 DEF Turns
<1> QED BY <1>1, <1>2, <1>3, <1>4, <1>5, <1>6, <1>7, <1>8, <1>9, <1>10, <1>11 DEF Pressing

\* So does every step of the importer.
LEMMA PlacedImporting ==
    ASSUME Typed, NEW t \in Tabs, Tame(t), Placed(t), Importing(t)
    PROVE  Placed(t)'
<1> USE DEF Placed, Ready, Single
<1>0. ~astray'
  BY DEF Tame
<1>1. CASE Imports(t)
  <2>1. later'[t] = Nothing
    BY <1>1 DEF Typed, ImportTyped, Imports
  <2> QED BY <1>1, <2>1 DEF Imports, viewVars
<1>2. CASE Drains(t)
  <2>1. press[t] = NoPress /\ fresh[t] /\ listed[t]
    BY <1>0, <1>2, DrainMeets DEF Drains
  <2>2. out'[t].said = "out"
    BY <1>2 DEF Typed, CallTyped, Drains, NotOut
  <2> QED BY <1>2, <2>1, <2>2 DEF Drains, repoVars, ownerVars, viewVars, importVars
<1>3. CASE Sheds(t)
  <2>1. press[t] = NoPress /\ fresh[t] /\ listed[t]
    BY <1>0, <1>3, PressMeets DEF Sheds
  <2>2. out'[t].said = "out"
    BY <1>3 DEF Typed, CallTyped, Sheds, NotOut
  <2> QED BY <1>3, <2>1, <2>2 DEF Sheds, repoVars, viewVars
<1>4. CASE Lands(t)
  <2>1. out[t] # NotOut /\ out'[t].said = "landed"
    BY <1>4, NotOutIs DEF Typed, CallTyped, Lands
  <2> QED BY <1>4, <2>1 DEF Lands, viewVars, importVars
<1>5. CASE Denies(t)
  <2>1. out[t] # NotOut /\ out'[t].said = "denied"
    BY <1>5, NotOutIs DEF Typed, CallTyped, Denies
  <2> QED BY <1>5, <2>1 DEF Denies, viewVars, importVars
<1>6. CASE Hears(t)
  <2>1. out[t] # NotOut /\ out'[t] = NotOut
    BY <1>6, NotOutIs DEF Typed, CallTyped, Hears
  <2> QED BY <1>6, <2>1 DEF Hears, ownerVars
<1>7. CASE Relists(t)
  <2>1. out[t] # NotOut /\ out'[t] = NotOut
    BY <1>7, NotOutIs DEF Typed, CallTyped, Relists
  <2> QED BY <1>7, <2>1 DEF Relists, viewVars
<1> QED BY <1>1, <1>2, <1>3, <1>4, <1>5, <1>6, <1>7 DEF Importing

\* What a tab has read of the repository stays what the repository holds: nothing
\* is written before the last page is turned.
LEMMA ReadsViewing ==
    ASSUME Typed, NEW t \in Tabs, Orderly(t), Viewing(t)
    PROVE  Reads(t)'
<1>0. /\ minted \in Nat /\ minted <= Keys /\ Keys \in Nat
      /\ repo \in Maps(minted) /\ reading[t] \in Readings(minted)
  BY TypedTab DEF Typed, RepoTyped
<1>1. CASE Opens(t)
  <2>1. reading'[t].seen = Nothing /\ reading'[t].at = Keys + 1 /\ repo' = repo
    BY <1>1 DEF Typed, ViewTyped, Opens, Unread, repoVars
  <2>2. Restrict(repo, {j \in DOMAIN repo : j >= Keys + 1}) = Nothing
    BY <1>0, NoneRead
  <2> QED BY <2>1, <2>2 DEF Reads
<1>2. CASE Paints(t) \/ Remembers(t) \/ Attaches(t)
  BY <1>2 DEF Paints, Remembers, Attaches, Orderly, Reads, repoVars, viewVars
<1>3. CASE ReadsPage(t)
  <2> DEFINE k == Max(Unpaged(t))
             page == [reading[t] EXCEPT !.at = k, !.seen = Over(Only(k, repo[k]), @)]
  <2>1. reading' = [reading EXCEPT ![t] = page] /\ repo' = repo /\ reading[t].on /\ Unpaged(t) # {}
    BY <1>3 DEF ReadsPage, repoVars
  <2>2. page.at = k /\ page.seen = Over(Only(k, repo[k]), reading[t].seen)
    BY <1>0 DEF Readings
  <2>3. k \in Unpaged(t) /\ \A j \in Unpaged(t) : j <= k
    <3>1. Unpaged(t) \in SUBSET (1 .. minted)
      BY <1>0, MapsAre DEF Unpaged
    <3>2. k \in Unpaged(t) /\ \A j \in Unpaged(t) : k >= j
      BY <1>0, <2>1, <3>1, Greatest
    <3>3. \A j \in Unpaged(t) : j \in Nat
      BY <1>0, <3>1
    <3> HIDE DEF k
    <3> QED BY <3>2, <3>3
  <2> HIDE DEF k
  <2>4. reading'[t] = page
    <3> HIDE DEF page
    <3> QED BY <2>1, AtTab
  <2>5. reading[t].seen = Restrict(repo, {j \in DOMAIN repo : j >= reading[t].at})
    BY <2>1 DEF Orderly, Reads
  <2>6. /\ k \in DOMAIN repo /\ k < reading[t].at /\ reading[t].at \in Nat
        /\ \A j \in DOMAIN repo : j < reading[t].at => j <= k
    BY <1>0, <2>3 DEF Unpaged, Readings
  <2>7. Over(Only(k, repo[k]), Restrict(repo, {j \in DOMAIN repo : j >= reading[t].at}))
            = Restrict(repo, {j \in DOMAIN repo : j >= k})
    BY <1>0, <2>6, PageRead
  <2> QED BY <2>1, <2>2, <2>4, <2>5, <2>7 DEF Reads
<1>4. CASE ReadEnds(t) \/ Closes(t)
  <2>1. ~reading'[t].on
    BY <1>4 DEF Typed, ViewTyped, ReadEnds, Closes, Unread
  <2> QED BY <2>1 DEF Reads
<1> QED BY <1>1, <1>2, <1>3, <1>4 DEF Viewing

\* And it writes nothing while it reads.
LEMMA ReadsWriting ==
    ASSUME Typed, NEW t \in Tabs, Orderly(t), Pressing(t) \/ Importing(t)
    PROVE  Reads(t)'
<1>1. reading' = reading
  BY DEF Pressing, Turns, Amends, Adds, Unfiles, Makes, Puts, Removes, PressEnds, AddEnds, PressFails, DropsPlace,
         Importing, Imports, Drains, Sheds, Lands, Denies, Hears, Relists, viewVars
<1>2. ASSUME ~fresh[t] PROVE repo' = repo
  <2>1. press[t] = NoPress /\ out[t] = NotOut
    BY <1>2 DEF Orderly, Ready
  <2>2. /\ press[t].kind # "add" /\ DOMAIN press[t].writes = {} /\ press[t].drops = {} /\ out[t].said # "out"
    BY <2>1, NoPressIs, NotOutIs DEF Nothing
  <2> QED BY <2>2 DEF Pressing, Turns, Amends, Adds, Unfiles, Makes, Puts, Removes, PressEnds, AddEnds, PressFails,
                      DropsPlace, Importing, Imports, Drains, Sheds, Lands, Denies, Hears, Relists, repoVars
<1>3. CASE ~fresh[t]
  BY <1>1, <1>2, <1>3 DEF Orderly, Reads
<1>4. CASE fresh[t]
  BY <1>1, <1>4 DEF Orderly, Ready, Reads
<1> QED BY <1>3, <1>4

-----------------------------------------------------------------------------
\* A tab lists the parts there are.
LEMMA ListsViewing ==
    ASSUME Typed, NEW t \in Tabs, Orderly(t), Viewing(t)
    PROVE  Lists(t)'
<1>1. CASE Opens(t) \/ Paints(t) \/ ReadsPage(t) \/ ReadEnds(t) \/ Remembers(t)
  BY <1>1 DEF Opens, Paints, ReadsPage, ReadEnds, Remembers, Orderly, Lists, repoVars, importVars
<1>2. CASE Attaches(t)
  <2>1. pending'[t] = parts
    BY <1>2 DEF Attaches, Typed, ImportTyped
  <2>2. out[t] = NotOut /\ parts' = parts /\ out' = out
    BY <1>2 DEF Attaches, Orderly, Single, repoVars
  <2> QED BY <2>1, <2>2, NotOutIs DEF Orderly, Lists
<1>3. CASE Closes(t)
  BY <1>3, ClosesAnew DEF Orderly
<1> QED BY <1>1, <1>2, <1>3 DEF Viewing

\* A press touches no part.
LEMMA ListsPressing == ASSUME NEW t \in Tabs, Orderly(t), Pressing(t) PROVE Lists(t)'
<1>1. parts' = parts /\ out' = out /\ pending' = pending /\ listed' = listed
  BY DEF Pressing, Turns, Amends, Adds, Unfiles, Makes, Puts, Removes, PressEnds, AddEnds, PressFails,
         DropsPlace, repoVars, importVars
<1> QED BY <1>1 DEF Orderly, Lists

\* Drains and sheds take from the list what they took from the repository, once
\* they are heard.
LEMMA ListsImporting ==
    ASSUME Typed, NEW t \in Tabs, Orderly(t), Importing(t)
    PROVE  Lists(t)'
<1>0. out[t] \in CallsOf(minted)
  BY TypedTab
<1>1. CASE Imports(t)
  <2>1. pending'[t] = parts' /\ out'[t] = NotOut
    BY <1>1, AtTab DEF Imports
  <2> QED BY <2>1, NotOutIs DEF Lists
<1>2. CASE Drains(t)
  <2>1. out'[t].said = "out"
    BY <1>2 DEF Drains, Typed, CallTyped, NotOut
  <2>2. out[t] = NotOut /\ parts' = parts /\ pending' = pending /\ listed' = listed
    BY <1>2 DEF Drains, LockFree, repoVars, importVars
  <2> QED BY <1>0, <2>1, <2>2, NotOutIs DEF Orderly, Lists
<1>3. CASE Sheds(t)
  <2>1. out'[t].said = "out"
    BY <1>3 DEF Sheds, Typed, CallTyped, NotOut
  <2>2. parts' = parts /\ pending'[t] = parts
    BY <1>3, AtTab DEF Sheds, repoVars
  <2> QED BY <2>1, <2>2 DEF Lists
<1>4. CASE Lands(t)
  <2>1. /\ out'[t].said = "landed" /\ out'[t].leaves = out[t].leaves /\ out'[t].takes = out[t].takes
    <3>1. PICK made : out' = [out EXCEPT ![t].said = "landed", ![t].wrote = Over(out[t].updates, made)]
      BY <1>4 DEF Lands
    <3> DEFINE call == [out[t] EXCEPT !.said = "landed", !.wrote = Over(out[t].updates, made)]
    <3>2. out' = [out EXCEPT ![t] = call]
      BY <3>1
    <3>3. call.said = "landed" /\ call.leaves = out[t].leaves /\ call.takes = out[t].takes
      BY <1>0 DEF CallsOf
    <3>4. out'[t] = call
      <4> HIDE DEF call
      <4> QED BY <3>2, AtTab
    <3> QED BY <3>3, <3>4
  <2>2. /\ parts' = Over(out[t].leaves, But(parts, out[t].takes)) /\ pending' = pending /\ listed' = listed
        /\ out[t].said = "out"
    BY <1>4 DEF Lands, Taken, importVars
  <2> QED BY <2>1, <2>2 DEF Orderly, Lists
<1>5. CASE Denies(t)
  <2>1. out'[t].said = "denied" /\ out'[t].leaves = out[t].leaves
    BY <1>5 DEF Denies, Typed, CallTyped, CallsOf
  <2>2. out[t].said = "out" /\ parts' = parts /\ pending' = pending /\ listed' = listed
    BY <1>5 DEF Denies, repoVars, importVars
  <2> QED BY <1>0, <2>1, <2>2 DEF Orderly, Lists
<1>6. CASE Hears(t)
  <2>1. out'[t] = NotOut /\ pending'[t] = Over(out[t].leaves, But(pending[t], out[t].takes))
    BY <1>6, AtTab DEF Hears
  <2>2. out[t].said = "landed" /\ parts' = parts /\ listed' = listed
    BY <1>6 DEF Hears, repoVars
  <2> QED BY <1>0, <2>1, <2>2, NotOutIs DEF Orderly, Lists
<1>7. CASE Relists(t)
  <2>1. out'[t] = NotOut /\ pending'[t] = parts /\ parts' = parts
    BY <1>7, AtTab DEF Relists, repoVars
  <2> QED BY <1>0, <2>1, NotOutIs DEF Lists
<1> QED BY <1>1, <1>2, <1>3, <1>4, <1>5, <1>6, <1>7 DEF Importing

-----------------------------------------------------------------------------
\* The records a tab remembers a drain wrote are among those it lays over a
\* read.
LEMMA RecallsNext ==
    ASSUME Typed, NEW t \in Tabs, Orderly(t), Viewing(t) \/ Pressing(t) \/ Importing(t)
    PROVE  Recalls(t)'
<1>0. Under(Nothing, Nothing) /\ \A view : Under(Nothing, view)
  BY DEF Under, Nothing
<1>1. CASE Viewing(t)
  <2>1. CASE Opens(t) \/ Paints(t) \/ ReadsPage(t) \/ Remembers(t) \/ Attaches(t)
    BY <2>1 DEF Opens, Paints, ReadsPage, Remembers, Attaches, Orderly, Recalls, importVars, viewVars
  <2>2. CASE ReadEnds(t)
    <3>1. later[t] = Nothing
      BY <2>2 DEF ReadEnds, Orderly, Ready
    <3> QED BY <1>0, <2>2, <3>1 DEF ReadEnds, Recalls, importVars
  <2>3. CASE Closes(t)
    BY <2>3, ClosesAnew DEF Orderly
  <2> QED BY <1>1, <2>1, <2>2, <2>3 DEF Viewing
<1>2. CASE Pressing(t)
  BY <1>2 DEF Pressing, Turns, Amends, Adds, Unfiles, Makes, Puts, Removes, PressEnds, AddEnds, PressFails,
         DropsPlace, Orderly, Recalls, viewVars, importVars
<1>3. CASE Importing(t)
  <2>1. CASE Imports(t)
    <3>1. later'[t] = Nothing
      BY <2>1 DEF Typed, ImportTyped, Imports
    <3> QED BY <1>0, <3>1 DEF Recalls
  <2>2. CASE Hears(t)
    <3>1. later'[t] = Over(out[t].wrote, later[t]) /\ since'[t] = Over(out[t].wrote, since[t])
      BY <2>2, AtTab DEF Hears
    <3> QED BY <3>1, UnderOver DEF Orderly, Recalls
  <2>3. CASE Drains(t) \/ Sheds(t) \/ Lands(t) \/ Denies(t) \/ Relists(t)
    BY <2>3 DEF Drains, Sheds, Lands, Denies, Relists, Orderly, Recalls, viewVars, importVars
  <2> QED BY <1>3, <2>1, <2>2, <2>3 DEF Importing
<1> QED BY <1>1, <1>2, <1>3

\* Every step of a tab alone that does not go astray is orderly.
LEMMA OrderlyNext ==
    ASSUME Typed, NEW t \in Tabs, Tame(t), Orderly(t), Viewing(t) \/ Pressing(t) \/ Importing(t)
    PROVE  Orderly(t)'
<1>1. Placed(t)
  BY DEF Orderly, Placed
<1>2. Placed(t)'
  BY <1>1, PlacedViewing, PlacedPressing, PlacedImporting
<1>3. Reads(t)' /\ Lists(t)' /\ Recalls(t)'
  BY ReadsViewing, ReadsWriting, ListsViewing, ListsPressing, ListsImporting, RecallsNext
<1> QED BY <1>2, <1>3 DEF Orderly, Placed

Resting(t) == press[t] = NoPress /\ out[t] = NotOut /\ held[t] = repo /\ Meets(repo, parts)
Adding(t) ==
    /\ press[t].kind = "add" /\ out[t] = NotOut /\ held[t] = repo
    /\ \E one \in press[t].makes :
          /\ press[t].makes = {one} /\ one.n = 1
          /\ \A id \in Ids : Count(repo, id) + Waiting(parts, id) + (IF id = one.id THEN 1 ELSE 0) = wanted[id]
Added(t) ==
    /\ press[t].kind = "made" /\ out[t] = NotOut
    /\ repo = Over(press[t].view, held[t]) /\ Under(since[t], repo) /\ Meets(repo, parts)
Amending(t) ==
    /\ press[t].kind \in {"edit", "unfile"} /\ out[t] = NotOut
    /\ press[t].view = But(Over(press[t].writes, repo), press[t].drops)
    /\ Under(since[t], press[t].view) /\ Meets(press[t].view, parts)
Dropping(t) == press[t].kind = "drop" /\ out[t] = NotOut /\ held[t] = repo /\ Meets(repo, parts)
Draining(t) ==
    /\ out[t].said = "out" /\ ~out[t].sheds /\ press[t] = NoPress /\ held[t] = repo /\ Meets(repo, parts)
    /\ out[t].leaves = Nothing
    /\ \E p \in DOMAIN parts : out[t].takes = {p} /\ Fills(out[t].updates, out[t].creates, parts[p], repo)
Shedding(t) ==
    /\ out[t].said = "out" /\ out[t].sheds /\ press[t] = NoPress /\ held[t] = repo
    /\ out[t].updates = Nothing /\ out[t].creates = {} /\ Meets(repo, Taken(out[t]))
Landed(t) ==
    /\ out[t].said = "landed" /\ press[t] = NoPress
    /\ repo = Over(out[t].wrote, held[t]) /\ Meets(repo, parts)
    /\ ~out[t].sheds => Meets(held[t], pending[t])
Denied(t) ==
    /\ out[t].said = "denied" /\ press[t] = NoPress /\ held[t] = repo
    /\ ~out[t].sheds => Meets(repo, parts)

Sound(t) == /\ Under(since[t], held[t])
            /\ \/ Resting(t) \/ Adding(t) \/ Added(t) \/ Amending(t) \/ Dropping(t)
               \/ Draining(t) \/ Shedding(t) \/ Landed(t) \/ Denied(t)
Accounted(t) == sure => IF fresh[t] THEN Sound(t) ELSE Meets(repo, parts)

\* Which of the moments a tab is in.
LEMMA WhichSound ==
    ASSUME NEW t, Sound(t)
    PROVE  /\ press[t] = NoPress /\ out[t] = NotOut => Resting(t)
           /\ press[t].kind = "add" => Adding(t)
           /\ press[t].kind = "made" => Added(t)
           /\ press[t].kind \in {"edit", "unfile"} => Amending(t)
           /\ press[t].kind = "drop" => Dropping(t)
           /\ out[t].said = "out" => Draining(t) \/ Shedding(t)
           /\ out[t].said = "landed" => Landed(t)
           /\ out[t].said = "denied" => Denied(t)
  BY NoPressIs, NotOutIs DEF Sound, Resting, Adding, Added, Amending, Dropping, Draining, Shedding, Landed, Denied

\* A step that touches nothing it speaks of keeps Sound.
LEMMA SoundSame ==
    ASSUME NEW t, Sound(t), press'[t] = press[t], out'[t] = out[t], held'[t] = held[t], since'[t] = since[t],
           pending'[t] = pending[t], repo' = repo, parts' = parts, wanted' = wanted
    PROVE  Sound(t)'
<1>2. CASE Resting(t)
  BY <1>2 DEF Sound, Resting, Meets
<1>3. CASE Adding(t)
  BY <1>3 DEF Sound, Adding, Meets
<1>4. CASE Added(t)
  BY <1>4 DEF Sound, Added, Meets
<1>5. CASE Amending(t)
  BY <1>5 DEF Sound, Amending, Meets
<1>6. CASE Dropping(t)
  BY <1>6 DEF Sound, Dropping, Meets
<1>7. CASE Draining(t)
  BY <1>7 DEF Sound, Draining, Meets
<1>8. CASE Shedding(t)
  BY <1>8 DEF Sound, Shedding, Meets, Taken
<1>9. CASE Landed(t)
  BY <1>9 DEF Sound, Landed, Meets
<1>10. CASE Denied(t)
  BY <1>10 DEF Sound, Denied, Meets
<1> QED BY <1>2, <1>3, <1>4, <1>5, <1>6, <1>7, <1>8, <1>9, <1>10 DEF Sound

\* Nor Accounted.
LEMMA AccountedSame ==
    ASSUME NEW t, Accounted(t), press'[t] = press[t], out'[t] = out[t], held'[t] = held[t], since'[t] = since[t],
           pending'[t] = pending[t], repo' = repo, parts' = parts,
           wanted' = wanted, sure' = sure, fresh'[t] = fresh[t]
    PROVE  Accounted(t)'
<1>1. CASE fresh[t]
  BY <1>1, SoundSame DEF Accounted
<1>2. CASE ~fresh[t]
  BY <1>2 DEF Accounted, Meets
<1> QED BY <1>1, <1>2

\* A tab that has not read the collection changes nothing the account is of.
LEMMA AccountedUnread ==
    ASSUME NEW t, Accounted(t), ~fresh[t], ~fresh'[t], repo' = repo, parts' = parts, wanted' = wanted, sure' = sure
    PROVE  Accounted(t)'
  BY DEF Accounted, Meets

\* The account is kept as a tab opens, reads, lists and closes.
LEMMA AccountedViewing ==
    ASSUME Typed, NEW t \in Tabs, Tame(t), Orderly(t), Accounted(t), Viewing(t)
    PROVE  Accounted(t)'
<1>1. CASE Opens(t) \/ Paints(t)
  <2>1. ~fresh[t] /\ fresh' = fresh
    BY <1>1 DEF Opens, Paints, Orderly, Ready
  <2> QED BY <1>1, <2>1, AccountedUnread DEF Opens, Paints, repoVars, ownerVars
<1>2. CASE ReadsPage(t) \/ Remembers(t)
  BY <1>2, AccountedSame DEF ReadsPage, Remembers, repoVars, ownerVars, viewVars, importVars
<1>3. CASE Attaches(t)
  <2>1. out[t] = NotOut /\ out[t].said # "landed"
    BY <1>3, NotOutIs DEF Attaches, Orderly, Single
  <2>2. /\ press' = press /\ out' = out /\ held' = held /\ since' = since /\ repo' = repo /\ parts' = parts
        /\ wanted' = wanted /\ sure' = sure /\ fresh' = fresh
    BY <1>3 DEF Attaches, repoVars, ownerVars, viewVars
  <2>3. CASE ~fresh[t]
    BY <2>2, <2>3, AccountedUnread
  <2>4. CASE fresh[t]
    <3>1. ASSUME sure PROVE Sound(t)'
      <4>1. Sound(t)
        BY <2>4, <3>1 DEF Accounted
      <4>2. CASE Resting(t)
        BY <2>2, <4>1, <4>2 DEF Sound, Resting, Meets
      <4>3. CASE Adding(t)
        BY <2>2, <4>1, <4>3 DEF Sound, Adding, Meets
      <4>4. CASE Added(t)
        BY <2>2, <4>1, <4>4 DEF Sound, Added, Meets
      <4>5. CASE Amending(t)
        BY <2>2, <4>1, <4>5 DEF Sound, Amending, Meets
      <4>6. CASE Dropping(t)
        BY <2>2, <4>1, <4>6 DEF Sound, Dropping, Meets
      <4> QED BY <2>1, <4>1, <4>2, <4>3, <4>4, <4>5, <4>6, NotOutIs
              DEF Sound, Draining, Shedding, Landed, Denied
    <3> QED BY <2>2, <2>4, <3>1 DEF Accounted
  <2> QED BY <2>3, <2>4
<1>4. CASE ReadEnds(t)
  <2>1. /\ ~fresh[t] /\ press[t] = NoPress /\ out[t] = NotOut /\ since[t] = Nothing
        /\ reading[t].seen = Restrict(repo, {k \in DOMAIN repo : k >= reading[t].at})
    BY <1>4 DEF ReadEnds, Orderly, Ready, Reads
  <2>2. /\ minted \in Nat /\ repo \in Maps(minted) /\ reading[t].at \in Nat
    BY TypedTab DEF Typed, RepoTyped, Readings
  <2>3. \A k \in DOMAIN repo : ~(k < reading[t].at)
    BY <1>4 DEF ReadEnds, Unpaged
  <2>4. reading[t].seen = repo
    BY <2>1, <2>2, <2>3, AllRead
  <2>5. held'[t] = repo /\ since'[t] = Nothing /\ fresh'[t]
    <3>1. held'[t] = Over(since[t], reading[t].seen)
      BY <1>4, AtTab DEF ReadEnds, Fold
    <3>2. Over(Nothing, repo) = repo
      BY <2>2, OverNothing
    <3>3. since'[t] = Nothing
      BY <1>4, AtTab DEF ReadEnds
    <3>4. fresh'[t]
      BY <1>4 DEF ReadEnds, Typed, ViewTyped
    <3> QED BY <2>1, <2>4, <3>1, <3>2, <3>3, <3>4
  <2>6. press' = press /\ out' = out /\ repo' = repo /\ parts' = parts
    BY <1>4 DEF ReadEnds, repoVars
  <2>7. Quiet
    BY <2>1 DEF Quiet, Tame, Alone, Orderly, Single
  <2>8. Meets(repo, parts)'
    <3>1. CASE sure
      <4>1. Meets(repo, parts) /\ wanted' = wanted
        BY <1>4, <2>1, <3>1 DEF Accounted, ReadEnds, Learns
      <4> QED BY <2>6, <4>1 DEF Meets
    <3>2. CASE ~sure
      <4>1. wanted' = [id \in Ids |-> InRepo(id)]
        BY <1>4, <2>7, <3>2 DEF ReadEnds, Learns
      <4> QED BY <2>6, <4>1 DEF Meets, InRepo
    <3> QED BY <3>1, <3>2
  <2>9. Under(Nothing, repo)
    BY DEF Under, Nothing
  <2>10. Sound(t)'
    BY <2>1, <2>5, <2>6, <2>8, <2>9 DEF Sound, Resting
  <2> QED BY <2>5, <2>10 DEF Accounted
<1>5. CASE Closes(t)
  <2>1. /\ ~fresh'[t] /\ repo' = repo /\ parts' = parts /\ wanted' = wanted
        /\ sure' => sure /\ press[t] = NoPress /\ ~out[t].sheds
    BY <1>5, AtTab DEF Closes, Idle, repoVars
  <2>2. ASSUME sure, press[t] = NoPress, ~out[t].sheds PROVE Meets(repo, parts)
    <3>1. CASE ~fresh[t]
      BY <2>2, <3>1 DEF Accounted
    <3>2. CASE fresh[t]
      BY <2>2, <3>2, NoPressIs DEF Accounted, Sound, Resting, Adding, Added, Amending, Dropping,
                                   Draining, Shedding, Landed, Denied
    <3> QED BY <3>1, <3>2
  <2> QED BY <2>1, <2>2 DEF Accounted, Meets
<1> QED BY <1>1, <1>2, <1>3, <1>4, <1>5 DEF Viewing

\* The types the account is drawn up with.
LEMMA HeldMaps ==
    ASSUME Typed, NEW t \in Tabs
    PROVE  /\ minted \in Nat /\ repo \in Maps(minted) /\ parts \in Listings /\ wanted \in Entries
           /\ \A id \in Ids : Count(repo, id) \in Nat /\ Waiting(parts, id) \in Nat /\ wanted[id] \in Nat
<1>1. minted \in Nat /\ repo \in Maps(minted) /\ parts \in Listings /\ wanted \in Entries
  BY TypedTab DEF Typed, RepoTyped, OwnerTyped
<1>2. \A id \in Ids : Count(repo, id) \in Nat /\ Waiting(parts, id) \in Nat /\ wanted[id] \in Nat
  BY <1>1, CountSum, WaitingType DEF Entries
<1> QED BY <1>1, <1>2

\* What an edit asks for is what comes of it: as many copies fewer of what the
\* stack was as there are more of what it is.
LEMMA EditAsked ==
    ASSUME Typed, NEW t \in Tabs, NEW k \in DOMAIN repo, NEW next \in Edits(repo[k]), next \in Stacked,
           NEW after \in Maps(minted),
           \A id : Gains(after, repo, id, repo[k], next),
           Meets(repo, parts),
           IF next.id # repo[k].id THEN Asks({next.id}, {repo[k].id}, repo[k].n)
           ELSE IF next.n > repo[k].n THEN Asks({repo[k].id}, {}, 1)
           ELSE Asks({}, {repo[k].id}, repo[k].n - next.n)
    PROVE  \A id \in Ids : Count(after, id) + Waiting(parts, id) = wanted'[id]
<1> DEFINE one == repo[k]
<1>1. one \in Owned /\ one.id \in Ids /\ one.n \in Nat \ {0} /\ next.id \in Ids /\ next.n \in Nat
  BY HeldMaps, MapsAre, OwnedOnes, StackedOnes
<1>2. next.id # one.id => next.n = one.n
  BY <1>1 DEF Edits, Owned
<1>3. next.id = one.id => next.n <= one.n \/ next.n = one.n + 1
  BY <1>1 DEF Edits, Owned
<1>4. one.n <= Count(repo, one.id)
  BY HeldMaps, CountLeast
<1> TAKE id \in Ids
<1>5. Gains(after, repo, id, one, next)
  OBVIOUS
<1> HIDE DEF one
<1> DEFINE c == Count(repo, id)  a == Count(after, id)  w == Waiting(parts, id)
<1>6. c \in Nat /\ a \in Nat /\ w \in Nat /\ wanted[id] \in Nat /\ c + w = wanted[id]
  <2>1. a \in Nat
    BY HeldMaps, CountSum
  <2> QED BY <2>1, HeldMaps DEF Meets
<1>7. one.id = id => one.n <= c
  BY <1>4
<1>8. a + (IF one.id = id THEN one.n ELSE 0) = c + (IF next.id = id THEN next.n ELSE 0)
  BY <1>5 DEF Gains
<1> HIDE DEF c, a, w
<1>9. CASE next.id # one.id
  <2>1. Asks({next.id}, {one.id}, one.n)
    BY <1>9 DEF one
  <2>2. wanted'[id] = Less(wanted[id] + (IF id = next.id THEN one.n ELSE 0), IF id = one.id THEN one.n ELSE 0)
    BY <2>1 DEF Asks
  <2> QED BY <1>1, <1>2, <1>6, <1>7, <1>8, <1>9, <2>2 DEF Less, a, w
<1>10. CASE next.id = one.id /\ next.n > one.n
  <2>1. Asks({one.id}, {}, 1)
    BY <1>10 DEF one
  <2>2. wanted'[id] = Less(wanted[id] + (IF id = one.id THEN 1 ELSE 0), 0)
    BY <2>1 DEF Asks
  <2>3. next.n = one.n + 1
    BY <1>1, <1>3, <1>10
  <2> QED BY <1>1, <1>6, <1>7, <1>8, <1>10, <2>2, <2>3 DEF Less, a, w
<1>11. CASE next.id = one.id /\ ~(next.n > one.n)
  <2>1. Asks({}, {one.id}, one.n - next.n)
    BY <1>11 DEF one
  <2>2. wanted'[id] = Less(wanted[id] + 0, IF id = one.id THEN one.n - next.n ELSE 0)
    BY <2>1 DEF Asks
  <2> QED BY <1>1, <1>6, <1>7, <1>8, <1>11, <2>2 DEF Less, a, w
<1> QED BY <1>9, <1>10, <1>11 DEF a, w

\* An edit accounts for the stack it changes: nothing is written yet.
LEMMA AccountedAmends ==
    ASSUME Typed, NEW t \in Tabs, Tame(t), Orderly(t), Accounted(t), Amends(t)
    PROVE  Accounted(t)'
<1>1. /\ fresh[t] /\ press[t] = NoPress /\ out[t] = NotOut /\ ~astray'
      /\ repo' = repo /\ parts' = parts /\ held' = held /\ since' = since
      /\ out' = out /\ sure' = sure /\ fresh' = fresh
  BY PressMeets DEF Tame, Amends, repoVars, viewVars
<1>2. SUFFICES ASSUME sure PROVE Sound(t)'
  BY <1>1 DEF Accounted
<1>3. Under(since[t], held[t]) /\ held[t] = repo /\ Meets(repo, parts)
  BY <1>1, <1>2, WhichSound DEF Accounted, Sound, Resting
<1>4. PICK k \in DOMAIN held[t] : \E next \in Edits(held[t][k]) \ {held[t][k]} :
          LET one == held[t][k] IN
          /\ \E change \in Apply(held[t], k, next) :
                /\ Straying(Against(t, DOMAIN change.writes \cup change.drops))
                /\ Begin(t, [NoPress EXCEPT
                       !.kind = "edit", !.writes = change.writes,
                       !.drops = change.drops, !.view = change.view,
                       !.gain = IF next.n > one.n THEN 1 ELSE 0])
          /\ IF next.id # one.id THEN Asks({next.id}, {one.id}, one.n) /\ UNCHANGED least
             ELSE IF next.n > one.n THEN Asks({one.id}, {}, 1) /\ UNCHANGED least
             ELSE Asks({}, {one.id}, one.n - next.n) /\ least' = Less(least, one.n - next.n)
  BY DEF Amends
<1>5. PICK next \in Edits(held[t][k]) :
          LET one == held[t][k] IN
          /\ \E change \in Apply(held[t], k, next) :
                /\ Straying(Against(t, DOMAIN change.writes \cup change.drops))
                /\ Begin(t, [NoPress EXCEPT
                       !.kind = "edit", !.writes = change.writes,
                       !.drops = change.drops, !.view = change.view,
                       !.gain = IF next.n > one.n THEN 1 ELSE 0])
          /\ IF next.id # one.id THEN Asks({next.id}, {one.id}, one.n) /\ UNCHANGED least
             ELSE IF next.n > one.n THEN Asks({one.id}, {}, 1) /\ UNCHANGED least
             ELSE Asks({}, {one.id}, one.n - next.n) /\ least' = Less(least, one.n - next.n)
  BY <1>4
<1>6. PICK change \in Apply(held[t], k, next) :
                /\ Straying(Against(t, DOMAIN change.writes \cup change.drops))
                /\ Begin(t, [NoPress EXCEPT
                       !.kind = "edit", !.writes = change.writes,
                       !.drops = change.drops, !.view = change.view,
                       !.gain = IF next.n > held[t][k].n THEN 1 ELSE 0])
  BY <1>5
<1>7. next \in Stacked /\ k \in DOMAIN repo /\ next \in Edits(repo[k]) /\ change \in Apply(repo, k, next)
  <2>1. held[t][k] \in Owned
    BY TypedTab, MapsAre
  <2> QED BY <1>3, <2>1, EditsTyped
<1>8. /\ IsChange(change, repo) /\ change \in Changes(minted)
      /\ \A id : Gains(change.view, repo, id, repo[k], next)
  BY <1>7, HeldMaps, ApplyDoes, ApplyTyped
<1>9. change.view \in Maps(minted)
  BY <1>8 DEF Changes
<1>10. Under(since[t], change.view)
  <2>1. (DOMAIN change.writes \cup change.drops) \cap DOMAIN since[t] = {}
    BY <1>1, <1>6, MeetsNothing, AgainstNothing
  <2> QED BY <1>3, <1>8, <2>1, ChangeUnder
<1>11. \A id \in Ids : Count(change.view, id) + Waiting(parts, id) = wanted'[id]
  <2>1. IF next.id # repo[k].id THEN Asks({next.id}, {repo[k].id}, repo[k].n)
           ELSE IF next.n > repo[k].n THEN Asks({repo[k].id}, {}, 1)
           ELSE Asks({}, {repo[k].id}, repo[k].n - next.n)
    BY <1>3, <1>5
  <2> QED BY <1>3, <1>7, <1>8, <1>9, <2>1, EditAsked
<1>12. /\ press'[t].kind = "edit" /\ press'[t].writes = change.writes /\ press'[t].drops = change.drops
       /\ press'[t].view = change.view
  BY <1>6 DEF Typed, CallTyped, Begin, NoPress
<1>13. Amending(t)'
  <2>1. press'[t].view = But(Over(press'[t].writes, repo'), press'[t].drops)
    BY <1>1, <1>8, <1>12 DEF IsChange
  <2>2. Under(since'[t], press'[t].view) /\ Meets(press[t].view, parts)'
    BY <1>1, <1>10, <1>11, <1>12 DEF Meets
  <2> QED BY <1>1, <1>12, <2>1, <2>2 DEF Amending
<1> QED BY <1>1, <1>3, <1>13 DEF Sound

\* An add accounts for one copy more, not made yet.
LEMMA AccountedAdds ==
    ASSUME Typed, NEW t \in Tabs, Tame(t), Orderly(t), Accounted(t), Adds(t)
    PROVE  Accounted(t)'
<1>1. /\ fresh[t] /\ press[t] = NoPress /\ out[t] = NotOut
      /\ repo' = repo /\ parts' = parts /\ held' = held /\ since' = since
      /\ out' = out /\ sure' = sure /\ fresh' = fresh
  BY PressMeets DEF Tame, Adds, repoVars, viewVars
<1>2. SUFFICES ASSUME sure PROVE Sound(t)'
  BY <1>1 DEF Accounted
<1>3. Under(since[t], held[t]) /\ held[t] = repo /\ Meets(repo, parts)
  BY <1>1, <1>2, WhichSound DEF Accounted, Sound, Resting
<1>4. PICK card \in Cards, place \in Filing :
          LET id == [card |-> card, place |-> place] IN
          /\ press' = [press EXCEPT ![t] = [NoPress EXCEPT
                 !.kind = "add", !.makes = {[id |-> id, n |-> 1]}, !.gain = 1]]
          /\ Asks({id}, {}, 1)
  BY DEF Adds, Begin
<1> DEFINE made == [id |-> [card |-> card, place |-> place], n |-> 1]
<1>5. press'[t].kind = "add" /\ press'[t].makes = {made}
  BY <1>4 DEF Typed, CallTyped, NoPress
<1>6. Asks({made.id}, {}, 1) /\ made.n = 1
  BY <1>4
<1> HIDE DEF made
<1>7. \A id \in Ids : Count(repo, id) + Waiting(parts, id) + (IF id = made.id THEN 1 ELSE 0) = wanted'[id]
  <2> TAKE id \in Ids
  <2>1. wanted'[id] = Less(wanted[id] + (IF id = made.id THEN 1 ELSE 0), 0)
    BY <1>6 DEF Asks
  <2>2. Count(repo, id) \in Nat /\ Waiting(parts, id) \in Nat /\ Count(repo, id) + Waiting(parts, id) = wanted[id]
    BY <1>3, HeldMaps DEF Meets
  <2> QED BY <2>1, <2>2 DEF Less
<1>8. Adding(t)'
  BY <1>1, <1>3, <1>5, <1>6, <1>7 DEF Adding
<1> QED BY <1>1, <1>3, <1>8 DEF Sound

\* To delete a container accounts for its stacks under no container.
LEMMA AccountedUnfiles ==
    ASSUME Typed, NEW t \in Tabs, Tame(t), Orderly(t), Accounted(t), Unfiles(t)
    PROVE  Accounted(t)'
<1>1. /\ fresh[t] /\ press[t] = NoPress /\ out[t] = NotOut /\ ~astray'
      /\ repo' = repo /\ parts' = parts /\ held' = held /\ since' = since
      /\ out' = out /\ sure' = sure /\ fresh' = fresh
  BY PressMeets DEF Tame, Unfiles, repoVars, viewVars
<1>2. SUFFICES ASSUME sure PROVE Sound(t)'
  BY <1>1 DEF Accounted
<1>3. Under(since[t], held[t]) /\ held[t] = repo /\ Meets(repo, parts)
  BY <1>1, <1>2, WhichSound DEF Accounted, Sound, Resting
<1>4. PICK place \in places :
          /\ \E change \in Emptied(held[t], place) :
                /\ Straying(Against(t, DOMAIN change.writes \cup change.drops)
                            \cup When("waits", Awaits(parts, place)))
                /\ Begin(t, [NoPress EXCEPT
                       !.kind = IF change = NoChange(held[t]) THEN "drop" ELSE "unfile",
                       !.writes = change.writes, !.drops = change.drops,
                       !.view = change.view, !.place = place])
          /\ wanted' = [id \in Ids |->
                 IF id.place = place THEN 0
                 ELSE IF id.place = Unfiled THEN wanted[id] + wanted[[id EXCEPT !.place = place]]
                 ELSE wanted[id]]
  BY DEF Unfiles
<1>5. place \in Places /\ place # Unfiled
  BY PlaceAssumption DEF Typed, RepoTyped
<1>6. PICK change \in Emptied(held[t], place) :
                /\ Straying(Against(t, DOMAIN change.writes \cup change.drops)
                            \cup When("waits", Awaits(parts, place)))
                /\ Begin(t, [NoPress EXCEPT
                       !.kind = IF change = NoChange(held[t]) THEN "drop" ELSE "unfile",
                       !.writes = change.writes, !.drops = change.drops,
                       !.view = change.view, !.place = place])
  BY <1>4
<1>13. /\ (DOMAIN change.writes \cup change.drops) \cap DOMAIN since[t] = {}
       /\ ~Awaits(parts, place)
  <2>1. Against(t, DOMAIN change.writes \cup change.drops) = {} /\ When("waits", Awaits(parts, place)) = {}
    BY <1>1, <1>6, MeetsNothing
  <2> QED BY <2>1, AgainstNothing DEF When
<1>7. change \in Changes(minted) /\ Moved(change, repo, place, {}) /\ change.view \in Maps(minted)
  <2>1. change \in Changes(minted) /\ Moved(change, repo, place, {})
    BY <1>3, <1>5, HeldMaps, EmptiedTyped, EmptiedMoves
  <2> QED BY <2>1 DEF Changes
<1>8. IsChange(change, repo)
  BY <1>7 DEF Moved
<1>9. \A id \in Ids : Count(change.view, id) + Waiting(parts, id) = wanted'[id]
  <2> TAKE id \in Ids
  <2> DEFINE in == [id EXCEPT !.place = place]
  <2>1. in \in Ids /\ in.place = place
    BY <1>5 DEF Ids
  <2>2. \A other \in Ids : other.place = place => Waiting(parts, other) = 0
    BY <1>13, HeldMaps, NoneAwaits
  <2>3. Count(change.view, id) = IF id.place = place THEN 0
                 ELSE IF id.place = Unfiled THEN Count(repo, id) + Count(repo, in)
                 ELSE Count(repo, id)
    BY <1>5, <1>7, HeldMaps, EmptiedCounts
  <2>4. wanted'[id] = IF id.place = place THEN 0
                      ELSE IF id.place = Unfiled THEN wanted[id] + wanted[in] ELSE wanted[id]
    BY <1>4
  <2> HIDE DEF in
  <2>5. /\ Count(repo, id) + Waiting(parts, id) = wanted[id] /\ Count(repo, in) + Waiting(parts, in) = wanted[in]
        /\ Count(repo, id) \in Nat /\ Waiting(parts, id) \in Nat
        /\ Count(repo, in) \in Nat /\ Waiting(parts, in) \in Nat
    BY <1>3, <2>1, HeldMaps DEF Meets
  <2> QED BY <1>5, <2>1, <2>2, <2>3, <2>4, <2>5
<1>10. /\ press'[t].kind = IF change = NoChange(repo) THEN "drop" ELSE "unfile"
       /\ press'[t].writes = change.writes /\ press'[t].drops = change.drops
       /\ press'[t].view = change.view
  BY <1>3, <1>6 DEF Typed, CallTyped, Begin, NoPress
<1>11. CASE change = NoChange(repo)
  <2>1. change.view = repo
    BY <1>11 DEF NoChange
  <2>2. Dropping(t)'
    BY <1>1, <1>3, <1>9, <1>10, <1>11, <2>1 DEF Dropping, Meets
  <2> QED BY <1>1, <1>3, <2>2 DEF Sound
<1>12. CASE change # NoChange(repo)
  <2>1. Under(since[t], change.view)
    BY <1>3, <1>8, <1>13, ChangeUnder
  <2>2. press'[t].view = But(Over(press'[t].writes, repo'), press'[t].drops)
    BY <1>1, <1>8, <1>10 DEF IsChange
  <2>3. Under(since'[t], press'[t].view) /\ Meets(press[t].view, parts)'
    BY <1>1, <1>9, <1>10, <2>1 DEF Meets
  <2>4. Amending(t)'
    BY <1>1, <1>10, <1>12, <2>2, <2>3 DEF Amending
  <2> QED BY <1>1, <1>3, <2>4 DEF Sound
<1> QED BY <1>11, <1>12

\* The record an add creates is the copy it accounts for.
LEMMA AccountedMakes ==
    ASSUME Typed, NEW t \in Tabs, Orderly(t), Accounted(t), Makes(t)
    PROVE  Accounted(t)'
<1>1. /\ press[t] # NoPress /\ fresh[t] /\ press[t].kind = "add" /\ minted' = minted + 1
      /\ parts' = parts /\ held' = held /\ since' = since /\ out' = out /\ sure' = sure /\ fresh' = fresh
      /\ wanted' = wanted
  BY NoPressIs DEF Makes, Orderly, Ready, viewVars, ownerVars
<1>2. SUFFICES ASSUME sure PROVE Sound(t)'
  BY <1>1 DEF Accounted
<1>3. Under(since[t], held[t]) /\ Adding(t)
  BY <1>1, <1>2, WhichSound DEF Accounted, Sound
<1>4. PICK one \in press[t].makes : repo' = Over(Only(minted', one), repo) /\ press' = [press EXCEPT ![t] = [NoPress EXCEPT
                 !.kind = "made", !.view = Only(minted', one), !.gain = 1]]
  BY DEF Makes
<1>5. /\ one.n = 1
      /\ \A id \in Ids : Count(repo, id) + Waiting(parts, id) + (IF id = one.id THEN 1 ELSE 0) = wanted[id]
  BY <1>3 DEF Adding
<1>6. one \in Owned
  BY TypedTab DEF PressesOf
<1>7. press'[t].kind = "made" /\ press'[t].view = Only(minted + 1, one)
  BY <1>1, <1>4 DEF Typed, CallTyped, NoPress
<1>8. Under(since[t], repo')
  <2>1. since[t] \in Maps(minted)
    BY TypedTab
  <2> QED BY <1>1, <1>3, <1>4, <2>1, HeldMaps, NewUnder DEF Adding
<1>9. Meets(repo, parts)'
  <2>1. \A id \in Ids : Count(Over(Only(minted + 1, one), repo), id) = Count(repo, id) + IF one.id = id THEN one.n ELSE 0
    BY <1>6, HeldMaps, CountNew
  <2>2. \A id \in Ids : Count(repo', id) + Waiting(parts, id) = wanted[id]
    <3> TAKE id \in Ids
    <3>1. Count(repo', id) = Count(repo, id) + IF one.id = id THEN 1 ELSE 0
      BY <1>1, <1>4, <1>5, <2>1
    <3>2. Count(repo, id) \in Nat /\ Waiting(parts, id) \in Nat
      BY HeldMaps
    <3> QED BY <1>5, <3>1, <3>2
  <2> QED BY <1>1, <2>2 DEF Meets
<1>10. Added(t)'
  BY <1>1, <1>3, <1>4, <1>7, <1>8, <1>9 DEF Adding, Added
<1> QED BY <1>1, <1>3, <1>10 DEF Sound

\* A put moves the repository towards what the press comes to, and changes not
\* what that is.
LEMMA AccountedPuts ==
    ASSUME Typed, NEW t \in Tabs, Orderly(t), Accounted(t), Puts(t)
    PROVE  Accounted(t)'
<1>0. /\ parts' = parts /\ held' = held /\ since' = since /\ out' = out /\ sure' = sure /\ fresh' = fresh
      /\ wanted' = wanted
  BY DEF Puts, viewVars, ownerVars
<1>1. PICK k \in DOMAIN press[t].writes : /\ repo' = Over(Only(k, press[t].writes[k]), repo)
                                          /\ press' = [press EXCEPT ![t].writes = But(@, {k})]
  BY DEF Puts
<1>2. press[t] # NoPress /\ press[t].kind \in {"edit", "unfile"} /\ fresh[t]
  BY NoPressIs DEF Orderly, Single, Ready, Nothing
<1>3. SUFFICES ASSUME sure PROVE Sound(t)'
  BY <1>0, <1>2 DEF Accounted
<1>4. Under(since[t], held[t]) /\ Amending(t)
  BY <1>2, <1>3, WhichSound DEF Accounted, Sound
<1>5. /\ press'[t].kind = press[t].kind /\ press'[t].writes = But(press[t].writes, {k})
      /\ press'[t].drops = press[t].drops /\ press'[t].view = press[t].view
  <2>1. press[t] \in PressesOf(minted) /\ press \in [Tabs -> PressesOf(minted)]
    BY DEF Typed, CallTyped
  <2> QED BY <1>1, <2>1 DEF PressesOf
<1>6. Over(But(press[t].writes, {k}), Over(Only(k, press[t].writes[k]), repo)) = Over(press[t].writes, repo)
  <2>1. press[t].writes \in Maps(minted) /\ repo \in Maps(minted)
    BY HeldMaps, TypedTab DEF PressesOf
  <2> QED BY <2>1, OverPut
<1>7. Amending(t)'
  BY <1>0, <1>1, <1>4, <1>5, <1>6 DEF Amending, Meets
<1> QED BY <1>0, <1>4, <1>7 DEF Sound

\* So does a delete.
LEMMA AccountedRemoves ==
    ASSUME Typed, NEW t \in Tabs, Orderly(t), Accounted(t), Removes(t)
    PROVE  Accounted(t)'
<1>0. /\ parts' = parts /\ held' = held /\ since' = since /\ out' = out /\ sure' = sure /\ fresh' = fresh
      /\ wanted' = wanted /\ press[t].writes = Nothing
  BY DEF Removes, viewVars, ownerVars, Written
<1>1. PICK k \in press[t].drops : repo' = But(repo, {k}) /\ press' = [press EXCEPT ![t].drops = @ \ {k}]
  BY DEF Removes
<1>2. press[t] # NoPress /\ press[t].kind \in {"edit", "unfile"} /\ fresh[t]
  BY NoPressIs DEF Orderly, Single, Ready
<1>3. SUFFICES ASSUME sure PROVE Sound(t)'
  BY <1>0, <1>2 DEF Accounted
<1>4. Under(since[t], held[t]) /\ Amending(t)
  BY <1>2, <1>3, WhichSound DEF Accounted, Sound
<1>5. /\ press'[t].kind = press[t].kind /\ press'[t].writes = Nothing
      /\ press'[t].drops = press[t].drops \ {k} /\ press'[t].view = press[t].view
  <2>1. press[t] \in PressesOf(minted) /\ press \in [Tabs -> PressesOf(minted)]
    BY DEF Typed, CallTyped
  <2> QED BY <1>0, <1>1, <2>1 DEF PressesOf
<1>6. press[t].view = But(Over(Nothing, repo'), press[t].drops \ {k})
  <2>1. Over(Nothing, repo) = repo /\ Over(Nothing, But(repo, {k})) = But(repo, {k})
    BY HeldMaps, ButMap, OverNothing
  <2>2. But(But(repo, {k}), press[t].drops \ {k}) = But(repo, press[t].drops)
    BY ButRemove
  <2>3. press[t].view = But(Over(Nothing, repo), press[t].drops)
    BY <1>0, <1>4 DEF Amending
  <2> QED BY <1>1, <2>1, <2>2, <2>3
<1>7. Amending(t)'
  BY <1>0, <1>4, <1>5, <1>6 DEF Amending, Meets
<1> QED BY <1>0, <1>4, <1>7 DEF Sound

\* A press that is done leaves the repository as its tab then holds it.
LEMMA AccountedPressEnds ==
    ASSUME Typed, NEW t \in Tabs, Orderly(t), Accounted(t), PressEnds(t)
    PROVE  Accounted(t)'
<1>0. /\ parts' = parts /\ since' = since /\ out' = out /\ sure' = sure /\ fresh' = fresh /\ repo' = repo
      /\ wanted' = wanted /\ press[t].writes = Nothing /\ press[t].drops = {}
      /\ press[t].kind \in {"edit", "unfile"} /\ press[t] # NoPress /\ fresh[t]
  BY NoPressIs DEF PressEnds, repoVars, Written, Orderly, Ready
<1>1. SUFFICES ASSUME sure PROVE Sound(t)'
  BY <1>0 DEF Accounted
<1>2. Amending(t)
  BY <1>0, <1>1, WhichSound DEF Accounted
<1>3. press[t].view = repo
  <2>1. But(Over(Nothing, repo), {}) = repo
    BY HeldMaps, OverNothing
  <2> QED BY <1>0, <1>2, <2>1 DEF Amending
<1>4. held'[t] = repo
  BY <1>3, AtTab DEF PressEnds
<1>5. press'[t] = NoPress \/ press'[t].kind = "drop"
  BY DEF PressEnds, Typed, CallTyped, NoPress
<1>6. Under(since'[t], held'[t]) /\ Meets(repo, parts)'
  BY <1>0, <1>2, <1>3, <1>4 DEF Amending, Meets
<1>7. Resting(t)' \/ Dropping(t)'
  BY <1>0, <1>2, <1>4, <1>5, <1>6 DEF Amending, Resting, Dropping
<1> QED BY <1>6, <1>7 DEF Sound

\* An add that is answered does too.
LEMMA AccountedAddEnds ==
    ASSUME Typed, NEW t \in Tabs, Orderly(t), Accounted(t), AddEnds(t)
    PROVE  Accounted(t)'
<1>0. /\ parts' = parts /\ since' = since /\ out' = out /\ sure' = sure /\ fresh' = fresh /\ repo' = repo
      /\ wanted' = wanted /\ press[t].kind = "made" /\ press[t] # NoPress /\ fresh[t]
  BY NoPressIs DEF AddEnds, repoVars, Orderly, Ready
<1>1. SUFFICES ASSUME sure PROVE Sound(t)'
  BY <1>0 DEF Accounted
<1>2. Added(t)
  BY <1>0, <1>1, WhichSound DEF Accounted
<1>3. held'[t] = repo /\ press'[t] = NoPress
  BY <1>2, AtTab DEF AddEnds, Done, Added
<1>4. Resting(t)' /\ Under(since'[t], held'[t])
  BY <1>0, <1>2, <1>3 DEF Added, Resting, Meets
<1> QED BY <1>4 DEF Sound

\* The account is kept by every step of a press.
LEMMA AccountedPressing ==
    ASSUME Typed, NEW t \in Tabs, Tame(t), Orderly(t), Accounted(t), Pressing(t)
    PROVE  Accounted(t)'
<1>1. CASE PressFails(t)
  <2>1. ~sure'
    BY <1>1 DEF PressFails
  <2> QED BY <2>1 DEF Accounted
<1>2. CASE DropsPlace(t)
  <2>1. /\ press[t].kind = "drop" /\ press[t] # NoPress /\ fresh[t]
        /\ parts' = parts /\ since' = since /\ out' = out /\ sure' = sure /\ fresh' = fresh /\ repo' = repo
        /\ wanted' = wanted /\ held' = held
    BY <1>2, NoPressIs DEF DropsPlace, Orderly, Ready, viewVars, ownerVars
  <2>2. press'[t] = NoPress
    BY <1>2, AtTab DEF DropsPlace, Done
  <2>3. ASSUME sure PROVE Sound(t)'
    <3>1. Under(since[t], held[t]) /\ Dropping(t)
      BY <2>1, <2>3, WhichSound DEF Accounted, Sound
    <3>2. Resting(t)'
      BY <2>1, <2>2, <3>1 DEF Dropping, Resting, Meets
    <3> QED BY <2>1, <3>1, <3>2 DEF Sound
  <2> QED BY <2>1, <2>3 DEF Accounted
<1>3. ~Turns(t)
  BY DEF Turns, Orderly, Single
<1> QED BY <1>1, <1>2, <1>3, AccountedAmends, AccountedAdds, AccountedUnfiles, AccountedMakes, AccountedPuts,
           AccountedRemoves, AccountedPressEnds, AccountedAddEnds DEF Pressing

\* What a file holds of an identity is a number.
LEMMA WaitingFile ==
    ASSUME NEW some \in SUBSET Parts, NEW id \in Ids
    PROVE  Waiting(Restrict(File, some), id) \in Nat
  BY FileListing, WaitingType

\* The owner wants what a file holds as well, and it waits.
LEMMA AccountedImports ==
    ASSUME Typed, NEW t \in Tabs, Orderly(t), Accounted(t), Imports(t)
    PROVE  Accounted(t)'
<1>0. /\ since' = since /\ out' = out /\ sure' = sure /\ fresh' = fresh /\ repo' = repo /\ held' = held
      /\ press' = press /\ out[t] = NotOut /\ listed[t] /\ pending[t] = Nothing
  BY DEF Imports, viewVars
<1>1. parts = Nothing
  BY <1>0, NotOutIs DEF Orderly, Lists
<1>2. PICK some \in SUBSET coming :
          /\ parts' = Over(Restrict(File, some), parts)
          /\ wanted' = [id \in Ids |-> wanted[id] + Waiting(Restrict(File, some), id)]
  BY DEF Imports
<1>3. parts' = Restrict(File, some)
  <2>1. Restrict(File, some) = [p \in DOMAIN Restrict(File, some) |-> Restrict(File, some)[p]]
    BY DEF Restrict
  <2>2. Over(Restrict(File, some), Nothing) = Restrict(File, some)
    BY <2>1 DEF Over, Nothing
  <2> QED BY <1>1, <1>2, <2>2
<1>4. \A id \in Ids : Waiting(parts, id) = 0 /\ Waiting(parts', id) \in Nat /\ wanted[id] \in Nat
                      /\ wanted'[id] = wanted[id] + Waiting(parts', id)
  <2>1. some \in SUBSET Parts
    BY DEF Typed, RepoTyped
  <2> QED BY <1>1, <1>2, <1>3, <2>1, NothingWaits, WaitingFile, HeldMaps
<1>5. ASSUME NEW view \in Maps(minted), Meets(view, parts)
      PROVE  \A id \in Ids : Count(view, id) + Waiting(parts', id) = wanted'[id]
  <2> TAKE id \in Ids
  <2>1. Count(view, id) + 0 = wanted[id] /\ Count(view, id) \in Nat
    BY <1>4, <1>5, HeldMaps, CountSum DEF Meets
  <2> QED BY <1>4, <2>1
<1>6. repo \in Maps(minted) /\ press[t].view \in Maps(minted)
  BY HeldMaps, TypedTab DEF PressesOf
<1>7. CASE ~fresh[t]
  <2>1. ASSUME sure PROVE Meets(repo, parts)'
    <3>1. Meets(repo, parts)
      BY <1>7, <2>1 DEF Accounted
    <3> QED BY <1>0, <1>5, <1>6, <3>1 DEF Meets
  <2> QED BY <1>0, <1>7, <2>1 DEF Accounted
<1>8. CASE fresh[t]
  <2>1. ASSUME sure PROVE Sound(t)'
    <3>1. Sound(t)
      BY <1>8, <2>1 DEF Accounted
    <3>2. CASE Resting(t)
      <4>1. Meets(repo, parts)'
        BY <1>0, <1>5, <1>6, <3>2 DEF Resting, Meets
      <4> QED BY <1>0, <3>1, <3>2, <4>1 DEF Sound, Resting
    <3>3. CASE Adding(t)
      <4>1. PICK one \in press[t].makes :
              /\ press[t].makes = {one} /\ one.n = 1
              /\ \A id \in Ids : Count(repo, id) + Waiting(parts, id) + (IF id = one.id THEN 1 ELSE 0) = wanted[id]
        BY <3>3 DEF Adding
      <4>2. \A id \in Ids : Count(repo, id) + Waiting(parts', id) + (IF id = one.id THEN 1 ELSE 0) = wanted'[id]
        <5> TAKE id \in Ids
        <5>1. Count(repo, id) \in Nat /\ Count(repo, id) + 0 + (IF id = one.id THEN 1 ELSE 0) = wanted[id]
          BY <1>4, <4>1, HeldMaps
        <5> QED BY <1>4, <5>1
      <4>3. Adding(t)'
        BY <1>0, <3>3, <4>1, <4>2 DEF Adding
      <4> QED BY <1>0, <3>1, <4>3 DEF Sound
    <3>4. CASE Added(t)
      <4>1. Meets(repo, parts)'
        BY <1>0, <1>5, <1>6, <3>4 DEF Added, Meets
      <4> QED BY <1>0, <3>1, <3>4, <4>1 DEF Sound, Added
    <3>5. CASE Amending(t)
      <4>1. Meets(press[t].view, parts)'
        BY <1>0, <1>5, <1>6, <3>5 DEF Amending, Meets
      <4> QED BY <1>0, <3>1, <3>5, <4>1 DEF Sound, Amending
    <3>6. CASE Dropping(t)
      <4>1. Meets(repo, parts)'
        BY <1>0, <1>5, <1>6, <3>6 DEF Dropping, Meets
      <4> QED BY <1>0, <3>1, <3>6, <4>1 DEF Sound, Dropping
    <3> QED BY <1>0, <3>1, <3>2, <3>3, <3>4, <3>5, <3>6, NotOutIs DEF Sound, Draining, Shedding, Landed, Denied
  <2> QED BY <1>0, <1>8, <2>1 DEF Accounted
<1> QED BY <1>7, <1>8

\* A drain sent accounts for its part, which still waits.
LEMMA AccountedDrains ==
    ASSUME Typed, NEW t \in Tabs, Tame(t), Orderly(t), Accounted(t), Drains(t)
    PROVE  Accounted(t)'
<1>0. /\ parts' = parts /\ since' = since /\ sure' = sure /\ fresh' = fresh /\ repo' = repo /\ held' = held
      /\ press' = press /\ wanted' = wanted /\ fresh[t] /\ listed[t] /\ out[t] = NotOut /\ press[t] = NoPress
      /\ pending[t] # Nothing
  BY DrainMeets DEF Drains, Tame, LockFree, repoVars, viewVars
<1>1. SUFFICES ASSUME sure PROVE Sound(t)'
  BY <1>0 DEF Accounted
<1>2. Under(since[t], held[t]) /\ Resting(t)
  BY <1>0, <1>1, WhichSound DEF Accounted, Sound
<1> DEFINE p == Min(DOMAIN pending[t])
<1>3. PICK writes \in Drained(pending[t][p], held[t], later[t]) :
          out' = [out EXCEPT ![t] = [NotOut EXCEPT
              !.said = "out", !.updates = writes.updates, !.creates = writes.creates,
              !.takes = {p}]]
  BY DEF Drains
<1>4. parts = pending[t] /\ p \in DOMAIN parts /\ parts[p] \in Entries
  <2>1. parts = pending[t]
    BY <1>0, NotOutIs DEF Orderly, Lists
  <2> QED BY <1>0, <2>1, TypedTab, FirstPart
<1> HIDE DEF p
<1>5. Fills(writes.updates, writes.creates, parts[p], repo)
  <2>1. Under(later[t], repo)
    BY <1>2, UnderUnder DEF Orderly, Recalls, Resting
  <2>2. writes \in Drained(parts[p], repo, later[t])
    BY <1>2, <1>3, <1>4 DEF Resting
  <2> QED BY <1>4, <2>1, <2>2, HeldMaps, DrainedFills
<1>6. /\ out'[t].said = "out" /\ ~out'[t].sheds /\ out'[t].leaves = Nothing /\ out'[t].takes = {p}
      /\ out'[t].updates = writes.updates /\ out'[t].creates = writes.creates
  BY <1>3 DEF Typed, CallTyped, NotOut
<1>7. Draining(t)'
  BY <1>0, <1>2, <1>4, <1>5, <1>6 DEF Draining, Resting, Meets
<1> QED BY <1>0, <1>2, <1>7 DEF Sound

\* A shed sent accounts for what the parts come to without what is shed.
LEMMA AccountedSheds ==
    ASSUME Typed, NEW t \in Tabs, Tame(t), Orderly(t), Accounted(t), Sheds(t)
    PROVE  Accounted(t)'
<1>0. /\ parts' = parts /\ since' = since /\ sure' = sure /\ fresh' = fresh /\ repo' = repo /\ held' = held
      /\ press' = press /\ fresh[t] /\ out[t] = NotOut /\ press[t] = NoPress
  BY PressMeets DEF Sheds, Tame, repoVars, viewVars
<1>1. SUFFICES ASSUME sure PROVE Sound(t)'
  BY <1>0 DEF Accounted
<1>2. Under(since[t], held[t]) /\ Resting(t)
  BY <1>0, <1>1, WhichSound DEF Accounted, Sound
<1>3. PICK id \in Ids : \E copies \in {1, Waiting(parts, id)} :
              /\ \A k \in DOMAIN held[t] : held[t][k].id # id
              /\ Waiting(parts, id) > 0
              /\ out' = [out EXCEPT ![t] = ShedCall(Shed(parts, id, copies))]
              /\ Asks({}, {id}, copies)
              /\ least' = Less(least, copies)
  BY ShedsPicks
<1>4. PICK copies \in {1, Waiting(parts, id)} :
              /\ Waiting(parts, id) > 0
              /\ out' = [out EXCEPT ![t] = ShedCall(Shed(parts, id, copies))]
              /\ Asks({}, {id}, copies)
  BY <1>3
<1> DEFINE left == Shed(parts, id, copies)
<1>5. parts \in Listings /\ copies \in Nat /\ copies <= Waiting(parts, id)
  BY <1>4, HeldMaps
<1>6. left \in Listings /\ DOMAIN left \subseteq DOMAIN parts
  BY <1>5, FiniteAssumption, ShedTyped
<1>7. \A other \in Ids : Waiting(left, other)
                              = IF other = id THEN Less(Waiting(parts, id), copies) ELSE Waiting(parts, other)
  BY <1>5, ShedWaits
<1> HIDE DEF left
<1>8. out'[t] = ShedCall(left)
  BY <1>4, AtTab DEF left
<1>9. /\ out'[t].said = "out" /\ out'[t].sheds /\ out'[t].updates = Nothing /\ out'[t].creates = {}
  BY <1>8 DEF ShedCall, NotOut
<1>10. Taken(out[t])' = left
  <2>1. Taken(ShedCall(left)) = left
    BY <1>5, <1>6, ShedTaken
  <2> QED BY <1>0, <1>8, <2>1 DEF Taken
<1>11. Meets(repo, Taken(out[t]))'
  <2>1. \A other \in Ids : Count(repo, other) + Waiting(left, other) = wanted'[other]
    <3> TAKE other \in Ids
    <3>1. /\ Count(repo, other) + Waiting(parts, other) = wanted[other]
          /\ Count(repo, other) \in Nat /\ Waiting(parts, other) \in Nat
      BY <1>2, HeldMaps DEF Resting, Meets
    <3>2. wanted'[other] = Less(wanted[other] + 0, IF other = id THEN copies ELSE 0)
      BY <1>4 DEF Asks
    <3> QED BY <1>5, <1>7, <3>1, <3>2 DEF Less
  <2> QED BY <1>0, <1>10, <2>1 DEF Meets
<1>12. Shedding(t)'
  BY <1>0, <1>2, <1>9, <1>11 DEF Shedding, Resting
<1> QED BY <1>0, <1>2, <1>12 DEF Sound

\* A drain that lands makes of its part the copies that waited in it, once; a
\* shed takes what was asked.
LEMMA AccountedLands ==
    ASSUME Typed, NEW t \in Tabs, Orderly(t), Accounted(t), Lands(t)
    PROVE  Accounted(t)'
<1> DEFINE call == out[t]
           last == minted + Cardinality(call.creates)
<1>0. /\ since' = since /\ sure' = sure /\ fresh' = fresh /\ held' = held /\ pending' = pending
      /\ press' = press /\ wanted' = wanted /\ call.said = "out" /\ call # NotOut /\ fresh[t]
      /\ parts' = Over(call.leaves, But(parts, call.takes))
  BY NotOutIs DEF Lands, Taken, Orderly, Ready, ownerVars, viewVars, importVars
<1>1. SUFFICES ASSUME sure PROVE Sound(t)'
  BY <1>0 DEF Accounted
<1>2. Under(since[t], held[t]) /\ (Draining(t) \/ Shedding(t))
  BY <1>0, <1>1, WhichSound DEF Accounted, Sound
<1>3. PICK made \in [minted + 1 .. last -> call.creates] :
          /\ Range(made) = call.creates
          /\ repo' = Over(call.updates, Over(made, repo))
          /\ out' = [out EXCEPT ![t].said = "landed", ![t].wrote = Over(call.updates, made)]
  BY DEF Lands
<1>4. /\ call.updates \in Maps(minted) /\ call.creates \in SUBSET Owned /\ IsFiniteSet(call.creates)
      /\ minted \in Nat /\ repo \in Maps(minted) /\ parts \in Listings /\ Cardinality(call.creates) \in Nat
  <2>1. call \in CallsOf(minted)
    BY TypedTab
  <2>2. call.updates \in Maps(minted) /\ call.creates \in SUBSET Owned /\ IsFiniteSet(call.creates)
    BY <2>1 DEF CallsOf
  <2> QED BY <2>2, HeldMaps, FS_CardinalityType
<1>5. /\ out'[t].said = "landed" /\ out'[t].wrote = Over(call.updates, made) /\ out'[t].sheds = call.sheds
  <2> DEFINE new == [out[t] EXCEPT !.said = "landed", !.wrote = Over(call.updates, made)]
  <2>1. out' = [out EXCEPT ![t] = new]
    BY <1>3
  <2>2. new.said = "landed" /\ new.wrote = Over(call.updates, made) /\ new.sheds = call.sheds
    BY TypedTab DEF CallsOf
  <2>3. out'[t] = new
    <3> HIDE DEF new
    <3> QED BY <2>1, AtTab
  <2> QED BY <2>2, <2>3
<1>6. held[t] = repo /\ press[t] = NoPress
  BY <1>2 DEF Draining, Shedding
<1>7. repo' = Over(out'[t].wrote, held'[t])
  BY <1>0, <1>3, <1>5, <1>6, OverOver
<1>8. CASE Draining(t)
  <2>1. PICK p \in DOMAIN parts : call.takes = {p} /\ Fills(call.updates, call.creates, parts[p], repo)
    BY <1>8 DEF Draining
  <2>2. made \in Bijection(minted + 1 .. last, call.creates)
    <3> DEFINE creates == call.creates
    <3>1. made \in [minted + 1 .. minted + Cardinality(creates) -> creates] /\ Range(made) = creates
      BY <1>3
    <3>2. minted \in Nat /\ IsFiniteSet(creates)
      BY <1>4
    <3>3. made \in Bijection(minted + 1 .. minted + Cardinality(creates), creates)
      <4> HIDE DEF creates
      <4> QED BY <3>1, <3>2, KeysOfTheirOwn
    <3> QED BY <3>3
  <2>3. last \in Nat /\ minted <= last /\ parts[p] \in Entries
    BY <1>4, ListingsAre
  <2> HIDE DEF last, call
  <2>4. \A id \in Ids : Count(repo', id) = Count(repo, id) + parts[p][id]
    <3> TAKE id \in Ids
    <3>1. Count(Over(call.updates, Over(made, repo)), id) = Count(repo, id) + parts[p][id]
      <4> DEFINE creates == call.creates  updates == call.updates  part == parts[p]
      <4>1. /\ minted \in Nat /\ last \in Nat /\ minted <= last /\ repo \in Maps(minted)
            /\ updates \in Maps(minted) /\ creates \in SUBSET Owned /\ part \in Entries
            /\ Fills(updates, creates, part, repo)
        BY <1>3, <1>4, <2>1, <2>3
      <4>2. made \in Bijection(minted + 1 .. last, creates)
        BY <2>2
      <4> HIDE DEF creates, updates, part
      <4>3. Count(Over(updates, Over(made, repo)), id) = Count(repo, id) + part[id]
        BY <4>1, <4>2, LandingCounts
      <4> QED BY <4>3 DEF updates, part
    <3> QED BY <1>3, <3>1
  <2>5. parts' = But(parts, {p})
    <3>1. But(parts, {p}) \in Listings
      BY <1>4, ButListing
    <3>2. But(parts, {p}) = [q \in DOMAIN But(parts, {p}) |-> But(parts, {p})[q]]
      BY <3>1, ListingsAre
    <3>3. Over(Nothing, But(parts, {p})) = But(parts, {p})
      BY <3>2 DEF Over, Nothing
    <3>4. call.leaves = Nothing
      BY <1>8 DEF Draining, call
    <3> QED BY <1>0, <2>1, <3>3, <3>4
  <2>6. Meets(repo, parts)'
    <3>1. \A id \in Ids : Count(repo', id) + Waiting(parts', id) = wanted[id]
      <4> TAKE id \in Ids
      <4>1. Waiting(parts, id) = parts[p][id] + Waiting(But(parts, {p}), id)
        BY <1>4, <2>1, WaitingBut
      <4>2. Count(repo, id) \in Nat /\ parts[p][id] \in Nat /\ Waiting(But(parts, {p}), id) \in Nat
        BY <1>4, <2>3, HeldMaps, ButListing, WaitingType DEF Entries
      <4>3. Count(repo, id) + Waiting(parts, id) = wanted[id]
        BY <1>8 DEF Draining, Meets
      <4> QED BY <2>4, <2>5, <4>1, <4>2, <4>3
    <3> QED BY <1>0, <3>1 DEF Meets
  <2>7. Meets(held[t], pending[t])'
    <3>1. pending[t] = parts
      BY <1>0, <1>8, NotOutIs DEF Orderly, Single, Lists, Draining, call
    <3> QED BY <1>0, <1>6, <1>8, <3>1 DEF Draining, Meets
  <2>8. Landed(t)'
    BY <1>0, <1>5, <1>6, <1>7, <2>6, <2>7 DEF Landed
  <2> QED BY <1>0, <1>2, <2>8 DEF Sound
<1>9. CASE Shedding(t)
  <2>1. call.updates = Nothing /\ call.creates = {} /\ call.sheds /\ Meets(repo, Taken(call))
    BY <1>9 DEF Shedding
  <2>2. last = minted
    BY <1>4, <2>1, FS_EmptySet
  <2>3. DOMAIN made = {} /\ made = Nothing
    <3>1. DOMAIN made = minted + 1 .. minted
      BY <1>3, <2>2
    <3>2. DOMAIN made = {}
      BY <1>4, <3>1
    <3>3. made = [k \in DOMAIN made |-> made[k]]
      BY <1>3
    <3> QED BY <3>2, <3>3 DEF Nothing
  <2>4. repo' = repo
    BY <1>3, <1>4, <2>1, <2>3, OverNothing
  <2>5. Meets(repo, parts)'
    BY <1>0, <2>1, <2>4 DEF Meets, Taken
  <2>6. Landed(t)'
    BY <1>0, <1>5, <1>6, <1>7, <2>1, <2>5 DEF Landed
  <2> QED BY <1>0, <1>2, <2>6 DEF Sound
<1> QED BY <1>2, <1>8, <1>9

\* The tab then holds what the repository does.
LEMMA AccountedHears ==
    ASSUME Typed, NEW t \in Tabs, Orderly(t), Accounted(t), Hears(t)
    PROVE  Accounted(t)'
<1>0. /\ parts' = parts /\ sure' = sure /\ fresh' = fresh /\ repo' = repo /\ press' = press /\ wanted' = wanted
      /\ fresh[t] /\ out[t].said = "landed"
  BY NotOutIs DEF Hears, Orderly, Ready, repoVars, ownerVars
<1>1. SUFFICES ASSUME sure PROVE Sound(t)'
  BY <1>0 DEF Accounted
<1>2. Under(since[t], held[t]) /\ Landed(t)
  BY <1>0, <1>1, WhichSound DEF Accounted, Sound
<1>3. since'[t] = Over(out[t].wrote, since[t]) /\ out'[t] = NotOut
  BY AtTab DEF Hears
<1>4. held'[t] = Over(since'[t], held[t])
  BY DEF Hears, Fold, Typed, ViewTyped
<1>5. held'[t] = repo
  <2>1. Over(Over(out[t].wrote, since[t]), held[t]) = Over(out[t].wrote, Over(since[t], held[t]))
    BY OverOver
  <2>2. Over(since[t], held[t]) = held[t]
    BY <1>2, TypedTab, OverUnder
  <2> QED BY <1>2, <1>3, <1>4, <2>1, <2>2 DEF Landed
<1>6. Under(since'[t], held'[t])
  BY <1>4, UnderOver
<1>7. Resting(t)'
  BY <1>0, <1>2, <1>3, <1>5 DEF Landed, Resting, Meets
<1> QED BY <1>6, <1>7 DEF Sound

\* The account is kept by every step of the importer.
LEMMA AccountedImporting ==
    ASSUME Typed, NEW t \in Tabs, Tame(t), Orderly(t), Accounted(t), Importing(t)
    PROVE  Accounted(t)'
<1>1. CASE Denies(t)
  <2>1. /\ parts' = parts /\ sure' = sure /\ fresh' = fresh /\ repo' = repo /\ press' = press /\ wanted' = wanted
        /\ held' = held /\ since' = since /\ out[t].said = "out" /\ fresh[t]
    BY <1>1, NotOutIs DEF Denies, Orderly, Ready, repoVars, ownerVars, viewVars
  <2>2. out'[t].said = "denied" /\ out'[t].sheds = out[t].sheds
    <3>1. out[t] \in CallsOf(minted) /\ out \in [Tabs -> CallsOf(minted)]
      BY DEF Typed, CallTyped
    <3> QED BY <1>1, <3>1 DEF Denies, CallsOf
  <2>3. ASSUME sure PROVE Sound(t)'
    <3>1. Under(since[t], held[t]) /\ (Draining(t) \/ Shedding(t))
      BY <2>1, <2>3, WhichSound DEF Accounted, Sound
    <3>2. Denied(t)'
      BY <2>1, <2>2, <3>1 DEF Draining, Shedding, Denied, Meets
    <3> QED BY <2>1, <3>1, <3>2 DEF Sound
  <2> QED BY <2>1, <2>3 DEF Accounted
<1>2. CASE Relists(t)
  <2>1. /\ parts' = parts /\ fresh' = fresh /\ repo' = repo /\ press' = press /\ wanted' = wanted
        /\ held' = held /\ since' = since /\ out[t] # NotOut /\ fresh[t] /\ sure' = (sure /\ ~out[t].sheds)
    BY <1>2, NotOutIs DEF Relists, Orderly, Ready, repoVars, viewVars
  <2>2. out'[t] = NotOut
    BY <1>2, AtTab DEF Relists
  <2>3. ~out[t].sheds => out[t].said \in {"out", "denied"}
    BY <1>2, RelistMeets DEF Tame
  <2>4. ASSUME sure, ~out[t].sheds PROVE Sound(t)'
    <3>1. Under(since[t], held[t]) /\ (Draining(t) \/ Denied(t))
      BY <2>1, <2>3, <2>4, WhichSound DEF Accounted, Sound, Shedding
    <3>2. Resting(t)'
      BY <2>1, <2>2, <2>4, <3>1 DEF Draining, Denied, Resting, Meets
    <3> QED BY <2>1, <3>1, <3>2 DEF Sound
  <2> QED BY <2>1, <2>4 DEF Accounted
<1> QED BY <1>1, <1>2, AccountedImports, AccountedDrains, AccountedSheds, AccountedLands, AccountedHears
      DEF Importing

-----------------------------------------------------------------------------
\* A tab alone, as long as no step of it went astray, is orderly and its account is
\* kept; once one has, nothing is said of it but its types, until it closes.
Minded(t) == Typed /\ (~astray => Orderly(t) /\ Accounted(t))

\* The first states are minded.
LEMMA MindedInit == ASSUME NEW t \in Tabs, Init PROVE Minded(t)
<1>1. Typed /\ Orderly(t)
  BY TypedInit, OrderlyInit
<1>2. Meets(repo, parts)
  <2>1. \A id \in Ids : Count(repo, id) + Waiting(parts, id) = wanted[id]
    <3> TAKE id \in Ids
    <3>1. wanted[id] = Count(repo, id) /\ parts = Nothing
      BY DEF Init
    <3>2. Count(repo, id) \in Nat
      BY <1>1, HeldMaps
    <3> QED BY <3>1, <3>2, NothingWaits
  <2> QED BY <2>1 DEF Meets
<1>3. ~fresh[t]
  BY DEF Init
<1> QED BY <1>1, <1>2, <1>3 DEF Minded, Accounted

\* A tab alone that is not astray is not after any of its steps, or the step is tame;
\* only to close it ends what went astray.
LEMMA StepIs ==
    ASSUME NEW t \in Tabs, Alone(t), Typed, Next, ~astray'
    PROVE  /\ Viewing(t) \/ Pressing(t) \/ Importing(t)
           /\ Tame(t) \/ (Closes(t) /\ astray)
<1>1. Viewing(t) \/ Pressing(t) \/ Importing(t)
  BY DEF Next, Alone
<1>2. SUFFICES ASSUME astray PROVE Closes(t)
  BY <1>1 DEF Tame
<1>3. ASSUME NEW met PROVE ~Straying(met)
  BY <1>2 DEF Straying
<1>4. CASE Viewing(t)
  BY <1>2, <1>4 DEF Viewing, Opens, Paints, ReadsPage, ReadEnds, Remembers, Attaches, ownerVars
<1>5. CASE Pressing(t)
  <2>1. ~Amends(t) /\ ~Adds(t) /\ ~Unfiles(t) /\ ~PressFails(t)
    BY <1>3 DEF Amends, Adds, Unfiles, PressFails
  <2> QED BY <1>2, <1>5, <2>1 DEF Pressing, Turns, Makes, Puts, Removes, PressEnds, AddEnds, DropsPlace, ownerVars
<1>6. CASE Importing(t)
  <2>1. ~Imports(t) /\ ~Drains(t) /\ ~Sheds(t) /\ ~Relists(t)
    BY <1>3 DEF Imports, Drains, Sheds, Relists
  <2> QED BY <1>2, <1>6, <2>1 DEF Importing, Lands, Denies, Hears, ownerVars
<1> QED BY <1>1, <1>4, <1>5, <1>6

\* A tab that went astray and closes has nothing to account for until it has read what
\* there is.
LEMMA AccountedAnew ==
    ASSUME Typed, NEW t \in Tabs, Closes(t), astray
    PROVE  Accounted(t)'
<1>1. ~sure'
  BY DEF Closes
<1> QED BY <1>1 DEF Accounted

\* Every step of a tab alone keeps them so.
LEMMA MindedNext ==
    ASSUME NEW t \in Tabs, Alone(t), Minded(t), [Next]_vars
    PROVE  Minded(t)'
<1>1. Typed'
  BY TypedNext DEF Minded
<1>2. SUFFICES ASSUME ~astray' PROVE Orderly(t)' /\ Accounted(t)'
  BY <1>1 DEF Minded
<1>3. CASE UNCHANGED vars
  <2>1. Orderly(t) /\ Accounted(t)
    BY <1>2, <1>3 DEF Minded, vars, ownerVars
  <2>2. Orderly(t)'
    BY <1>3, <2>1 DEF Orderly, Ready, Single, Reads, Lists, Recalls,
                      vars, repoVars, ownerVars, viewVars, importVars
  <2>3. Accounted(t)'
    BY <1>3, <2>1, AccountedSame DEF vars, repoVars, ownerVars, viewVars, importVars
  <2> QED BY <2>2, <2>3
<1>4. CASE Next /\ Tame(t)
  <2>1. Typed /\ Orderly(t) /\ Accounted(t)
    BY <1>4 DEF Minded, Tame
  <2>2. Viewing(t) \/ Pressing(t) \/ Importing(t)
    BY <1>2, <1>4, <2>1, StepIs
  <2> QED BY <1>4, <2>1, <2>2, OrderlyNext, AccountedViewing, AccountedPressing, AccountedImporting
<1>5. CASE Closes(t) /\ astray
  BY <1>5, ClosesAnew, AccountedAnew DEF Minded
<1> QED BY <1>2, <1>3, <1>4, <1>5, StepIs DEF Minded

\* In them the repository and the parts hold what the owner asked for whenever
\* nothing is under way.
LEMMA MindedKept == ASSUME NEW t \in Tabs, Alone(t), Minded(t) PROVE Kept
<1>1. SUFFICES ASSUME Quiet, Known PROVE Meets(repo, parts)
  BY DEF Kept, Meets, InRepo
<1>2. press[t] = NoPress /\ out[t] = NotOut /\ sure /\ ~astray
  BY <1>1 DEF Quiet, Known
<1> QED BY <1>1, <1>2, WhichSound DEF Minded, Accounted, Resting

\* And the tab shows what the repository holds.
LEMMA MindedSeen == ASSUME NEW t \in Tabs, Alone(t), Minded(t) PROVE Seen
<1>1. SUFFICES ASSUME fresh[t], listed[t], press[t] = NoPress, ~out[t].sheds, Known
               PROVE  Meets(held[t], pending[t])
  BY DEF Seen, Settled, Shown, Meets, Alone
<1>2. Orderly(t) /\ Sound(t)
  BY <1>1 DEF Minded, Accounted, Known
<1>3. CASE Landed(t)
  BY <1>1, <1>3 DEF Landed
<1>4. CASE Resting(t) \/ Draining(t) \/ Denied(t)
  <2>1. held[t] = repo /\ Meets(repo, parts) /\ out[t].said # "landed"
    BY <1>1, <1>4, NotOutIs DEF Resting, Draining, Denied
  <2>2. parts = pending[t]
    BY <1>1, <1>2, <2>1 DEF Orderly, Lists
  <2> QED BY <2>1, <2>2
<1> QED BY <1>1, <1>2, <1>3, <1>4, NoPressIs DEF Sound, Adding, Added, Amending, Dropping, Shedding

(***************************************************************************)
(* A tab alone loses no copy and makes none up: with nothing under way, and *)
(* no press failed nor any step gone astray since it last read everything,  *)
(* the repository and the parts left to drain hold together what the owner  *)
(* asked for, each as the card and in the place it was asked for.  That is  *)
(* over every order of adds, edits that merge two stacks, containers        *)
(* emptied stack by stack, parts drained into records of the view or of     *)
(* their own, sheds, calls that fail and a tab that dies with one under way *)
(* (collection.ts, cards.ts, runner.ts), from any start, for any file,      *)
(* whatever the events and however many the presses, two of a tab under way *)
(* among them.  What makes a step go astray is Collection's `Against` and   *)
(* its like; of them the code has no such promise to keep, and the runs     *)
(* that let them happen show that it keeps none.                            *)
(***************************************************************************)
THEOREM OneTabKeeps == ASSUME NEW t \in Tabs, Alone(t) PROVE Spec => []Kept
<1>1. Init => Minded(t)
  BY MindedInit
<1>2. Minded(t) /\ [Next]_vars => Minded(t)'
  BY MindedNext
<1>3. Minded(t) => Kept
  BY MindedKept
<1> QED BY <1>1, <1>2, <1>3, PTL DEF Spec

(***************************************************************************)
(* What a tab alone shows, the parts it has still to land folded in, is     *)
(* what the owner has, in every state it is in while no press is: before a  *)
(* drain is sent, while it is out, when it has landed and the tab has not   *)
(* heard, and after (part.ts, runner.ts), unless a step went astray since   *)
(* the page was opened.                                                     *)
(***************************************************************************)
THEOREM OneTabSeen == ASSUME NEW t \in Tabs, Alone(t) PROVE Spec => []Seen
<1>1. Init => Minded(t)
  BY MindedInit
<1>2. Minded(t) /\ [Next]_vars => Minded(t)'
  BY MindedNext
<1>3. Minded(t) => Seen
  BY MindedSeen
<1> QED BY <1>1, <1>2, <1>3, PTL DEF Spec

-----------------------------------------------------------------------------
(* A container that is deleted.                                            *)

NoneIn(view, place) == \A k \in DOMAIN view : view[k].id.place # place

\* With no press failed, none of the records is in a container about to be
\* deleted, and none will be in one that is being emptied; and no part holds a copy
\* for one that is on its way out.
Cleared(t) ==
    sure => /\ press[t].kind = "drop" => NoneIn(repo, press[t].place)
            /\ press[t].kind = "unfile" => NoneIn(press[t].view, press[t].place)
Unawaited(t) == press[t].place \in Places => ~Awaits(parts, press[t].place)

\* A step of which the press and the repository know nothing keeps that.
LEMMA ClearedSame ==
    ASSUME NEW t, Cleared(t), press'[t] = press[t], repo' = repo, sure' => sure
    PROVE  Cleared(t)'
  BY DEF Cleared, NoneIn

\* So does one after which nothing is deleted or emptied.
LEMMA ClearedNone ==
    ASSUME NEW t, press'[t].kind \notin {"drop", "unfile"}
    PROVE  Cleared(t)'
  BY DEF Cleared

\* Opening, painting, reading, listing and closing do.
LEMMA ClearedViewing ==
    ASSUME Typed, NEW t \in Tabs, Tame(t), Orderly(t), Cleared(t), Viewing(t)
    PROVE  Cleared(t)'
<1>1. CASE Closes(t)
  <2>1. press'[t] = NoPress
    BY <1>1, AtTab DEF Closes
  <2> QED BY <2>1, NoPressIs, ClearedNone
<1>2. CASE ReadEnds(t)
  <2>1. press' = press /\ repo' = repo
    BY <1>2 DEF ReadEnds, repoVars
  <2>2. CASE sure' => sure
    BY <2>1, <2>2, ClearedSame
  <2>3. CASE ~(sure' => sure)
    <3>1. press[t] = NoPress
      BY <1>2, <2>3 DEF ReadEnds, Learns, Quiet
    <3> QED BY <2>1, <3>1, NoPressIs, ClearedNone
  <2> QED BY <2>2, <2>3
<1>3. CASE Opens(t) \/ Paints(t) \/ ReadsPage(t) \/ Remembers(t) \/ Attaches(t)
  <2>1. press' = press /\ repo' = repo /\ sure' = sure
    BY <1>3 DEF Opens, Paints, ReadsPage, Remembers, Attaches, repoVars, ownerVars
  <2> QED BY <2>1, ClearedSame
<1> QED BY <1>1, <1>2, <1>3 DEF Viewing

\* The view an emptied container leaves has no record in it.
LEMMA ClearedUnfiles ==
    ASSUME Typed, NEW t \in Tabs, Tame(t), Orderly(t), Accounted(t), Unfiles(t)
    PROVE  Cleared(t)'
<1>1. fresh[t] /\ press[t] = NoPress /\ out[t] = NotOut /\ repo' = repo /\ sure' = sure
  BY PressMeets DEF Tame, Unfiles, repoVars
<1>2. SUFFICES ASSUME sure
      PROVE  /\ press'[t].kind = "drop" => NoneIn(repo, press'[t].place)
             /\ press'[t].kind = "unfile" => NoneIn(press'[t].view, press'[t].place)
  BY <1>1 DEF Cleared
<1>3. held[t] = repo
  BY <1>1, <1>2, WhichSound DEF Accounted, Resting
<1>4. PICK place \in places : \E change \in Emptied(held[t], place) :
          press' = [press EXCEPT ![t] = [NoPress EXCEPT
                       !.kind = IF change = NoChange(held[t]) THEN "drop" ELSE "unfile",
                       !.writes = change.writes, !.drops = change.drops,
                       !.view = change.view, !.place = place]]
  BY DEF Unfiles, Begin
<1>5. PICK change \in Emptied(held[t], place) :
          press' = [press EXCEPT ![t] = [NoPress EXCEPT
                       !.kind = IF change = NoChange(held[t]) THEN "drop" ELSE "unfile",
                       !.writes = change.writes, !.drops = change.drops,
                       !.view = change.view, !.place = place]]
  BY <1>4
<1>6. NoneIn(change.view, place)
  <2>1. place \in Places
    BY DEF Typed, RepoTyped
  <2>2. Moved(change, repo, place, {})
    BY <1>3, <2>1, HeldMaps, EmptiedMoves
  <2> QED BY <2>2 DEF Moved, NoneIn
<1>7. /\ press'[t].kind = IF change = NoChange(repo) THEN "drop" ELSE "unfile"
      /\ press'[t].view = change.view /\ press'[t].place = place
  BY <1>3, <1>5 DEF Typed, CallTyped, NoPress
<1>8. change = NoChange(repo) => change.view = repo
  BY DEF NoChange
<1> QED BY <1>6, <1>7, <1>8

\* A press goes on to delete a container only once all of its writes and drops
\* are done.
LEMMA ClearedPressing ==
    ASSUME Typed, NEW t \in Tabs, Tame(t), Orderly(t), Accounted(t), Cleared(t), Pressing(t)
    PROVE  Cleared(t)'
<1>1. CASE Amends(t) \/ Adds(t)
  <2>1. CASE Amends(t)
    BY <2>1, ClearedNone DEF Amends, Begin, Typed, CallTyped, NoPress
  <2>2. CASE Adds(t)
    BY <2>2, ClearedNone DEF Adds, Begin, Typed, CallTyped, NoPress
  <2> QED BY <1>1, <2>1, <2>2
<1>2. CASE Makes(t)
  <2>1. press'[t].kind = "made"
    BY <1>2 DEF Makes, Typed, CallTyped, NoPress
  <2> QED BY <2>1, ClearedNone
<1>3. CASE Puts(t) \/ Removes(t)
  <2>1. press[t].kind \in {"edit", "unfile"}
    BY <1>3 DEF Puts, Removes, Orderly, Single, Nothing
  <2>2. /\ press'[t].kind = press[t].kind /\ press'[t].view = press[t].view
        /\ press'[t].place = press[t].place /\ sure' = sure
    BY <1>3 DEF Puts, Removes, ownerVars, Typed, CallTyped, PressesOf
  <2> QED BY <2>1, <2>2 DEF Cleared, NoneIn
<1>4. CASE PressEnds(t)
  <2>1. /\ press[t].kind \in {"edit", "unfile"} /\ press[t].writes = Nothing /\ press[t].drops = {}
        /\ press[t] # NoPress /\ fresh[t] /\ repo' = repo /\ sure' = sure
    BY <1>4, NoPressIs DEF PressEnds, Written, repoVars, Orderly, Ready
  <2>2. CASE press[t].kind = "edit"
    <3>1. press'[t] = NoPress
      BY <1>4, <2>2, AtTab DEF PressEnds
    <3> QED BY <3>1, NoPressIs, ClearedNone
  <2>3. CASE press[t].kind = "unfile"
    <3>1. press'[t].kind = "drop" /\ press'[t].place = press[t].place
      BY <1>4, <2>3 DEF PressEnds, Typed, CallTyped, NoPress
    <3>2. sure => press[t].view = repo
      <4>1. But(Over(Nothing, repo), {}) = repo
        BY HeldMaps, OverNothing
      <4>2. sure => Amending(t)
        BY <2>1, WhichSound DEF Accounted
      <4> QED BY <2>1, <4>1, <4>2 DEF Amending
    <3> QED BY <2>1, <2>3, <3>1, <3>2 DEF Cleared, NoneIn
  <2> QED BY <2>1, <2>2, <2>3
<1>5. CASE AddEnds(t) \/ DropsPlace(t)
  <2>1. press'[t] = NoPress
    BY <1>5, AtTab DEF AddEnds, DropsPlace, Done
  <2> QED BY <2>1, NoPressIs, ClearedNone
<1>6. CASE PressFails(t)
  <2>1. ~sure'
    BY <1>6 DEF PressFails
  <2> QED BY <2>1 DEF Cleared
<1>7. ~Turns(t)
  BY DEF Turns, Orderly, Single
<1> QED BY <1>1, <1>2, <1>3, <1>4, <1>5, <1>6, <1>7, ClearedUnfiles DEF Pressing

\* No call of an import is out while a press is under way.
LEMMA ClearedImporting ==
    ASSUME Typed, NEW t \in Tabs, Tame(t), Orderly(t), Cleared(t), Importing(t)
    PROVE  Cleared(t)'
<1>1. press' = press /\ (sure' => sure)
  <2>1. CASE Imports(t)
    BY <2>1 DEF Imports
  <2>2. CASE Drains(t)
    BY <2>2 DEF Drains, ownerVars
  <2>7. CASE Denies(t)
    BY <2>7 DEF Denies, ownerVars
  <2>3. CASE Sheds(t)
    BY <2>3 DEF Sheds
  <2>4. CASE Lands(t)
    BY <2>4 DEF Lands, ownerVars
  <2>5. CASE Hears(t)
    BY <2>5 DEF Hears, ownerVars
  <2>6. CASE Relists(t)
    BY <2>6 DEF Relists
  <2> QED BY <2>1, <2>2, <2>3, <2>4, <2>5, <2>6, <2>7 DEF Importing
<1>2. CASE Lands(t)
  <2>1. press[t] = NoPress
    BY <1>2, NotOutIs DEF Lands, Orderly, Single
  <2> QED BY <1>1, <2>1, NoPressIs, ClearedNone
<1>3. CASE Imports(t) \/ Drains(t) \/ Sheds(t) \/ Denies(t) \/ Hears(t) \/ Relists(t)
  <2>1. repo' = repo
    BY <1>3 DEF Imports, Drains, Sheds, Denies, Hears, Relists, repoVars
  <2> QED BY <1>1, <2>1, ClearedSame
<1> QED BY <1>2, <1>3 DEF Importing

\* A container that is on its way out is one nothing waits for: a press to delete it
\* met no such part, and no such part lands while it is out.
LEMMA UnawaitedNext ==
    ASSUME Typed, NEW t \in Tabs, Tame(t), Orderly(t), Unawaited(t), Viewing(t) \/ Pressing(t) \/ Importing(t)
    PROVE  Unawaited(t)'
<1>1. NoPress.place = Unfiled /\ Unfiled \notin Places
  BY PlaceAssumption DEF NoPress
<1>2. ASSUME press'[t].place = press[t].place, parts' = parts PROVE Unawaited(t)'
  BY <1>2 DEF Unawaited, Awaits
<1>3. ASSUME press'[t].place = Unfiled PROVE Unawaited(t)'
  BY <1>1, <1>3 DEF Unawaited
<1>4. CASE Closes(t)
  <2>1. press'[t] = NoPress
    BY <1>4, AtTab DEF Closes
  <2> QED BY <1>1, <1>3, <2>1
<1>5. CASE Opens(t) \/ Paints(t) \/ ReadsPage(t) \/ ReadEnds(t) \/ Remembers(t) \/ Attaches(t)
  <2>1. press' = press /\ parts' = parts
    BY <1>5 DEF Opens, Paints, ReadsPage, ReadEnds, Remembers, Attaches, repoVars
  <2> QED BY <1>2, <2>1
<1>6. CASE Amends(t) \/ Adds(t) \/ Makes(t) \/ AddEnds(t)
  <2>1. CASE Amends(t)
    BY <1>3, <2>1 DEF Amends, Begin, Typed, CallTyped, NoPress
  <2>2. CASE Adds(t)
    BY <1>3, <2>2 DEF Adds, Begin, Typed, CallTyped, NoPress
  <2>3. CASE Makes(t)
    BY <1>3, <2>3 DEF Makes, Typed, CallTyped, NoPress
  <2>4. CASE AddEnds(t)
    BY <1>3, <2>4 DEF AddEnds, Done, Typed, CallTyped, NoPress
  <2> QED BY <1>6, <2>1, <2>2, <2>3, <2>4
<1>7. CASE Unfiles(t)
  <2>1. PICK place \in places : /\ \E keys : Straying(Against(t, keys) \cup When("waits", Awaits(parts, place)))
                                /\ press'[t].place = place
    <3>1. PICK place \in places : \E change \in Emptied(held[t], place) :
                /\ Straying(Against(t, DOMAIN change.writes \cup change.drops)
                            \cup When("waits", Awaits(parts, place)))
                /\ Begin(t, [NoPress EXCEPT
                       !.kind = IF change = NoChange(held[t]) THEN "drop" ELSE "unfile",
                       !.writes = change.writes, !.drops = change.drops,
                       !.view = change.view, !.place = place])
      BY <1>7 DEF Unfiles
    <3>2. PICK change \in Emptied(held[t], place) :
                /\ Straying(Against(t, DOMAIN change.writes \cup change.drops)
                            \cup When("waits", Awaits(parts, place)))
                /\ Begin(t, [NoPress EXCEPT
                       !.kind = IF change = NoChange(held[t]) THEN "drop" ELSE "unfile",
                       !.writes = change.writes, !.drops = change.drops,
                       !.view = change.view, !.place = place])
      BY <3>1
    <3>3. press'[t].place = place
      BY <3>2 DEF Begin, Typed, CallTyped, NoPress
    <3> QED BY <3>2, <3>3
  <2>2. When("waits", Awaits(parts, place)) = {}
    BY <2>1, MeetsNothing DEF Tame
  <2>3. ~Awaits(parts, place) /\ parts' = parts
    BY <1>7, <2>2 DEF When, Unfiles, repoVars
  <2> QED BY <2>1, <2>3 DEF Unawaited, Awaits
<1>8. CASE Puts(t) \/ Removes(t)
  <2>1. press'[t].place = press[t].place /\ parts' = parts
    BY <1>8 DEF Puts, Removes, Typed, CallTyped, PressesOf
  <2> QED BY <1>2, <2>1
<1>9. CASE PressEnds(t) \/ PressFails(t)
  <2>1. parts' = parts
    BY <1>9 DEF PressEnds, PressFails, repoVars
  <2>2. press'[t] = NoPress \/ press'[t] = [NoPress EXCEPT !.kind = "drop", !.place = press[t].place]
    BY <1>9 DEF PressEnds, PressFails, Typed, CallTyped
  <2>3. press'[t].place \in {Unfiled, press[t].place}
    BY <1>1, <2>2 DEF NoPress
  <2> QED BY <1>2, <1>3, <2>1, <2>3
<1>10. CASE DropsPlace(t)
  <2>1. press'[t] = NoPress
    BY <1>10, AtTab DEF DropsPlace, Done
  <2> QED BY <1>1, <1>3, <2>1
<1>11. CASE Imports(t)
  <2>1. PICK some : /\ Straying(When("waits", \E place \in Places :
                                       Removed(place) /\ Awaits(Restrict(File, some), place)))
                    /\ parts' = Over(Restrict(File, some), parts)
    BY <1>11 DEF Imports
  <2>2. When("waits", \E place \in Places : Removed(place) /\ Awaits(Restrict(File, some), place)) = {}
    BY <2>1, MeetsNothing DEF Tame
  <2>3. ~\E place \in Places : Removed(place) /\ Awaits(Restrict(File, some), place)
    BY <2>2 DEF When
  <2>4. press[t].place \in Places => ~Awaits(Restrict(File, some), press[t].place)
    BY <2>3 DEF Removed
  <2>5. press' = press
    BY <1>11 DEF Imports
  <2> QED BY <2>1, <2>4, <2>5 DEF Unawaited, Awaits, Over
<1>12. CASE Lands(t)
  <2>1. press[t] = NoPress /\ press' = press
    BY <1>12, NotOutIs DEF Lands, Orderly, Single
  <2> QED BY <1>1, <1>3, <2>1
<1>13. CASE Drains(t) \/ Sheds(t) \/ Denies(t) \/ Hears(t) \/ Relists(t)
  <2>1. press' = press /\ parts' = parts
    BY <1>13 DEF Drains, Sheds, Denies, Hears, Relists, repoVars
  <2> QED BY <1>2, <2>1
<1>14. ~Turns(t)
  BY DEF Turns, Orderly, Single
<1> QED BY <1>4, <1>5, <1>6, <1>7, <1>8, <1>9, <1>10, <1>11, <1>12, <1>13, <1>14
        DEF Viewing, Pressing, Importing

\* Every step of a tab alone keeps both.
Emptying(t) == ~astray => Cleared(t) /\ Unawaited(t)

LEMMA ClearedNext ==
    ASSUME NEW t \in Tabs, Alone(t), Minded(t), Emptying(t), [Next]_vars
    PROVE  Emptying(t)'
<1>1. SUFFICES ASSUME ~astray' PROVE Cleared(t)' /\ Unawaited(t)'
  BY DEF Emptying
<1>2. CASE UNCHANGED vars
  <2>1. Cleared(t) /\ Unawaited(t) /\ press' = press /\ repo' = repo /\ sure' = sure /\ parts' = parts
    BY <1>1, <1>2 DEF Emptying, vars, repoVars, ownerVars
  <2> QED BY <2>1, ClearedSame DEF Unawaited, Awaits
<1>3. CASE Next /\ Tame(t)
  <2>1. Typed /\ Orderly(t) /\ Accounted(t) /\ Cleared(t) /\ Unawaited(t)
    BY <1>3 DEF Minded, Emptying, Tame
  <2>2. Viewing(t) \/ Pressing(t) \/ Importing(t)
    BY <1>1, <1>3, <2>1, StepIs
  <2> QED BY <1>3, <2>1, <2>2, ClearedViewing, ClearedPressing, ClearedImporting, UnawaitedNext
<1>4. CASE Closes(t) /\ astray
  <2>1. press'[t] = NoPress
    BY <1>4, AtTab DEF Minded, Closes
  <2>2. NoPress.place \notin Places
    BY PlaceAssumption DEF NoPress
  <2> QED BY <2>1, <2>2, NoPressIs, ClearedNone DEF Unawaited
<1> QED BY <1>1, <1>2, <1>3, <1>4, StepIs DEF Minded

(***************************************************************************)
(* A tab alone leaves no record that names the container it deletes, and no *)
(* copy still to land, unless a press failed or a step went astray since it *)
(* last read everything: the stacks of a place are amended one after        *)
(* another, each against the view the last one leaves behind, and merged    *)
(* ones not again (cards.ts, Destination.tsx).                              *)
(***************************************************************************)
THEOREM OneTabFiles == ASSUME NEW t \in Tabs, Alone(t) PROVE Spec => Filed
<1>1. Init => Minded(t) /\ Emptying(t)
  <2> SUFFICES ASSUME Init PROVE Emptying(t)
    BY MindedInit
  <2>1. press[t] = NoPress /\ NoPress.place \notin Places
    BY PlaceAssumption DEF Init, NoPress
  <2> QED BY <2>1, NoPressIs DEF Emptying, Cleared, Unawaited
<1>2. Minded(t) /\ Emptying(t) /\ [Next]_vars => Minded(t)' /\ Emptying(t)'
  BY MindedNext, ClearedNext
<1>3. Minded(t) /\ Emptying(t) /\ [Next]_vars => [Known /\ places' # places => ~Unhoused]_vars
  <2> SUFFICES ASSUME Minded(t), Emptying(t), Next, Known, places' # places PROVE ~Unhoused
    BY DEF vars, repoVars
  <2>1. Viewing(t) \/ Pressing(t) \/ Importing(t)
    BY DEF Next, Alone
  <2>2. DropsPlace(t)
    BY <2>1 DEF Viewing, Opens, Paints, ReadsPage, ReadEnds, Remembers, Attaches, Closes,
                Pressing, Turns, Amends, Adds, Unfiles, Makes, Puts, Removes, PressEnds, AddEnds, PressFails,
                Importing, Imports, Drains, Sheds, Lands, Denies, Hears, Relists, repoVars
  <2>3. NoneIn(repo, press[t].place) /\ places' = places \ {press[t].place}
    BY <2>2 DEF DropsPlace, Emptying, Cleared, Known
  <2>4. places \in SUBSET Places /\ (press[t].place \in Places => ~Awaits(parts, press[t].place))
    BY DEF Minded, Typed, RepoTyped, Emptying, Unawaited, Known
  <2> QED BY <2>3, <2>4 DEF NoneIn, Unhoused
<1> QED BY <1>1, <1>2, <1>3, PTL DEF Spec, Filed

-----------------------------------------------------------------------------
(* Copies.                                                                 *)

Padded(view, m) == [k \in 1 .. m |-> IF k \in DOMAIN view THEN view[k].n ELSE 0]

\* The copies of a view are the sum of what each key there can be holds.
LEMMA CopiesPadded ==
    ASSUME NEW m \in Nat, NEW view \in Maps(m)
    PROVE  /\ IsFiniteSet(1 .. m) /\ Padded(view, m) \in [1 .. m -> Nat]
           /\ Copies(view) = SumFunction(Padded(view, m)) /\ Copies(view) \in Nat
<1> DEFINE G == [k \in DOMAIN view |-> view[k].n]
<1>1. IsFiniteSet(1 .. m)
  BY FS_Interval
<1>2. /\ DOMAIN view \in SUBSET (1 .. m)
      /\ \A k \in DOMAIN view : view[k].n \in Nat
  BY MapsAre, OwnedOnes
<1>3. Padded(view, m) \in [1 .. m -> Nat] /\ G \in [DOMAIN view -> Nat]
  BY <1>2 DEF Padded
<1>4. /\ \A k \in (1 .. m) \ DOMAIN view : Padded(view, m)[k] = 0
      /\ \A k \in DOMAIN view : G[k] = Padded(view, m)[k]
  BY <1>2 DEF Padded
<1>5. Copies(view) = SumFunction(G)
  BY DEF Copies
<1> DEFINE F == Padded(view, m)  R == DOMAIN view  S == 1 .. m
<1> HIDE DEF G, F, R, S
<1>6. SumFunction(F) = SumFunction(G)
  <2>1. IsFiniteSet(S) /\ F \in [S -> Nat] /\ R \in SUBSET S /\ G \in [R -> Nat]
    BY <1>1, <1>2, <1>3 DEF F, R, S
  <2>2. (\A x \in S \ R : F[x] = 0) /\ (\A x \in R : G[x] = F[x])
    BY <1>4 DEF F, R, S
  <2> QED BY <2>1, <2>2, SumZeros
<1>7. SumFunction(F) \in Nat
  <2>1. IsFiniteSet(S) /\ F \in [S -> Nat]
    BY <1>1, <1>3 DEF F, S
  <2> QED BY <2>1, SumType
<1> QED BY <1>1, <1>3, <1>5, <1>6, <1>7 DEF F

\* Four views: two have together at most the copies the two others have when key
\* by key they do.
LEMMA CopiesLeq ==
    ASSUME NEW m \in Nat, NEW a \in Maps(m), NEW b \in Maps(m), NEW c \in Maps(m), NEW d \in Maps(m),
           \A k \in 1 .. m : Padded(a, m)[k] + Padded(b, m)[k] <= Padded(c, m)[k] + Padded(d, m)[k]
    PROVE  Copies(a) + Copies(b) <= Copies(c) + Copies(d)
<1>1. /\ IsFiniteSet(1 .. m)
      /\ Padded(a, m) \in [1 .. m -> Nat] /\ Padded(b, m) \in [1 .. m -> Nat]
      /\ Padded(c, m) \in [1 .. m -> Nat] /\ Padded(d, m) \in [1 .. m -> Nat]
      /\ Copies(a) = SumFunction(Padded(a, m)) /\ Copies(b) = SumFunction(Padded(b, m))
      /\ Copies(c) = SumFunction(Padded(c, m)) /\ Copies(d) = SumFunction(Padded(d, m))
  BY CopiesPadded
<1> QED BY <1>1, SumLeq

\* A view that holds no less of any record has no fewer copies.
LEMMA CopiesLess ==
    ASSUME NEW m \in Nat, NEW some \in Maps(m), NEW view \in Maps(m),
           \A k \in DOMAIN some : k \in DOMAIN view /\ some[k].n <= view[k].n
    PROVE  Copies(some) <= Copies(view)
<1>1. Nothing \in Maps(m) /\ DOMAIN Nothing = {}
  BY NothingMap
<1>2. /\ \A k \in DOMAIN some : some[k].n \in Nat
      /\ \A k \in DOMAIN view : view[k].n \in Nat
  BY MapsAre, OwnedOnes
<1>3. \A k \in 1 .. m : Padded(some, m)[k] + Padded(Nothing, m)[k] <= Padded(view, m)[k] + Padded(Nothing, m)[k]
  BY <1>1, <1>2 DEF Padded
<1>4. Copies(some) + Copies(Nothing) <= Copies(view) + Copies(Nothing)
  BY <1>1, <1>3, CopiesLeq
<1>5. Copies(some) \in Nat /\ Copies(view) \in Nat /\ Copies(Nothing) \in Nat
  BY <1>1, CopiesPadded
<1> QED BY <1>4, <1>5

\* One record of a view, and the others.
LEMMA CopiesBut ==
    ASSUME NEW m \in Nat, NEW view \in Maps(m), NEW k \in DOMAIN view
    PROVE  /\ Copies(view) = view[k].n + Copies(But(view, {k})) /\ Copies(But(view, {k})) \in Nat
           /\ view[k].n \in Nat
<1> DEFINE F == [j \in DOMAIN view |-> view[j].n]
<1>1. IsFiniteSet(DOMAIN view)
  BY MapFinite
<1>2. F \in [DOMAIN view -> Nat] /\ F[k] = view[k].n /\ view[k].n \in Nat
  BY MapsAre, OwnedOnes
<1>3. [j \in DOMAIN But(view, {k}) |-> But(view, {k})[j].n] = [j \in DOMAIN view \ {k} |-> F[j]]
  <2> DEFINE w == But(view, {k})
  <2>1. DOMAIN w = DOMAIN view \ {k} /\ \A j \in DOMAIN view \ {k} : w[j] = view[j]
    BY ButAt
  <2> HIDE DEF w
  <2>2. \A j \in DOMAIN view \ {k} : w[j].n = F[j]
    BY <2>1
  <2>3. [j \in DOMAIN w |-> w[j].n] = [j \in DOMAIN view \ {k} |-> F[j]]
    BY <2>1, <2>2
  <2> QED BY <2>3 DEF w
<1>4. But(view, {k}) \in Maps(m)
  BY ButMap
<1>5. Copies(But(view, {k})) \in Nat
  BY <1>4, CopiesPadded
<1>6. Copies(view) = SumFunction(F) /\ Copies(But(view, {k})) = SumFunction([j \in DOMAIN view \ {k} |-> F[j]])
  BY <1>3 DEF Copies
<1> HIDE DEF F
<1>7. SumFunction(F) = F[k] + SumFunction([j \in DOMAIN view \ {k} |-> F[j]])
  BY <1>1, <1>2, SumSplit
<1> QED BY <1>2, <1>5, <1>6, <1>7

\* A record the view has none in the place of.
LEMMA CopiesNew ==
    ASSUME NEW m \in Nat, NEW view \in Maps(m), NEW k \in (1 .. m) \ DOMAIN view, NEW one \in Owned
    PROVE  Copies(Over(Only(k, one), view)) = one.n + Copies(view)
<1> DEFINE new == Over(Only(k, one), view)
<1>1. new \in Maps(m) /\ k \in DOMAIN new /\ new[k] = one
  BY OnlyMap, OverMap DEF Over, Only
<1>2. But(new, {k}) = view
  <2>1. But(new, {k}) \in Maps(m)
    BY <1>1, ButMap
  <2>2. DOMAIN But(new, {k}) = DOMAIN view /\ \A j \in DOMAIN view : But(new, {k})[j] = view[j]
    <3>1. DOMAIN new = DOMAIN view \cup {k} /\ k \notin DOMAIN view /\ \A j \in DOMAIN view : new[j] = view[j]
      BY DEF Over, Only
    <3>2. /\ DOMAIN But(new, {k}) = DOMAIN new \ {k}
          /\ \A j \in DOMAIN new \ {k} : But(new, {k})[j] = new[j]
      BY ButAt
    <3> HIDE DEF new
    <3> QED BY <3>1, <3>2
  <2> HIDE DEF new
  <2> QED BY <2>1, <2>2, MapsEqual
<1> HIDE DEF new
<1>3. Copies(new) = new[k].n + Copies(But(new, {k}))
  BY <1>1, CopiesBut
<1> QED BY <1>1, <1>2, <1>3 DEF new

\* The copies of a view are the copies it has of each identity.
LEMMA CopiesIds ==
    ASSUME NEW m \in Nat, NEW view \in Maps(m)
    PROVE  Copies(view) = SumFunction([id \in Ids |-> Count(view, id)])
<1> DEFINE F == [k \in DOMAIN view |-> [id \in Ids |-> IF view[k].id = id THEN view[k].n ELSE 0]]
<1>1. IsFiniteSet(DOMAIN view) /\ IsFiniteSet(Ids)
  BY MapFinite, FiniteIds
<1>2. \A k \in DOMAIN view : view[k].n \in Nat /\ view[k].id \in Ids
  BY MapsAre, OwnedOnes
<1>3. F \in [DOMAIN view -> [Ids -> Nat]]
  BY <1>2
<1>4. ASSUME NEW k \in DOMAIN view PROVE SumFunction([id \in Ids |-> F[k][id]]) = view[k].n
  <2> DEFINE row == [id \in Ids |-> F[k][id]]
             zero == [id \in Ids |-> 0]
  <2>1. row \in [Ids -> Nat] /\ zero \in [Ids -> Nat]
    BY <1>3
  <2>2. /\ \A id \in Ids \ {view[k].id} : row[id] = zero[id]
        /\ row[view[k].id] = view[k].n /\ zero[view[k].id] = 0
        /\ \A id \in Ids : zero[id] = 0
    BY <1>2
  <2> HIDE DEF F, row, zero
  <2>3. SumFunction(row) + zero[view[k].id] = SumFunction(zero) + row[view[k].id]
    BY <1>1, <1>2, <2>1, <2>2, SumGrown
  <2>4. SumFunction(zero) = 0
    BY <1>1, <2>1, <2>2, SumSame
  <2>5. SumFunction(row) \in Nat
    BY <1>1, <2>1, SumType
  <2>6. SumFunction(row) = view[k].n
    BY <1>2, <2>2, <2>3, <2>4, <2>5
  <2> QED BY <2>6 DEF row
<1>5. RowSums(F, DOMAIN view, Ids) = [k \in DOMAIN view |-> view[k].n]
  BY <1>4 DEF RowSums
<1>6. ColumnSums(F, DOMAIN view, Ids) = [id \in Ids |-> Count(view, id)]
  <2>1. ASSUME NEW id \in Ids
        PROVE  [k \in DOMAIN view |-> F[k][id]] = [k \in DOMAIN view |-> IF view[k].id = id THEN view[k].n ELSE 0]
    OBVIOUS
  <2> QED BY <2>1 DEF ColumnSums, Count
<1> HIDE DEF F
<1>7. SumFunction(RowSums(F, DOMAIN view, Ids)) = SumFunction(ColumnSums(F, DOMAIN view, Ids))
  BY <1>1, <1>3, SumSwap
<1> QED BY <1>5, <1>6, <1>7 DEF Copies

\* What waits in all.
Waits(listing) == SumFunction([p \in DOMAIN listing |-> AllOf(listing[p])])

\* So what waits is counted by identity as well as by part.
LEMMA WaitsIds ==
    ASSUME NEW some \in Listings
    PROVE  /\ Waits(some) = SumFunction([id \in Ids |-> Waiting(some, id)]) /\ Waits(some) \in Nat
<1> DEFINE F == [p \in DOMAIN some |-> [id \in Ids |-> some[p][id]]]
<1>1. IsFiniteSet(DOMAIN some) /\ IsFiniteSet(Ids)
  BY FiniteIds, FiniteAssumption, FS_Subset, ListingsAre
<1>2. \A p \in DOMAIN some : some[p] \in [Ids -> Nat]
  BY ListingsAre DEF Entries
<1>3. F \in [DOMAIN some -> [Ids -> Nat]]
  BY <1>2
<1>4. RowSums(F, DOMAIN some, Ids) = [p \in DOMAIN some |-> AllOf(some[p])]
  <2>1. ASSUME NEW p \in DOMAIN some PROVE [id \in Ids |-> F[p][id]] = some[p]
    BY <1>2
  <2> QED BY <2>1 DEF RowSums, AllOf
<1>5. ColumnSums(F, DOMAIN some, Ids) = [id \in Ids |-> Waiting(some, id)]
  <2>1. ASSUME NEW id \in Ids PROVE [p \in DOMAIN some |-> F[p][id]] = [p \in DOMAIN some |-> some[p][id]]
    OBVIOUS
  <2> QED BY <2>1 DEF ColumnSums, Waiting
<1> HIDE DEF F
<1>6. SumFunction(RowSums(F, DOMAIN some, Ids)) = SumFunction(ColumnSums(F, DOMAIN some, Ids))
  BY <1>1, <1>3, SumSwap
<1>7. [id \in Ids |-> Waiting(some, id)] \in [Ids -> Nat]
  BY WaitingType
<1> QED BY <1>1, <1>4, <1>5, <1>6, <1>7, SumType DEF Waits

-----------------------------------------------------------------------------
(* What two views have in common.                                          *)

Low(a, b) == IF a <= b THEN a ELSE b
Common(some, view) ==
    [k \in DOMAIN some \cap DOMAIN view |-> [id |-> some[k].id, n |-> Low(some[k].n, view[k].n)]]
After(change, view) == But(Over(change.writes, view), change.drops)

\* It is a view, of the lower count of each record both have.
LEMMA CommonMap ==
    ASSUME NEW m \in Nat, NEW some \in Maps(m), NEW view \in Maps(m)
    PROVE  /\ Common(some, view) \in Maps(m) /\ DOMAIN Common(some, view) = DOMAIN some \cap DOMAIN view
           /\ \A k \in DOMAIN some \cap DOMAIN view : Common(some, view)[k].n = Low(some[k].n, view[k].n)
<1>1. /\ DOMAIN Common(some, view) = DOMAIN some \cap DOMAIN view
      /\ Common(some, view) = [k \in DOMAIN Common(some, view) |-> Common(some, view)[k]]
      /\ \A k \in DOMAIN some \cap DOMAIN view :
            Common(some, view)[k] = [id |-> some[k].id, n |-> Low(some[k].n, view[k].n)]
  BY DEF Common
<1>2. ASSUME NEW k \in DOMAIN some \cap DOMAIN view
      PROVE  [id |-> some[k].id, n |-> Low(some[k].n, view[k].n)] \in Owned
  <2>1. some[k].id \in Ids /\ some[k].n \in Nat \ {0} /\ view[k].n \in Nat \ {0}
    BY MapsAre, OwnedOnes
  <2> QED BY <2>1, OwnedOnes DEF Low
<1>3. DOMAIN some \subseteq 1 .. m
  BY MapsAre
<1>4. \A k \in DOMAIN Common(some, view) : Common(some, view)[k] \in Owned
  BY <1>1, <1>2
<1> QED BY <1>1, <1>3, <1>4, MapsAre

\* Key by key, where a key the view lacks counts none.
LEMMA PaddedCommon ==
    ASSUME NEW m \in Nat, NEW some \in Maps(m), NEW view \in Maps(m), NEW k \in 1 .. m
    PROVE  /\ Padded(Common(some, view), m)[k] = Low(Padded(some, m)[k], Padded(view, m)[k])
           /\ Padded(some, m)[k] \in Nat /\ Padded(view, m)[k] \in Nat
<1>1. /\ Common(some, view) \in Maps(m) /\ DOMAIN Common(some, view) = DOMAIN some \cap DOMAIN view
      /\ \A j \in DOMAIN some \cap DOMAIN view : Common(some, view)[j].n = Low(some[j].n, view[j].n)
  BY CommonMap
<1>2. Padded(some, m) \in [1 .. m -> Nat] /\ Padded(view, m) \in [1 .. m -> Nat]
  BY CopiesPadded
<1>3. /\ Padded(Common(some, view), m)[k]
            = IF k \in DOMAIN some /\ k \in DOMAIN view THEN Low(some[k].n, view[k].n) ELSE 0
      /\ Padded(some, m)[k] = IF k \in DOMAIN some THEN some[k].n ELSE 0
      /\ Padded(view, m)[k] = IF k \in DOMAIN view THEN view[k].n ELSE 0
  BY <1>1 DEF Padded
<1>4. Padded(some, m)[k] \in Nat /\ Padded(view, m)[k] \in Nat
  BY <1>2
<1> QED BY <1>3, <1>4 DEF Low

\* What a change makes of a view, key by key.
LEMMA PaddedAfter ==
    ASSUME NEW m \in Nat, NEW change, change.writes \in Maps(m), NEW view \in Maps(m), NEW k \in 1 .. m
    PROVE  /\ After(change, view) \in Maps(m)
           /\ Padded(After(change, view), m)[k]
                  = IF k \in change.drops THEN 0
                    ELSE IF k \in DOMAIN change.writes THEN Padded(change.writes, m)[k]
                    ELSE Padded(view, m)[k]
<1> DEFINE w == change.writes  d == change.drops  v == After(change, view)
<1>1. v \in Maps(m)
  BY OverMap, ButMap DEF After
<1>2. /\ DOMAIN v = (DOMAIN w \cup DOMAIN view) \ d
      /\ \A j \in DOMAIN v : v[j] = IF j \in DOMAIN w THEN w[j] ELSE view[j]
  BY DEF After, But, Over, Restrict
<1> HIDE DEF v, w, d
<1>3. /\ Padded(v, m)[k] = IF k \in DOMAIN v THEN v[k].n ELSE 0
      /\ Padded(w, m)[k] = IF k \in DOMAIN w THEN w[k].n ELSE 0
      /\ Padded(view, m)[k] = IF k \in DOMAIN view THEN view[k].n ELSE 0
  BY DEF Padded
<1>4. Padded(v, m)[k] = IF k \in d THEN 0
                        ELSE IF k \in DOMAIN w THEN Padded(w, m)[k]
                        ELSE Padded(view, m)[k]
  BY <1>2, <1>3
<1> QED BY <1>1, <1>4 DEF v, w, d

\* A change that lands in the repository as it was computed from a view leaves
\* the two apart by no more copies than they were.
LEMMA CommonAfter ==
    ASSUME NEW m \in Nat, NEW change, change.writes \in Maps(m), NEW view \in Maps(m), NEW found \in Maps(m)
    PROVE  /\ After(change, view) \in Maps(m) /\ After(change, found) \in Maps(m)
           /\ Copies(Common(view, found)) + Copies(After(change, view))
                  <= Copies(Common(After(change, view), After(change, found))) + Copies(view)
<1> DEFINE v == After(change, view)  r == After(change, found)
           a == Common(view, found)  c == Common(v, r)
<1>1. v \in Maps(m) /\ r \in Maps(m)
  BY OverMap, ButMap DEF After
<1>2. a \in Maps(m) /\ c \in Maps(m)
  BY <1>1, CommonMap
<1>3. ASSUME NEW k \in 1 .. m
      PROVE  Padded(a, m)[k] + Padded(v, m)[k] <= Padded(c, m)[k] + Padded(view, m)[k]
  <2>1. /\ Padded(a, m)[k] = Low(Padded(view, m)[k], Padded(found, m)[k])
        /\ Padded(view, m)[k] \in Nat /\ Padded(found, m)[k] \in Nat
    BY PaddedCommon
  <2>2. /\ Padded(c, m)[k] = Low(Padded(v, m)[k], Padded(r, m)[k])
        /\ Padded(v, m)[k] \in Nat /\ Padded(r, m)[k] \in Nat
    BY <1>1, PaddedCommon
  <2>3. \/ Padded(v, m)[k] = Padded(r, m)[k]
        \/ Padded(v, m)[k] = Padded(view, m)[k] /\ Padded(r, m)[k] = Padded(found, m)[k]
    <3>1. /\ Padded(v, m)[k] = IF k \in change.drops THEN 0
                               ELSE IF k \in DOMAIN change.writes THEN Padded(change.writes, m)[k]
                               ELSE Padded(view, m)[k]
          /\ Padded(r, m)[k] = IF k \in change.drops THEN 0
                               ELSE IF k \in DOMAIN change.writes THEN Padded(change.writes, m)[k]
                               ELSE Padded(found, m)[k]
      BY PaddedAfter
    <3> HIDE DEF v, r
    <3> QED BY <3>1
  <2> HIDE DEF v, r, a, c
  <2>4. CASE Padded(v, m)[k] = Padded(r, m)[k]
    BY <2>1, <2>2, <2>4 DEF Low
  <2>5. CASE Padded(v, m)[k] = Padded(view, m)[k] /\ Padded(r, m)[k] = Padded(found, m)[k]
    BY <2>1, <2>2, <2>5 DEF Low
  <2> QED BY <2>3, <2>4, <2>5
<1> HIDE DEF v, r, a, c
<1>4. Copies(a) + Copies(v) <= Copies(c) + Copies(view)
  BY <1>1, <1>2, <1>3, CopiesLeq
<1> QED BY <1>1, <1>4 DEF v, r, a, c

\* A view that is lower than another by some copies has at most that many fewer
\* in common with the repository.
LEMMA CommonLower ==
    ASSUME NEW m \in Nat, NEW view \in Maps(m), NEW other \in Maps(m), NEW found \in Maps(m)
    PROVE  /\ Common(view, other) \in Maps(m)
           /\ Copies(Common(view, found)) + Copies(Common(view, other))
                  <= Copies(Common(Common(view, other), found)) + Copies(view)
<1> DEFINE a == Common(view, found)  b == Common(view, other)  c == Common(b, found)
<1>1. a \in Maps(m) /\ b \in Maps(m)
  BY CommonMap
<1>2. c \in Maps(m)
  BY <1>1, CommonMap
<1>3. ASSUME NEW k \in 1 .. m
      PROVE  Padded(a, m)[k] + Padded(b, m)[k] <= Padded(c, m)[k] + Padded(view, m)[k]
  <2>1. /\ Padded(a, m)[k] = Low(Padded(view, m)[k], Padded(found, m)[k])
        /\ Padded(b, m)[k] = Low(Padded(view, m)[k], Padded(other, m)[k])
        /\ Padded(view, m)[k] \in Nat /\ Padded(found, m)[k] \in Nat /\ Padded(other, m)[k] \in Nat
    BY PaddedCommon
  <2> HIDE DEF a, b
  <2>2. Padded(c, m)[k] = Low(Padded(b, m)[k], Padded(found, m)[k])
    BY <1>1, PaddedCommon
  <2> HIDE DEF c
  <2> QED BY <2>1, <2>2 DEF Low
<1> HIDE DEF a, b, c
<1>4. Copies(a) + Copies(b) <= Copies(c) + Copies(view)
  BY <1>1, <1>2, <1>3, CopiesLeq
<1> QED BY <1>1, <1>4 DEF a, b, c

\* Two pairs of views, one with less in common at every key.
LEMMA CommonLess ==
    ASSUME NEW m \in Nat, NEW a \in Maps(m), NEW b \in Maps(m), NEW c \in Maps(m), NEW d \in Maps(m),
           \A k \in DOMAIN a \cap DOMAIN b : /\ k \in DOMAIN c /\ k \in DOMAIN d
                                             /\ Low(a[k].n, b[k].n) <= Low(c[k].n, d[k].n)
    PROVE  Copies(Common(a, b)) <= Copies(Common(c, d))
<1> DEFINE u == Common(a, b)  v == Common(c, d)
<1>1. /\ u \in Maps(m) /\ DOMAIN u = DOMAIN a \cap DOMAIN b
      /\ \A k \in DOMAIN a \cap DOMAIN b : u[k].n = Low(a[k].n, b[k].n)
  BY CommonMap
<1>2. /\ v \in Maps(m) /\ DOMAIN v = DOMAIN c \cap DOMAIN d
      /\ \A k \in DOMAIN c \cap DOMAIN d : v[k].n = Low(c[k].n, d[k].n)
  BY CommonMap
<1> HIDE DEF u, v
<1>3. \A k \in DOMAIN u : k \in DOMAIN v /\ u[k].n <= v[k].n
  BY <1>1, <1>2
<1>4. Copies(u) <= Copies(v)
  BY <1>1, <1>2, <1>3, CopiesLess
<1> QED BY <1>4 DEF u, v

\* A view has all of itself in common with itself, and no more than it has with
\* any other.
LEMMA CommonOne ==
    ASSUME NEW m \in Nat, NEW view \in Maps(m), NEW found \in Maps(m)
    PROVE  /\ Copies(Common(view, view)) = Copies(view)
           /\ Copies(Common(view, found)) <= Copies(found)
           /\ Copies(Common(view, found)) \in Nat /\ Copies(view) \in Nat
<1>1. /\ Common(view, view) \in Maps(m) /\ DOMAIN Common(view, view) = DOMAIN view
      /\ \A k \in DOMAIN view : Common(view, view)[k].n = Low(view[k].n, view[k].n)
  <2>1. /\ Common(view, view) \in Maps(m) /\ DOMAIN Common(view, view) = DOMAIN view \cap DOMAIN view
        /\ \A k \in DOMAIN view \cap DOMAIN view : Common(view, view)[k].n = Low(view[k].n, view[k].n)
    BY CommonMap
  <2>2. DOMAIN view \cap DOMAIN view = DOMAIN view
    OBVIOUS
  <2> QED BY <2>1, <2>2
<1>2. /\ Common(view, found) \in Maps(m) /\ DOMAIN Common(view, found) = DOMAIN view \cap DOMAIN found
      /\ \A k \in DOMAIN view \cap DOMAIN found : Common(view, found)[k].n = Low(view[k].n, found[k].n)
  BY CommonMap
<1>3. /\ \A k \in DOMAIN view : view[k].n \in Nat
      /\ \A k \in DOMAIN found : found[k].n \in Nat
  BY MapsAre, OwnedOnes
<1>4. \A k \in DOMAIN view : Common(view, view)[k].n = view[k].n
  BY <1>1, <1>3 DEF Low
<1>5. \A k \in DOMAIN Common(view, found) : k \in DOMAIN found /\ Common(view, found)[k].n <= found[k].n
  BY <1>2, <1>3 DEF Low
<1>6. Copies(Common(view, view)) = Copies(view)
  BY <1>1, <1>4 DEF Copies
<1>7. Copies(Common(view, found)) <= Copies(found)
  BY <1>2, <1>5, CopiesLess
<1>8. Copies(Common(view, found)) \in Nat /\ Copies(view) \in Nat
  BY <1>2, CopiesPadded
<1> QED BY <1>6, <1>7, <1>8

\* A stack that joined another: it is gone, and the other is not as it was.
Merges(after, before) ==
    DOMAIN after # DOMAIN before /\ after # Restrict(before, DOMAIN before \cap DOMAIN after)

\* To change a record changes the copies by what it changes in it.
LEMMA CopiesExcept ==
    ASSUME NEW m \in Nat, NEW view \in Maps(m), NEW k \in DOMAIN view, NEW one \in Owned
    PROVE  /\ [view EXCEPT ![k] = one] \in Maps(m)
           /\ Copies([view EXCEPT ![k] = one]) + view[k].n = Copies(view) + one.n
<1> DEFINE w == [view EXCEPT ![k] = one]
<1>1. w \in Maps(m)
  BY ExceptMap
<1>2. DOMAIN w = DOMAIN view /\ k \in DOMAIN w /\ w[k] = one /\ \A j \in DOMAIN view \ {k} : w[j] = view[j]
  OBVIOUS
<1> HIDE DEF w
<1>3. But(w, {k}) = But(view, {k})
  <2>1. But(w, {k}) \in Maps(m) /\ But(view, {k}) \in Maps(m)
    BY <1>1, ButMap
  <2>2. DOMAIN But(w, {k}) = DOMAIN w \ {k} /\ \A j \in DOMAIN w \ {k} : But(w, {k})[j] = w[j]
    BY ButAt
  <2>3. DOMAIN But(view, {k}) = DOMAIN view \ {k} /\ \A j \in DOMAIN view \ {k} : But(view, {k})[j] = view[j]
    BY ButAt
  <2>4. /\ DOMAIN But(w, {k}) = DOMAIN But(view, {k})
        /\ \A j \in DOMAIN But(w, {k}) : But(w, {k})[j] = But(view, {k})[j]
    BY <1>2, <2>2, <2>3
  <2> QED BY <2>1, <2>4, MapsEqual
<1>4. Copies(w) = w[k].n + Copies(But(w, {k}))
  BY <1>1, <1>2, CopiesBut
<1>5. Copies(view) = view[k].n + Copies(But(view, {k})) /\ Copies(But(view, {k})) \in Nat /\ view[k].n \in Nat
  BY CopiesBut
<1>6. one.n \in Nat
  BY OwnedOnes
<1>7. Copies(w) + view[k].n = Copies(view) + one.n
  BY <1>2, <1>3, <1>4, <1>5, <1>6
<1> QED BY <1>1, <1>7 DEF w

\* What an amendment does to the copies: those of the view change by what was
\* asked for, a merge or an amendment that asks for no fewer lowers no record,
\* and one that merges nothing leaves all the others as they are.
Weighs(change, view, k, next) ==
    /\ Copies(change.view) + view[k].n = Copies(view) + next.n
    /\ \A i, j \in change.drops : i = j
    /\ Merges(change.view, view) \/ view[k].n <= next.n
          => \A j \in DOMAIN change.writes : j \in DOMAIN view /\ view[j].n <= change.writes[j].n
    /\ ~Merges(change.view, view)
          => Copies(view) + Low(view[k].n, next.n) <= Copies(Common(view, change.view)) + view[k].n

\* So it is.
LEMMA ApplyWeighs ==
    ASSUME NEW m \in Nat, NEW view \in Maps(m), NEW k \in DOMAIN view, NEW next \in Stacked,
           NEW change \in Apply(view, k, next)
    PROVE  Weighs(change, view, k, next)
<1> DEFINE into == {j \in DOMAIN view \ {k} : Joins(view[j], next)}
<1>0. /\ view[k] \in Owned /\ view[k].n \in Nat \ {0} /\ next.n \in Nat
      /\ \A j \in DOMAIN view : view[j].n \in Nat \ {0}
      /\ Copies(view) \in Nat
  BY MapsAre, OwnedOnes, StackedOnes, CopiesPadded
<1>1. CASE next.n = 0
  <2> DEFINE v == But(view, {k})
  <2>1. change = [writes |-> Nothing, drops |-> {k}, view |-> v]
    BY <1>1 DEF Apply
  <2>2. v \in Maps(m) /\ DOMAIN v = DOMAIN view \ {k} /\ \A j \in DOMAIN view \ {k} : v[j] = view[j]
    BY ButMap, ButAt
  <2>3. v = Restrict(view, DOMAIN v)
    BY <2>2 DEF But
  <2>4. Copies(view) = view[k].n + Copies(v) /\ Copies(v) \in Nat
    BY CopiesBut
  <2> HIDE DEF v
  <2>5. /\ Common(view, v) \in Maps(m) /\ DOMAIN Common(view, v) = DOMAIN view \cap DOMAIN v
        /\ \A j \in DOMAIN view \cap DOMAIN v : Common(view, v)[j].n = Low(view[j].n, v[j].n)
    BY <2>2, CommonMap
  <2>6. \A j \in DOMAIN v : j \in DOMAIN Common(view, v) /\ v[j].n <= Common(view, v)[j].n
    BY <1>0, <2>2, <2>5 DEF Low
  <2>7. Copies(v) <= Copies(Common(view, v)) /\ Copies(Common(view, v)) \in Nat
    BY <2>2, <2>5, <2>6, CopiesLess, CopiesPadded
  <2>8. DOMAIN change.writes = {}
    BY <2>1, NothingMap
  <2>9. Low(view[k].n, next.n) = 0
    BY <1>0, <1>1 DEF Low
  <2>10. Copies(view) + Low(view[k].n, next.n) <= Copies(Common(view, v)) + view[k].n
    BY <1>0, <2>4, <2>7, <2>9
  <2>11. Copies(v) + view[k].n = Copies(view) + next.n
    BY <1>0, <1>1, <2>4
  <2> QED BY <2>1, <2>3, <2>8, <2>10, <2>11 DEF Weighs
<1>2. CASE next.n # 0 /\ into = {}
  <2> DEFINE v == [view EXCEPT ![k] = next]
  <2>1. change = [writes |-> Only(k, next), drops |-> {}, view |-> v]
    BY <1>2 DEF Apply
  <2>2. next \in Owned
    BY <1>2, StackedOnes
  <2>3. v \in Maps(m) /\ Copies(v) + view[k].n = Copies(view) + next.n
    BY <2>2, CopiesExcept
  <2>4. DOMAIN v = DOMAIN view /\ v[k] = next /\ \A j \in DOMAIN view \ {k} : v[j] = view[j]
    OBVIOUS
  <2> HIDE DEF v
  <2>5. /\ Common(view, v) \in Maps(m) /\ DOMAIN Common(view, v) = DOMAIN view
        /\ \A j \in DOMAIN view : Common(view, v)[j].n = Low(view[j].n, v[j].n)
    <3>1. /\ Common(view, v) \in Maps(m) /\ DOMAIN Common(view, v) = DOMAIN view \cap DOMAIN v
          /\ \A j \in DOMAIN view \cap DOMAIN v : Common(view, v)[j].n = Low(view[j].n, v[j].n)
      BY <2>3, CommonMap
    <3>2. DOMAIN view \cap DOMAIN v = DOMAIN view
      BY <2>4
    <3> QED BY <3>1, <3>2
  <2>6. Copies(v) \in Nat /\ Copies(Common(view, v)) \in Nat
    BY <2>3, <2>5, CopiesPadded
  <2>7. Copies(view) + Low(view[k].n, next.n) <= Copies(Common(view, v)) + view[k].n
    <3>1. CASE view[k].n <= next.n
      <4>1. \A j \in DOMAIN view : j \in DOMAIN Common(view, v) /\ view[j].n <= Common(view, v)[j].n
        BY <1>0, <2>4, <2>5, <3>1 DEF Low
      <4>2. Copies(view) <= Copies(Common(view, v))
        BY <2>5, <4>1, CopiesLess
      <4> QED BY <1>0, <2>6, <3>1, <4>2 DEF Low
    <3>2. CASE ~(view[k].n <= next.n)
      <4>1. \A j \in DOMAIN v : j \in DOMAIN Common(view, v) /\ v[j].n <= Common(view, v)[j].n
        BY <1>0, <2>4, <2>5, <3>2 DEF Low
      <4>2. Copies(v) <= Copies(Common(view, v))
        BY <2>3, <2>5, <4>1, CopiesLess
      <4> QED BY <1>0, <2>3, <2>6, <3>2, <4>2 DEF Low
    <3> QED BY <3>1, <3>2
  <2>8. DOMAIN change.writes = {k} /\ change.writes[k] = next
    BY <2>1, OnlyAt
  <2>9. ~Merges(v, view)
    BY <2>4 DEF Merges
  <2> QED BY <1>0, <2>1, <2>3, <2>7, <2>8, <2>9 DEF Weighs
<1>3. CASE next.n # 0 /\ into # {}
  <2>1. PICK j \in into :
            change = [writes |-> Only(j, Merge(view[j], next)), drops |-> {k},
                      view |-> But([view EXCEPT ![j] = Merge(@, next)], {k})]
    BY <1>3 DEF Apply
  <2>2. j \in DOMAIN view /\ j # k /\ view[j] \in Owned
    BY MapsAre
  <2> DEFINE one == Merge(view[j], next)
             w == [view EXCEPT ![j] = one]
             v == But(w, {k})
  <2>3. one \in Owned /\ one.n = view[j].n + next.n
    BY <1>0, <2>2, MergeOwned
  <2>4. change = [writes |-> Only(j, one), drops |-> {k}, view |-> v]
    BY <2>1, <2>2
  <2> HIDE DEF one
  <2>5. w \in Maps(m) /\ Copies(w) + view[j].n = Copies(view) + one.n
    BY <2>2, <2>3, CopiesExcept
  <2>6. DOMAIN w = DOMAIN view /\ w[j] = one /\ w[k] = view[k]
    BY <2>2
  <2> HIDE DEF w
  <2>7. Copies(w) = w[k].n + Copies(v) /\ Copies(v) \in Nat
    BY <2>5, <2>6, CopiesBut
  <2>8. Copies(v) + view[k].n = Copies(view) + next.n
    BY <1>0, <2>2, <2>3, <2>5, <2>6, <2>7
  <2>9. DOMAIN v = DOMAIN view \ {k} /\ v[j] = one
    <3>1. DOMAIN v = DOMAIN w \ {k} /\ \A i \in DOMAIN w \ {k} : v[i] = w[i]
      BY ButAt
    <3> QED BY <2>2, <2>6, <3>1
  <2> HIDE DEF v
  <2>10. Merges(v, view)
    <3>1. Restrict(view, DOMAIN v)[j] = view[j]
      BY <2>2, <2>9 DEF Restrict
    <3>2. one # view[j]
      BY <1>0, <1>3, <2>2, <2>3
    <3> QED BY <2>9, <3>1, <3>2 DEF Merges
  <2>11. DOMAIN change.writes = {j} /\ change.writes[j] = one
    BY <2>4, OnlyAt
  <2>12. \A i \in DOMAIN change.writes : i \in DOMAIN view /\ view[i].n <= change.writes[i].n
    BY <1>0, <2>2, <2>3, <2>11
  <2> QED BY <2>4, <2>8, <2>10, <2>12 DEF Weighs
<1> QED BY <1>1, <1>2, <1>3

\* The emptying of a place keeps the copies there are, and lowers no record.
Levels(change, view) ==
    /\ Copies(change.view) = Copies(view)
    /\ \A k \in DOMAIN change.writes : k \in DOMAIN view /\ view[k].n <= change.writes[k].n

\* One stack more taken out of the place.
LEMMA LevelsOne ==
    ASSUME NEW m \in Nat, NEW view \in Maps(m), NEW place \in Places, NEW left \in SUBSET InPlace(view, place),
           NEW k \in left, NEW change \in Changes(m), Moved(change, view, place, left), Levels(change, view),
           NEW next \in Apply(change.view, k, Loosened(view, k))
    PROVE  Levels(Then(change, next), view)
<1> DEFINE free == Loosened(view, k)
           both == Then(change, next)
<1>1. k \in DOMAIN view
  BY DEF InPlace
<1>2. free \in Stacked /\ free.n = view[k].n
  BY <1>1, UnfiledTyped
<1> HIDE DEF free
<1>3. change.view \in Maps(m) /\ k \in DOMAIN change.view /\ change.view[k] = view[k]
  BY DEF Changes, Moved
<1>4. next \in Apply(change.view, k, free)
  BY DEF free
<1>5. Weighs(next, change.view, k, free)
  BY <1>2, <1>3, <1>4, ApplyWeighs
<1>6. next \in Changes(m)
  BY <1>2, <1>3, <1>4, ApplyTyped
<1>7. next.view \in Maps(m) /\ next.writes \in Maps(m)
  BY <1>6 DEF Changes
<1>8. /\ view[k].n \in Nat /\ Copies(next.view) \in Nat /\ Copies(change.view) \in Nat
      /\ \A j \in DOMAIN view : view[j].n \in Nat
      /\ \A j \in DOMAIN change.view : change.view[j].n \in Nat
      /\ \A j \in DOMAIN next.writes : next.writes[j].n \in Nat
  BY <1>1, <1>3, <1>7, MapsAre, OwnedOnes, CopiesPadded
<1>9. Copies(next.view) = Copies(view)
  BY <1>2, <1>3, <1>5, <1>8 DEF Weighs, Levels
<1>10. \A j \in DOMAIN next.writes : j \in DOMAIN change.view /\ change.view[j].n <= next.writes[j].n
  BY <1>2, <1>3, <1>5, <1>8 DEF Weighs
<1>11. /\ DOMAIN change.view = (DOMAIN change.writes \cup DOMAIN view) \ change.drops
       /\ \A j \in DOMAIN change.view :
             change.view[j] = IF j \in DOMAIN change.writes THEN change.writes[j] ELSE view[j]
  BY ChangeAt DEF Moved
<1>12. \A j \in DOMAIN change.view : j \in DOMAIN view /\ view[j].n <= change.view[j].n
  BY <1>8, <1>11 DEF Levels
<1>13. /\ DOMAIN both.writes = (DOMAIN next.writes \cup DOMAIN change.writes) \ next.drops
       /\ \A j \in DOMAIN both.writes :
             both.writes[j] = IF j \in DOMAIN next.writes THEN next.writes[j] ELSE change.writes[j]
       /\ both.view = next.view
  BY DEF Then, But, Over, Restrict
<1> HIDE DEF both
<1>14. ASSUME NEW j \in DOMAIN both.writes PROVE j \in DOMAIN view /\ view[j].n <= both.writes[j].n
  <2>1. CASE j \in DOMAIN next.writes
    BY <1>8, <1>10, <1>12, <1>13, <2>1
  <2>2. CASE j \notin DOMAIN next.writes
    BY <1>13, <2>2 DEF Levels
  <2> QED BY <2>1, <2>2
<1>15. Levels(both, view)
  BY <1>9, <1>13, <1>14 DEF Levels
<1> QED BY <1>15 DEF both

\* And all of them.
LEMMA EmptiedLevels ==
    ASSUME NEW m \in Nat, NEW view \in Maps(m), NEW place \in Places,
           NEW change \in Emptied(view, place)
    PROVE  Levels(change, view)
<1> DEFINE S == InPlace(view, place)
<1>1. PICK h \in [SUBSET InPlace(view, place) -> SUBSET Changes(m)] :
              /\ h[{}] = {NoChange(view)}
              /\ \A s \in SUBSET InPlace(view, place) : s # {} =>
                    \E k \in s : h[s] = Unfolded(view, k, h[s \ {k}])
              /\ Emptied(view, place) = h[InPlace(view, place)]
  BY EmptiedTable
<1> DEFINE T == {s \in SUBSET S : \A c \in h[s] : Moved(c, view, place, S \ s) /\ Levels(c, view)}
<1>2. {} \in T
  <2>1. NoChange(view).view = view /\ DOMAIN NoChange(view).writes = {}
    BY NothingMap DEF NoChange
  <2>2. IsChange(NoChange(view), view)
    BY NoChangeIs
  <2>3. Moved(NoChange(view), view, place, S \ {})
    BY <2>1, <2>2 DEF Moved, InPlace
  <2>4. Levels(NoChange(view), view)
    BY <2>1 DEF Levels
  <2> QED BY <1>1, <2>3, <2>4
<1>3. ASSUME NEW s \in SUBSET S, s # {}
      PROVE  \E k \in s : s \ {k} \in T => s \in T
  <2>1. PICK k \in s : h[s] = Unfolded(view, k, h[s \ {k}])
    BY <1>1, <1>3
  <2>2. ASSUME s \ {k} \in T, NEW c \in h[s]
        PROVE  Moved(c, view, place, S \ s) /\ Levels(c, view)
    <3>1. PICK one \in h[s \ {k}] : \E next \in Apply(one.view, k, Loosened(view, k)) : c = Then(one, next)
      BY <2>1 DEF Unfolded
    <3>2. PICK next \in Apply(one.view, k, Loosened(view, k)) : c = Then(one, next)
      BY <3>1
    <3> DEFINE left == S \ (s \ {k})
    <3>3. one \in Changes(m) /\ Moved(one, view, place, left) /\ Levels(one, view)
      BY <1>1, <2>2
    <3>4. left \in SUBSET S /\ k \in left /\ left \ {k} = S \ s
      OBVIOUS
    <3> HIDE DEF left
    <3>5. Moved(Then(one, next), view, place, left \ {k}) /\ Levels(Then(one, next), view)
      BY <3>3, <3>4, MovedOne, LevelsOne
    <3> QED BY <3>2, <3>4, <3>5
  <2> QED BY <2>2
<1>4. IsFiniteSet(S)
  BY MapFinite, FS_Subset DEF InPlace
<1>5. S \in T
  <2> HIDE DEF T, S
  <2> QED BY <1>2, <1>3, <1>4, SubsetDescent
<1> QED BY <1>1, <1>5

\* Once a drain has landed there are as many copies more as its part held.
LEMMA LandingCopies ==
    ASSUME NEW m \in Nat, NEW n \in Nat, m <= n, NEW view \in Maps(m), NEW updates \in Maps(m),
           NEW creates \in SUBSET Owned, NEW part \in Entries, Fills(updates, creates, part, view),
           NEW made \in Bijection(m + 1 .. n, creates)
    PROVE  Copies(Over(updates, Over(made, view))) = Copies(view) + AllOf(part)
<1> DEFINE w == Over(updates, Over(made, view))
           H == [id \in Ids |-> Count(w, id)]
           F == [id \in Ids |-> Count(view, id)]
<1>1. w \in Maps(n)
  <2>1. made \in Maps(n)
    <3>1. made \in [m + 1 .. n -> creates]
      BY DEF Bijection, Injection
    <3> QED BY <3>1, MapsAre
  <2>2. view \in Maps(n) /\ updates \in Maps(n)
    BY MapsLater
  <2> QED BY <2>1, <2>2, OverMap
<1>2. \A id \in Ids : Count(w, id) = Count(view, id) + part[id]
  BY LandingCounts
<1> HIDE DEF w
<1>3. H \in [Ids -> Nat] /\ F \in [Ids -> Nat] /\ part \in [Ids -> Nat]
  <2>1. \A id \in Ids : Count(w, id) \in Nat /\ Count(view, id) \in Nat
    BY <1>1, CountSum
  <2> QED BY <2>1 DEF Entries
<1>4. \A id \in Ids : H[id] = F[id] + part[id]
  BY <1>2
<1>5. Copies(w) = SumFunction(H) /\ Copies(view) = SumFunction(F)
  BY <1>1, CopiesIds
<1> HIDE DEF H, F
<1>6. PICK G \in [Ids -> Nat] : G = part
  BY <1>3
<1>7. \A id \in Ids : H[id] = F[id] + G[id]
  BY <1>4, <1>6
<1>8. IsFiniteSet(Ids)
  BY FiniteIds
<1>9. SumFunction(H) = SumFunction(F) + SumFunction(G)
  BY <1>3, <1>7, <1>8, SumAdd
<1> QED BY <1>5, <1>6, <1>9 DEF AllOf, w

\* One part of those that wait, and the others.
LEMMA WaitsBut ==
    ASSUME NEW some \in Listings, NEW p \in DOMAIN some
    PROVE  /\ Waits(some) = AllOf(some[p]) + Waits(But(some, {p})) /\ Waits(But(some, {p})) \in Nat
           /\ AllOf(some[p]) \in Nat
<1> DEFINE F == [q \in DOMAIN some |-> AllOf(some[q])]
           w == But(some, {p})
<1>1. /\ DOMAIN w = DOMAIN some \ {p} /\ \A q \in DOMAIN some \ {p} : w[q] = some[q]
      /\ w \in Listings
  BY ButAt, ButListing
<1>2. F \in [DOMAIN some -> Nat] /\ F[p] = AllOf(some[p]) /\ AllOf(some[p]) \in Nat
  BY AllOfType, ListingsAre
<1>3. IsFiniteSet(DOMAIN some)
  BY FiniteAssumption, FS_Subset, ListingsAre
<1> HIDE DEF w
<1>4. [q \in DOMAIN w |-> AllOf(w[q])] = [q \in DOMAIN some \ {p} |-> F[q]]
  <2>1. \A q \in DOMAIN some \ {p} : AllOf(w[q]) = F[q]
    BY <1>1
  <2> HIDE DEF F
  <2> QED BY <1>1, <2>1
<1>5. Waits(some) = SumFunction(F) /\ Waits(w) = SumFunction([q \in DOMAIN some \ {p} |-> F[q]])
  BY <1>4 DEF Waits
<1> HIDE DEF F
<1>6. SumFunction(F) = F[p] + SumFunction([q \in DOMAIN some \ {p} |-> F[q]])
  BY <1>2, <1>3, SumSplit
<1>7. Waits(w) \in Nat
  BY <1>1, WaitsIds
<1>8. Waits(some) = AllOf(some[p]) + Waits(w)
  BY <1>2, <1>5, <1>6
<1> QED BY <1>2, <1>7, <1>8 DEF w

\* Nothing waits in no part, and the parts of a file wait as they are.
LEMMA WaitsFile ==
    ASSUME NEW some \in SUBSET Parts
    PROVE  /\ Waits(Nothing) = 0
           /\ Waits(Over(Restrict(File, some), Nothing)) = SumFunction([p \in some |-> AllOf(File[p])])
           /\ SumFunction([p \in some |-> AllOf(File[p])]) \in Nat
<1>1. Waits(Nothing) = 0
  <2> DEFINE F == [p \in DOMAIN Nothing |-> AllOf(Nothing[p])]
  <2>1. F \in [{} -> Nat]
    BY DEF Nothing
  <2>2. Waits(Nothing) = SumFunction(F)
    BY DEF Waits
  <2> HIDE DEF F
  <2> QED BY <2>1, <2>2, SumNone
<1>2. Waits(Over(Restrict(File, some), Nothing)) = SumFunction([p \in some |-> AllOf(File[p])])
  <2> DEFINE w == Over(Restrict(File, some), Nothing)
  <2>1. DOMAIN w = some /\ \A p \in some : w[p] = File[p]
    <3>1. some \subseteq DOMAIN File
      BY PartsAssumption
    <3> QED BY <3>1 DEF Over, Restrict, Nothing
  <2> HIDE DEF w
  <2>2. [p \in DOMAIN w |-> AllOf(w[p])] = [p \in some |-> AllOf(File[p])]
    BY <2>1
  <2>3. Waits(w) = SumFunction([p \in some |-> AllOf(File[p])])
    BY <2>2 DEF Waits
  <2> QED BY <2>3 DEF w
<1> QED BY <1>1, <1>2, FileListing

\* A shed leaves no more than there was, and takes no more than it is asked to.
LEMMA WaitsShed ==
    ASSUME NEW listing \in Listings, NEW id \in Ids, NEW copies \in Nat
    PROVE  /\ Waits(Shed(listing, id, copies)) <= Waits(listing)
           /\ Waits(listing) <= Waits(Shed(listing, id, copies)) + copies
           /\ Waits(Shed(listing, id, copies)) \in Nat /\ Waits(listing) \in Nat
<1> DEFINE left == Shed(listing, id, copies)
           F == [other \in Ids |-> Waiting(listing, other)]
           G == [other \in Ids |-> Waiting(left, other)]
<1>1. left \in Listings
  BY FiniteAssumption, ShedTyped
<1>2. \A other \in Ids : Waiting(left, other) = IF other = id THEN Less(Waiting(listing, id), copies)
                                                ELSE Waiting(listing, other)
  BY ShedWaits
<1> HIDE DEF left
<1>3. F \in [Ids -> Nat] /\ G \in [Ids -> Nat]
  BY <1>1, WaitingType
<1>4. /\ \A other \in Ids \ {id} : F[other] = G[other]
      /\ G[id] = Less(F[id], copies)
  BY <1>2
<1>5. /\ Waits(listing) = SumFunction(F) /\ Waits(listing) \in Nat
      /\ Waits(left) = SumFunction(G) /\ Waits(left) \in Nat
  BY <1>1, WaitsIds
<1> HIDE DEF F, G
<1>6. SumFunction(F) + G[id] = SumFunction(G) + F[id]
  BY <1>3, <1>4, FiniteIds, SumGrown
<1>7. F[id] \in Nat /\ G[id] \in Nat
  BY <1>3
<1>8. Waits(left) <= Waits(listing) /\ Waits(listing) <= Waits(left) + copies
  BY <1>4, <1>5, <1>6, <1>7 DEF Less
<1> QED BY <1>5, <1>8 DEF left

-----------------------------------------------------------------------------
(* What stands for the copies the owner is to have.  A view backs them when *)
(* it has so many in common with the repository, with those that wait.      *)

\* The copies are there.
Enough == Copies(repo) + Waits(parts) >= least

Backs(view) == least <= Copies(Common(view, repo)) + Waits(parts)

Sending(t) == press[t].kind \in {"edit", "unfile"}
Merging(t) == Merges(press[t].view, held[t])
Lifting(t) == press[t].kind = "unfile" \/ Merging(t)

\* What is left should the press fail here: the view it was computed from, less
\* what the press takes away, unless it only lifts records.
Base(t) == IF Lifting(t) THEN held[t] ELSE Common(held[t], press[t].view)

\* The calls left of a press write what its view after holds, and drop what it
\* does not; when all have landed that view backs the copies.
Sends(t) ==
    /\ \A k \in DOMAIN press[t].writes :
          /\ k \in DOMAIN press[t].view /\ press[t].view[k] = press[t].writes[k]
          /\ k \in DOMAIN held[t]
          /\ Lifting(t) => held[t][k].n <= press[t].writes[k].n
    /\ press[t].drops \cap DOMAIN press[t].view = {}
    /\ press[t].kind = "edit" => \A j, k \in press[t].drops : j = k
    /\ Under(since[t], press[t].view)
    /\ least + press[t].gain <= Copies(Common(press[t].view, After(press[t], repo))) + Waits(parts)
    /\ press[t].writes # Nothing \/ (press[t].kind = "edit" /\ ~Merged(t)) => Backs(Base(t))

\* And the view backs them when nothing is being sent, or will with what a
\* transaction wrote.
Rests(t) ==
    /\ ~Sending(t) /\ out[t].said # "landed" => Backs(held[t])
    /\ press[t].kind = "made" =>
          \E k \in DOMAIN repo \ DOMAIN held[t] : press[t].view = Only(k, repo[k]) /\ press[t].gain <= repo[k].n
    /\ out[t].said = "out" /\ ~out[t].sheds =>
          /\ out[t].leaves = Nothing
          /\ \E p \in DOMAIN parts : /\ out[t].takes = {p}
                                     /\ Fills(out[t].updates, out[t].creates, parts[p], held[t])
    /\ out[t].sheds => out[t].updates = Nothing /\ out[t].wrote = Nothing /\ out[t].creates = {}
    /\ out[t].said = "out" /\ out[t].sheds => least <= Copies(Common(held[t], repo)) + Waits(Taken(out[t]))
    /\ out[t].said = "landed" => Backs(Over(out[t].wrote, held[t]))

Stocked(t) == IF fresh[t] THEN Under(since[t], held[t]) /\ (Sending(t) => Sends(t)) /\ Rests(t)
              ELSE Enough

\* The types it is drawn up with.
LEMMA StockTypes ==
    ASSUME Typed, NEW t \in Tabs
    PROVE  /\ minted \in Nat /\ repo \in Maps(minted) /\ parts \in Listings /\ least \in Nat
           /\ held[t] \in Maps(minted) /\ since[t] \in Maps(minted) /\ later[t] \in Maps(minted)
           /\ press[t].view \in Maps(minted) /\ press[t].writes \in Maps(minted)
           /\ press[t].drops \in SUBSET (1 .. minted) /\ press[t].gain \in {0, 1}
           /\ out[t].wrote \in Maps(minted) /\ out[t].updates \in Maps(minted)
           /\ out[t].creates \in SUBSET Owned /\ IsFiniteSet(out[t].creates)
           /\ Waits(parts) \in Nat /\ Base(t) \in Maps(minted)
<1>1. /\ minted \in Nat /\ repo \in Maps(minted) /\ parts \in Listings /\ least \in Nat
      /\ held[t] \in Maps(minted) /\ since[t] \in Maps(minted) /\ later[t] \in Maps(minted)
  BY TypedTab, HeldMaps DEF Typed, OwnerTyped
<1>2. press[t] \in PressesOf(minted) /\ out[t] \in CallsOf(minted)
  BY TypedTab
<1>3. /\ press[t].view \in Maps(minted) /\ press[t].writes \in Maps(minted)
      /\ press[t].drops \in SUBSET (1 .. minted) /\ press[t].gain \in {0, 1}
  BY <1>2 DEF PressesOf
<1>4. /\ out[t].wrote \in Maps(minted) /\ out[t].updates \in Maps(minted)
      /\ out[t].creates \in SUBSET Owned /\ IsFiniteSet(out[t].creates)
  BY <1>2 DEF CallsOf
<1>5. Waits(parts) \in Nat
  BY <1>1, WaitsIds
<1>6. Base(t) \in Maps(minted)
  BY <1>1, <1>3, CommonMap DEF Base
<1> QED BY <1>1, <1>3, <1>4, <1>5, <1>6

\* What backs the copies is there.
LEMMA BacksFewer ==
    ASSUME Typed, NEW view \in Maps(minted), Backs(view)
    PROVE  Enough
<1>1. minted \in Nat /\ repo \in Maps(minted) /\ parts \in Listings /\ least \in Nat
  BY HeldMaps DEF Typed, RepoTyped, OwnerTyped, Maps
<1>2. Waits(parts) \in Nat
  BY <1>1, WaitsIds
<1>3. /\ Copies(Common(view, repo)) <= Copies(repo) /\ Copies(Common(view, repo)) \in Nat
      /\ Copies(repo) \in Nat
  BY <1>1, CommonOne, CopiesPadded
<1>4. least <= Copies(Common(view, repo)) + Waits(parts)
  BY DEF Backs
<1>5. Copies(repo) + Waits(parts) >= least
  BY <1>1, <1>2, <1>3, <1>4
<1> QED BY <1>5 DEF Enough

\* In every state of that kind the copies are there.
LEMMA StockedFewer ==
    ASSUME Typed, NEW t \in Tabs, Stocked(t), Orderly(t)
    PROVE  Enough
<1>1. CASE ~fresh[t]
  BY <1>1 DEF Stocked
<1>2. CASE fresh[t] /\ Sending(t) /\ press[t].writes # Nothing
  <2>1. Backs(Base(t))
    BY <1>2 DEF Stocked, Sends
  <2> QED BY <2>1, StockTypes, BacksFewer
<1>3. CASE fresh[t] /\ Sending(t) /\ press[t].writes = Nothing
  <2> DEFINE after == But(repo, press[t].drops)
  <2>1. After(press[t], repo) = after
    BY <1>3, StockTypes, OverNothing DEF After
  <2>2. least + press[t].gain <= Copies(Common(press[t].view, after)) + Waits(parts)
    BY <1>3, <2>1 DEF Stocked, Sends
  <2>3. after \in Maps(minted)
    BY StockTypes, ButMap
  <2>4. \A k \in DOMAIN after : k \in DOMAIN repo /\ after[k].n <= repo[k].n
    <3>1. \A k \in DOMAIN repo : repo[k].n \in Nat
      BY StockTypes, MapsAre, OwnedOnes
    <3>2. DOMAIN after = DOMAIN repo \ press[t].drops /\ \A k \in DOMAIN repo \ press[t].drops : after[k] = repo[k]
      BY ButAt
    <3> HIDE DEF after
    <3> QED BY <3>1, <3>2
  <2> HIDE DEF after
  <2>5. Copies(after) <= Copies(repo) /\ Copies(after) \in Nat /\ Copies(repo) \in Nat
    BY <2>3, <2>4, StockTypes, CopiesLess, CopiesPadded
  <2>6. /\ Copies(Common(press[t].view, after)) <= Copies(after)
        /\ Copies(Common(press[t].view, after)) \in Nat
    BY <2>3, StockTypes, CommonOne
  <2>7. least \in Nat /\ Waits(parts) \in Nat /\ press[t].gain \in {0, 1}
    BY StockTypes
  <2>8. Copies(repo) + Waits(parts) >= least
    BY <2>2, <2>5, <2>6, <2>7
  <2> QED BY <2>8 DEF Enough
<1>4. CASE fresh[t] /\ ~Sending(t) /\ out[t].said # "landed"
  <2>1. Backs(held[t])
    BY <1>4 DEF Stocked, Rests
  <2> QED BY <2>1, StockTypes, BacksFewer
<1>5. CASE fresh[t] /\ out[t].said = "landed"
  <2>1. Backs(Over(out[t].wrote, held[t]))
    BY <1>5 DEF Stocked, Rests
  <2>2. Over(out[t].wrote, held[t]) \in Maps(minted)
    BY StockTypes, OverMap
  <2> QED BY <2>1, <2>2, BacksFewer
<1> QED BY <1>1, <1>2, <1>3, <1>4, <1>5

\* A step that touches nothing it speaks of keeps it.
LEMMA StockedSame ==
    ASSUME NEW t, Stocked(t), press'[t] = press[t], out'[t] = out[t], held'[t] = held[t], since'[t] = since[t],
           repo' = repo, parts' = parts, least' = least, fresh'[t] = fresh[t]
    PROVE  Stocked(t)'
<1>1. CASE fresh[t]
  <2>1. Under(since[t], held[t])' /\ Sending(t)' = Sending(t)
    BY <1>1 DEF Stocked, Sending, Under
  <2>2. ASSUME Sends(t) PROVE Sends(t)'
    BY <2>2 DEF Sends, Lifting, Merging, Merges, Merged, Base, Backs, Under
  <2>3. Rests(t)'
    BY <1>1 DEF Stocked, Rests, Sending, Backs, Taken
  <2> QED BY <1>1, <2>1, <2>2, <2>3 DEF Stocked
<1>2. CASE ~fresh[t]
  BY <1>2 DEF Stocked, Enough
<1> QED BY <1>1, <1>2

\* A tab that has not read the collection changes nothing of it.
LEMMA StockedUnread ==
    ASSUME NEW t, Enough, ~fresh'[t], repo' = repo, parts' = parts, least' = least
    PROVE  Stocked(t)'
  BY DEF Stocked, Enough

\* A tab that sends nothing and has nothing out needs its view to back the copies.
LEMMA StockedRests ==
    ASSUME NEW t, Under(since[t], held[t])', Backs(held[t])', fresh'[t],
           press'[t].kind \notin {"edit", "unfile", "made"}, out'[t] = NotOut
    PROVE  Stocked(t)'
<1>1. NotOut.said = "nothing" /\ ~NotOut.sheds
  BY NotOutIs
<1>2. Rests(t)' /\ ~Sending(t)'
  BY <1>1 DEF Rests, Sending
<1> QED BY <1>2 DEF Stocked

\* A repository that comes to hold no less of any record a view has backs it as
\* much.
LEMMA BacksStill ==
    ASSUME NEW m \in Nat, NEW view \in Maps(m), repo \in Maps(m), repo' \in Maps(m),
           \A k \in DOMAIN view \cap DOMAIN repo :
               k \in DOMAIN repo' /\ Low(view[k].n, repo[k].n) <= Low(view[k].n, repo'[k].n),
           least \in Nat, Waits(parts) \in Nat, parts' = parts, least' = least, Backs(view)
    PROVE  least' <= Copies(Common(view, repo')) + Waits(parts')
<1> DEFINE found == repo'
<1>1. found \in Maps(m) /\ \A k \in DOMAIN view \cap DOMAIN repo :
               k \in DOMAIN view /\ k \in DOMAIN found /\ Low(view[k].n, repo[k].n) <= Low(view[k].n, found[k].n)
  OBVIOUS
<1> HIDE DEF found
<1>2. Copies(Common(view, repo)) <= Copies(Common(view, found))
  BY <1>1, CommonLess
<1>3. Copies(Common(view, repo)) \in Nat /\ Copies(Common(view, found)) \in Nat
  BY <1>1, CommonOne
<1>4. least <= Copies(Common(view, repo)) + Waits(parts)
  BY DEF Backs
<1>5. least <= Copies(Common(view, found)) + Waits(parts)
  BY <1>2, <1>3, <1>4
<1> QED BY <1>5 DEF found

\* A tab opens, reads, lists and closes.
LEMMA StockedViewing ==
    ASSUME Typed, Typed', NEW t \in Tabs, Tame(t), Orderly(t), Stocked(t), Viewing(t)
    PROVE  Stocked(t)'
<1>0. Enough
  BY StockedFewer
<1>1. CASE Opens(t) \/ Paints(t)
  <2>1. ~fresh'[t]
    BY <1>1 DEF Opens, Paints, Orderly, Ready
  <2> QED BY <1>0, <1>1, <2>1, StockedUnread DEF Opens, Paints, repoVars, ownerVars
<1>2. CASE ReadsPage(t) \/ Remembers(t) \/ Attaches(t)
  BY <1>2, StockedSame DEF ReadsPage, Remembers, Attaches, repoVars, ownerVars, viewVars
<1>3. CASE Closes(t)
  <2>1. ~fresh'[t]
    BY <1>3, AtTab DEF Closes
  <2>2. least' = least /\ repo' = repo /\ parts' = parts
    BY <1>3 DEF Tame, Closes, repoVars
  <2> QED BY <1>0, <2>1, <2>2, StockedUnread
<1>4. CASE ReadEnds(t)
  <2>1. /\ press[t] = NoPress /\ out[t] = NotOut /\ since[t] = Nothing
        /\ reading[t].seen = Restrict(repo, {k \in DOMAIN repo : k >= reading[t].at})
    BY <1>4 DEF ReadEnds, Orderly, Ready, Reads
  <2>2. /\ minted \in Nat /\ repo \in Maps(minted) /\ reading[t].at \in Nat
    BY TypedTab DEF Typed, RepoTyped, Readings
  <2>3. \A k \in DOMAIN repo : ~(k < reading[t].at)
    BY <1>4 DEF ReadEnds, Unpaged
  <2>4. reading[t].seen = repo
    BY <2>1, <2>2, <2>3, AllRead
  <2>5. held'[t] = Over(since[t], reading[t].seen) /\ since'[t] = Nothing
    BY <1>4, AtTab DEF ReadEnds, Fold
  <2>6. held'[t] = repo /\ Over(Nothing, repo) = repo
    BY <2>1, <2>2, <2>4, <2>5, OverNothing
  <2>7. press' = press /\ out' = out /\ repo' = repo /\ parts' = parts /\ least' = least
    BY <1>4 DEF ReadEnds, repoVars
  <2>8. Backs(held[t])'
    <3>1. Copies(Common(repo, repo)) = Copies(repo)
      BY <2>2, CommonOne
    <3>2. Copies(repo) + Waits(parts) >= least
      BY <1>0 DEF Enough
    <3>3. Copies(repo) \in Nat /\ Waits(parts) \in Nat /\ least \in Nat
      BY StockTypes, CopiesPadded
    <3>4. least <= Copies(Common(repo, repo)) + Waits(parts)
      BY <3>1, <3>2, <3>3
    <3> QED BY <2>6, <2>7, <3>4 DEF Backs
  <2>9. fresh'[t]
    BY <1>4, AtTab DEF ReadEnds
  <2>10. Under(since[t], held[t])'
    BY <2>5, UnderOver
  <2> QED BY <2>1, <2>7, <2>8, <2>9, <2>10, NoPressIs, StockedRests
<1> QED BY <1>1, <1>2, <1>3, <1>4 DEF Viewing

\* An edit takes from the view what it asks to be taken from the owner's copies,
\* and leaves as it was what it does not take.
LEMMA AmendStock ==
    ASSUME NEW m \in Nat, NEW view \in Maps(m), NEW found \in Maps(m), NEW k \in DOMAIN view, NEW next \in Stacked,
           NEW change \in Changes(m), IsChange(change, view), Weighs(change, view, k, next),
           NEW waits \in Nat, NEW had \in Nat, NEW has \in Nat, NEW gain \in {0, 1},
           had <= Copies(Common(view, found)) + waits,
           has <= had /\ gain = IF next.n > view[k].n THEN 1 ELSE 0,
           next.n > view[k].n => next.n = view[k].n + 1,
           next.n < view[k].n => has = Less(had, view[k].n - next.n)
    PROVE  /\ has + gain <= Copies(Common(change.view, After(change, found))) + waits
           /\ has <= Copies(Common(IF Merges(change.view, view) THEN view ELSE Common(view, change.view), found)) + waits
<1>1. change.view \in Maps(m) /\ change.writes \in Maps(m)
  BY DEF Changes
<1>2. change.view = After(change, view)
  BY DEF IsChange, After
<1> DEFINE a == Copies(Common(view, found))  b == Copies(Common(change.view, After(change, found)))
           c == Copies(view)  d == Copies(change.view)
           e == Copies(Common(view, change.view))  f == Copies(Common(Common(view, change.view), found))
           n == view[k].n
<1>3. After(change, found) \in Maps(m) /\ a + d <= b + c
  BY <1>1, <1>2, CommonAfter
<1>4. Common(view, change.view) \in Maps(m) /\ a + e <= f + c
  BY <1>1, CommonLower
<1>5. a \in Nat /\ b \in Nat /\ c \in Nat /\ d \in Nat /\ e \in Nat /\ f \in Nat
  BY <1>1, <1>3, <1>4, CommonOne
<1>6. n \in Nat /\ next.n \in Nat
  BY MapsAre, OwnedOnes, StackedOnes
<1>7. d + n = c + next.n /\ (~Merges(change.view, view) => c + Low(n, next.n) <= e + n)
  BY DEF Weighs
<1>8. had <= a + waits
  OBVIOUS
<1>9. /\ gain = IF next.n > n THEN 1 ELSE 0
      /\ next.n > n => next.n = n + 1
      /\ next.n < n => has = Less(had, n - next.n)
  OBVIOUS
<1> HIDE DEF a, b, c, d, e, f, n
<1>10. has + gain <= b + waits
  BY <1>3, <1>5, <1>6, <1>7, <1>8, <1>9 DEF Less
<1>11. ~Merges(change.view, view) => has <= f + waits
  BY <1>4, <1>5, <1>6, <1>7, <1>8, <1>9 DEF Less, Low
<1>12. has <= a + waits
  BY <1>5, <1>8
<1> QED BY <1>10, <1>11, <1>12 DEF a, b, f

\* What an edit makes of a stack differs by its identity, a copy more, or copies
\* fewer, and the owner is to have as much less.
LEMMA EditStock ==
    ASSUME Typed, NEW one \in Owned, NEW next \in Edits(one), next \in Stacked,
           IF next.id # one.id THEN UNCHANGED least
           ELSE IF next.n > one.n THEN UNCHANGED least
           ELSE least' = Less(least, one.n - next.n)
    PROVE  /\ least' <= least /\ least' \in Nat
           /\ next.n > one.n => next.n = one.n + 1
           /\ next.n < one.n => least' = Less(least, one.n - next.n)
<1>1. one.id \in Ids /\ one.n \in Nat \ {0} /\ next.id \in Ids /\ next.n \in Nat /\ least \in Nat
  BY OwnedOnes, StackedOnes DEF Typed, OwnerTyped
<1>2. next.id # one.id => next.n = one.n
  BY <1>1 DEF Edits, Owned
<1>3. next.id = one.id => next.n <= one.n \/ next.n = one.n + 1
  BY <1>1 DEF Edits, Owned
<1> QED BY <1>1, <1>2, <1>3 DEF Less

\* An edit is computed: nothing is sent yet.
LEMMA StockedAmends ==
    ASSUME Typed, Typed', NEW t \in Tabs, Tame(t), Orderly(t), Stocked(t), Amends(t)
    PROVE  Stocked(t)'
<1>1. /\ fresh[t] /\ press[t] = NoPress /\ out[t] = NotOut /\ ~astray'
      /\ repo' = repo /\ parts' = parts /\ held' = held /\ since' = since
      /\ out' = out /\ fresh' = fresh
  BY PressMeets DEF Tame, Amends, repoVars, viewVars
<1>2. Under(since[t], held[t]) /\ Backs(held[t])
  BY <1>1, NoPressIs, NotOutIs DEF Stocked, Rests, Sending
<1>4. PICK k \in DOMAIN held[t] : \E next \in Edits(held[t][k]) \ {held[t][k]} :
          LET one == held[t][k] IN
          /\ \E change \in Apply(held[t], k, next) :
                /\ Straying(Against(t, DOMAIN change.writes \cup change.drops))
                /\ Begin(t, [NoPress EXCEPT
                       !.kind = "edit", !.writes = change.writes,
                       !.drops = change.drops, !.view = change.view,
                       !.gain = IF next.n > one.n THEN 1 ELSE 0])
          /\ IF next.id # one.id THEN Asks({next.id}, {one.id}, one.n) /\ UNCHANGED least
             ELSE IF next.n > one.n THEN Asks({one.id}, {}, 1) /\ UNCHANGED least
             ELSE Asks({}, {one.id}, one.n - next.n) /\ least' = Less(least, one.n - next.n)
  BY DEF Amends
<1>5. PICK next \in Edits(held[t][k]) :
          LET one == held[t][k] IN
          /\ \E change \in Apply(held[t], k, next) :
                /\ Straying(Against(t, DOMAIN change.writes \cup change.drops))
                /\ Begin(t, [NoPress EXCEPT
                       !.kind = "edit", !.writes = change.writes,
                       !.drops = change.drops, !.view = change.view,
                       !.gain = IF next.n > one.n THEN 1 ELSE 0])
          /\ IF next.id # one.id THEN UNCHANGED least
             ELSE IF next.n > one.n THEN UNCHANGED least
             ELSE least' = Less(least, one.n - next.n)
  BY <1>4
<1>6. PICK change \in Apply(held[t], k, next) :
                /\ Straying(Against(t, DOMAIN change.writes \cup change.drops))
                /\ Begin(t, [NoPress EXCEPT
                       !.kind = "edit", !.writes = change.writes,
                       !.drops = change.drops, !.view = change.view,
                       !.gain = IF next.n > held[t][k].n THEN 1 ELSE 0])
  BY <1>5
<1> DEFINE view == held[t]  gain == IF next.n > held[t][k].n THEN 1 ELSE 0
<1>7. view[k] \in Owned /\ next \in Stacked /\ view \in Maps(minted)
  <2>1. held[t][k] \in Owned
    BY TypedTab, MapsAre
  <2> QED BY <2>1, EditsTyped, StockTypes
<1>8. /\ IsChange(change, view) /\ change \in Changes(minted) /\ Weighs(change, view, k, next)
  BY <1>7, StockTypes, ApplyDoes, ApplyTyped, ApplyWeighs
<1>9. /\ least' <= least /\ least' \in Nat
      /\ next.n > view[k].n => next.n = view[k].n + 1
      /\ next.n < view[k].n => least' = Less(least, view[k].n - next.n)
  <2>1. IF next.id # view[k].id THEN UNCHANGED least
             ELSE IF next.n > view[k].n THEN UNCHANGED least
             ELSE least' = Less(least, view[k].n - next.n)
    BY <1>5
  <2>2. next \in Edits(view[k])
    OBVIOUS
  <2> QED BY <1>7, <2>1, <2>2, EditStock
<1>10. /\ press'[t].kind = "edit" /\ press'[t].writes = change.writes /\ press'[t].drops = change.drops
       /\ press'[t].view = change.view /\ press'[t].gain = gain
  BY <1>6 DEF Typed, CallTyped, Begin, NoPress
<1> HIDE DEF gain
<1>11. After(press'[t], repo) = After(change, repo)
  BY <1>10 DEF After
<1>12. /\ least' + gain <= Copies(Common(change.view, After(change, repo))) + Waits(parts)
       /\ least' <= Copies(Common(IF Merges(change.view, view) THEN view ELSE Common(view, change.view), repo)) + Waits(parts)
  <2> DEFINE has == least'
  <2>1. has <= least /\ has \in Nat /\ (next.n < view[k].n => has = Less(least, view[k].n - next.n))
    BY <1>9
  <2>2. /\ minted \in Nat /\ repo \in Maps(minted) /\ Waits(parts) \in Nat /\ least \in Nat /\ gain \in {0, 1}
        /\ gain = IF next.n > view[k].n THEN 1 ELSE 0
    BY StockTypes DEF gain
  <2>3. least <= Copies(Common(view, repo)) + Waits(parts)
    BY <1>2 DEF Backs
  <2> HIDE DEF has, view
  <2>4. /\ has + gain <= Copies(Common(change.view, After(change, repo))) + Waits(parts)
        /\ has <= Copies(Common(IF Merges(change.view, view) THEN view ELSE Common(view, change.view), repo)) + Waits(parts)
    BY <1>7, <1>8, <1>9, <2>1, <2>2, <2>3, AmendStock DEF view
  <2> QED BY <2>4 DEF has
<1>13. Under(since[t], change.view)
  <2>1. (DOMAIN change.writes \cup change.drops) \cap DOMAIN since[t] = {}
    BY <1>1, <1>6, MeetsNothing, AgainstNothing
  <2> QED BY <1>2, <1>8, <2>1, ChangeUnder
<1>14. /\ DOMAIN change.view = (DOMAIN change.writes \cup DOMAIN view) \ change.drops
       /\ \A j \in DOMAIN change.view : change.view[j] = IF j \in DOMAIN change.writes THEN change.writes[j] ELSE view[j]
       /\ DOMAIN change.writes \subseteq DOMAIN view /\ DOMAIN change.writes \cap change.drops = {}
  <2>1. IsChange(change, view)
    BY <1>8
  <2>2. DOMAIN change.writes \subseteq DOMAIN view /\ DOMAIN change.writes \cap change.drops = {}
    BY <2>1 DEF IsChange
  <2> HIDE DEF view
  <2> QED BY <2>1, <2>2, ChangeAt
<1>15. Merges(change.view, view) => \A j \in DOMAIN change.writes : view[j].n <= change.writes[j].n
  BY <1>8 DEF Weighs
<1>16. \A i, j \in change.drops : i = j
  BY <1>8 DEF Weighs
<1>17. /\ Base(t)' = IF Merges(change.view, view) THEN view ELSE Common(view, change.view)
       /\ Lifting(t)' <=> Merges(change.view, view)
  <2>1. press'[t].kind # "unfile" /\ press'[t].view = change.view /\ held'[t] = view
    BY <1>1, <1>10
  <2>2. Lifting(t)' <=> Merges(change.view, view)
    BY <2>1 DEF Lifting, Merging
  <2> QED BY <2>1, <2>2 DEF Base
<1>18. Sends(t)'
  <2>1. Backs(Base(t))'
    BY <1>1, <1>12, <1>17 DEF Backs
  <2>2. \A j \in DOMAIN press'[t].writes :
            /\ j \in DOMAIN press'[t].view /\ press'[t].view[j] = press'[t].writes[j]
            /\ j \in DOMAIN held'[t]
            /\ Lifting(t)' => held'[t][j].n <= press'[t].writes[j].n
    BY <1>1, <1>10, <1>14, <1>15, <1>17
  <2>3. press'[t].drops \cap DOMAIN press'[t].view = {}
    BY <1>10, <1>14
  <2>4. Under(since'[t], press'[t].view)
    BY <1>1, <1>10, <1>13
  <2>5. least' + press'[t].gain <= Copies(Common(press'[t].view, After(press'[t], repo'))) + Waits(parts')
    BY <1>1, <1>10, <1>11, <1>12
  <2>6. \A i, j \in press'[t].drops : i = j
    BY <1>10, <1>16
  <2> QED BY <2>1, <2>2, <2>3, <2>4, <2>5, <2>6 DEF Sends
<1>19. Rests(t)' /\ Sending(t)'
  BY <1>1, <1>10, NotOutIs DEF Rests, Sending
<1> QED BY <1>1, <1>2, <1>18, <1>19 DEF Stocked

\* So is the emptying of a place.
LEMMA StockedUnfiles ==
    ASSUME Typed, Typed', NEW t \in Tabs, Tame(t), Orderly(t), Stocked(t), Unfiles(t)
    PROVE  Stocked(t)'
<1>1. /\ fresh[t] /\ press[t] = NoPress /\ out[t] = NotOut /\ ~astray'
      /\ repo' = repo /\ parts' = parts /\ held' = held /\ since' = since
      /\ out' = out /\ fresh' = fresh /\ least' = least
  BY PressMeets DEF Tame, Unfiles, repoVars, viewVars
<1>2. Under(since[t], held[t]) /\ Backs(held[t])
  BY <1>1, NoPressIs, NotOutIs DEF Stocked, Rests, Sending
<1>3. PICK place \in places : \E change \in Emptied(held[t], place) :
                /\ Straying(Against(t, DOMAIN change.writes \cup change.drops)
                            \cup When("waits", Awaits(parts, place)))
                /\ Begin(t, [NoPress EXCEPT
                       !.kind = IF change = NoChange(held[t]) THEN "drop" ELSE "unfile",
                       !.writes = change.writes, !.drops = change.drops,
                       !.view = change.view, !.place = place])
  BY DEF Unfiles
<1>4. PICK change \in Emptied(held[t], place) :
                /\ Straying(Against(t, DOMAIN change.writes \cup change.drops)
                            \cup When("waits", Awaits(parts, place)))
                /\ Begin(t, [NoPress EXCEPT
                       !.kind = IF change = NoChange(held[t]) THEN "drop" ELSE "unfile",
                       !.writes = change.writes, !.drops = change.drops,
                       !.view = change.view, !.place = place])
  BY <1>3
<1> DEFINE view == held[t]
<1>5. place \in Places
  BY DEF Typed, RepoTyped
<1>6. IsChange(change, view) /\ change \in Changes(minted) /\ Levels(change, view)
  <2>1. minted \in Nat /\ view \in Maps(minted)
    BY StockTypes
  <2>2. change \in Changes(minted) /\ Moved(change, view, place, {}) /\ Levels(change, view)
    <3> HIDE DEF view
    <3> QED BY <1>4, <1>5, <2>1, EmptiedTyped, EmptiedMoves, EmptiedLevels DEF view
  <2> QED BY <2>2 DEF Moved
<1>7. /\ press'[t].kind = IF change = NoChange(view) THEN "drop" ELSE "unfile"
      /\ press'[t].writes = change.writes /\ press'[t].drops = change.drops
      /\ press'[t].view = change.view /\ press'[t].gain = 0
  BY <1>4 DEF Typed, CallTyped, Begin, NoPress
<1>8. Backs(held[t])' /\ Under(since[t], held[t])'
  BY <1>1, <1>2 DEF Backs
<1>9. CASE change = NoChange(view)
  BY <1>1, <1>7, <1>8, <1>9, StockedRests
<1>10. CASE change # NoChange(view)
  <2>1. /\ DOMAIN change.view = (DOMAIN change.writes \cup DOMAIN view) \ change.drops
        /\ \A j \in DOMAIN change.view : change.view[j] = IF j \in DOMAIN change.writes THEN change.writes[j] ELSE view[j]
        /\ DOMAIN change.writes \subseteq DOMAIN view /\ DOMAIN change.writes \cap change.drops = {}
    <3>1. IsChange(change, view)
      BY <1>6
    <3>2. DOMAIN change.writes \subseteq DOMAIN view /\ DOMAIN change.writes \cap change.drops = {}
      BY <3>1 DEF IsChange
    <3> HIDE DEF view
    <3> QED BY <3>1, <3>2, ChangeAt
  <2>2. \A j \in DOMAIN change.writes : view[j].n <= change.writes[j].n
    BY <1>6 DEF Levels
  <2>3. Under(since[t], change.view)
    <3>1. Against(t, DOMAIN change.writes \cup change.drops) = {}
      BY <1>1, <1>4, MeetsNothing
    <3>2. (DOMAIN change.writes \cup change.drops) \cap DOMAIN since[t] = {}
      BY <3>1, AgainstNothing
    <3> QED BY <1>2, <1>6, <3>2, ChangeUnder
  <2>4. press'[t].kind = "unfile" /\ Base(t)' = view
    BY <1>1, <1>7, <1>10 DEF Base, Lifting
  <2>5. least <= Copies(Common(change.view, After(change, repo))) + Waits(parts)
    <3>1. minted \in Nat /\ view \in Maps(minted) /\ repo \in Maps(minted) /\ least \in Nat /\ Waits(parts) \in Nat
      BY StockTypes
    <3>2. change.view = After(change, view) /\ change.view \in Maps(minted) /\ change.writes \in Maps(minted)
      BY <1>6 DEF IsChange, After, Changes
    <3> DEFINE a == Copies(Common(view, repo))  b == Copies(Common(change.view, After(change, repo)))
               c == Copies(view)  d == Copies(change.view)
    <3>3. After(change, repo) \in Maps(minted) /\ a + d <= b + c
      BY <3>1, <3>2, CommonAfter
    <3>4. a \in Nat /\ b \in Nat /\ c \in Nat /\ d \in Nat
      BY <3>1, <3>2, <3>3, CommonOne
    <3>5. d = c /\ least <= a + Waits(parts)
      BY <1>2, <1>6 DEF Levels, Backs
    <3> HIDE DEF a, b, c, d
    <3>6. least <= b + Waits(parts)
      BY <3>1, <3>3, <3>4, <3>5
    <3> QED BY <3>6 DEF b
  <2>6. Sends(t)'
    <3>1. Backs(Base(t))'
      BY <1>1, <1>8, <2>4 DEF Backs
    <3>2. \A j \in DOMAIN press'[t].writes :
              /\ j \in DOMAIN press'[t].view /\ press'[t].view[j] = press'[t].writes[j]
              /\ j \in DOMAIN held'[t]
              /\ held'[t][j].n <= press'[t].writes[j].n
      BY <1>1, <1>7, <2>1, <2>2
    <3>3. press'[t].drops \cap DOMAIN press'[t].view = {}
      BY <1>7, <2>1
    <3>4. Under(since'[t], press'[t].view)
      BY <1>1, <1>7, <2>3
    <3>5. least' + press'[t].gain <= Copies(Common(press'[t].view, After(press'[t], repo'))) + Waits(parts')
      <4>1. After(press'[t], repo') = After(change, repo)
        BY <1>1, <1>7 DEF After
      <4>2. least + 0 = least
        BY StockTypes
      <4> QED BY <1>1, <1>7, <2>5, <4>1, <4>2
    <3> QED BY <2>4, <3>1, <3>2, <3>3, <3>4, <3>5 DEF Sends
  <2>7. Rests(t)' /\ Sending(t)'
    BY <1>1, <2>4, NotOutIs DEF Rests, Sending
  <2> QED BY <1>1, <1>8, <2>6, <2>7 DEF Stocked
<1> QED BY <1>9, <1>10

\* The server makes the record of an add, which the view does not hold yet.
LEMMA StockedMakes ==
    ASSUME Typed, Typed', NEW t \in Tabs, Orderly(t), Stocked(t), Makes(t)
    PROVE  Stocked(t)'
<1>1. /\ press[t].kind = "add" /\ press[t] # NoPress /\ fresh[t] /\ out[t] = NotOut /\ minted' = minted + 1
      /\ parts' = parts /\ held' = held /\ since' = since /\ out' = out /\ fresh' = fresh /\ least' = least
  BY NoPressIs DEF Makes, Orderly, Ready, Single, viewVars, ownerVars
<1>2. Under(since[t], held[t]) /\ Backs(held[t])
  BY <1>1, NotOutIs DEF Stocked, Rests, Sending
<1>3. PICK one \in press[t].makes : repo' = Over(Only(minted', one), repo) /\ press' = [press EXCEPT ![t] = [NoPress EXCEPT
                 !.kind = "made", !.view = Only(minted', one), !.gain = 1]]
  BY DEF Makes
<1>4. one \in Owned /\ 1 <= one.n
  <2>1. one \in Owned
    BY TypedTab DEF PressesOf
  <2> QED BY <2>1, OwnedOnes
<1>5. press'[t].kind = "made" /\ press'[t].view = Only(minted', one) /\ press'[t].gain = 1
  BY <1>3 DEF Typed, CallTyped, NoPress
<1>6. /\ DOMAIN repo' = DOMAIN repo \cup {minted'} /\ repo'[minted'] = one
      /\ \A k \in DOMAIN repo : k # minted' => repo'[k] = repo[k]
  BY <1>3 DEF Over, Only
<1>7. minted' \notin DOMAIN repo /\ minted' \notin DOMAIN held[t]
  BY <1>1, StockTypes, MapsAre
<1>8. Backs(held[t])'
  <2>1. held[t] \in Maps(minted') /\ repo \in Maps(minted') /\ repo' \in Maps(minted') /\ minted' \in Nat
    <3>1. minted' \in Nat /\ minted <= minted'
      BY <1>1, StockTypes
    <3> QED BY <1>1, <3>1, StockTypes, MapsLater DEF Typed, RepoTyped
  <2>2. \A k \in DOMAIN held[t] \cap DOMAIN repo :
            k \in DOMAIN repo' /\ Low(held[t][k].n, repo[k].n) <= Low(held[t][k].n, repo'[k].n)
    <3>1. \A k \in DOMAIN held[t] : held[t][k].n \in Nat
      BY StockTypes, MapsAre, OwnedOnes
    <3>2. \A k \in DOMAIN repo : repo[k].n \in Nat
      BY StockTypes, MapsAre, OwnedOnes
    <3> QED BY <1>6, <1>7, <3>1, <3>2 DEF Low
  <2>3. least' <= Copies(Common(held[t], repo')) + Waits(parts')
    BY <1>1, <1>2, <2>1, <2>2, StockTypes, BacksStill
  <2> QED BY <1>1, <2>3 DEF Backs
<1>9. Rests(t)'
  <2>1. \E k \in DOMAIN repo' \ DOMAIN held'[t] :
            press'[t].view = Only(k, repo'[k]) /\ press'[t].gain <= repo'[k].n
    BY <1>1, <1>4, <1>5, <1>6, <1>7
  <2>2. ~out'[t].sheds /\ out'[t].said = "nothing"
    BY <1>1, NotOutIs
  <2> QED BY <1>8, <2>1, <2>2 DEF Rests
<1>10. ~Sending(t)'
  BY <1>5 DEF Sending
<1> QED BY <1>1, <1>2, <1>9, <1>10 DEF Stocked

\* A put makes no record lower than the view that is left should the press fail.
LEMMA StockedPuts ==
    ASSUME Typed, Typed', NEW t \in Tabs, Orderly(t), Stocked(t), Puts(t)
    PROVE  Stocked(t)'
<1>1. PICK k \in DOMAIN press[t].writes : /\ repo' = Over(Only(k, press[t].writes[k]), repo)
                                          /\ press' = [press EXCEPT ![t].writes = But(@, {k})]
  BY DEF Puts
<1>2. /\ parts' = parts /\ held' = held /\ since' = since /\ out' = out /\ fresh' = fresh /\ least' = least
      /\ minted' = minted
  BY DEF Puts, viewVars, ownerVars
<1>3. press[t].writes # Nothing /\ Sending(t) /\ press[t] # NoPress /\ fresh[t] /\ out[t] = NotOut
  BY NoPressIs DEF Orderly, Single, Ready, Sending, Nothing
<1>4. Under(since[t], held[t]) /\ Sends(t) /\ Backs(Base(t))
  BY <1>3 DEF Stocked, Sends
<1>5. /\ press'[t].kind = press[t].kind /\ press'[t].writes = But(press[t].writes, {k})
      /\ press'[t].drops = press[t].drops /\ press'[t].view = press[t].view /\ press'[t].gain = press[t].gain
  <2>1. press[t] \in PressesOf(minted) /\ press \in [Tabs -> PressesOf(minted)]
    BY DEF Typed, CallTyped
  <2> QED BY <1>1, <2>1 DEF PressesOf
<1>6. After(press'[t], repo') = After(press[t], repo)
  <2>1. Over(But(press[t].writes, {k}), Over(Only(k, press[t].writes[k]), repo)) = Over(press[t].writes, repo)
    BY StockTypes, OverPut
  <2> QED BY <1>1, <1>5, <2>1 DEF After
<1>7. (Lifting(t)' <=> Lifting(t)) /\ Base(t)' = Base(t)
  <2>1. Merging(t)' <=> Merging(t)
    BY <1>2, <1>5 DEF Merging
  <2>2. Lifting(t)' <=> Lifting(t)
    BY <1>5, <2>1 DEF Lifting
  <2> QED BY <1>2, <1>5, <2>2 DEF Base
<1>8. /\ k \in DOMAIN press[t].view /\ press[t].view[k] = press[t].writes[k] /\ k \in DOMAIN held[t]
      /\ Lifting(t) => held[t][k].n <= press[t].writes[k].n
  BY <1>4 DEF Sends
<1>9. Backs(Base(t))'
  <2> DEFINE base == Base(t)
  <2>1. \A j \in DOMAIN base : base[j].n \in Nat
    BY StockTypes, MapsAre, OwnedOnes
  <2>2. \A j \in DOMAIN repo : repo[j].n \in Nat
    BY StockTypes, MapsAre, OwnedOnes
  <2>3. press[t].writes[k].n \in Nat /\ held[t][k].n \in Nat
    BY <1>8, StockTypes, MapsAre, OwnedOnes
  <2>4. k \in DOMAIN base => base[k].n <= press[t].writes[k].n
    <3>1. CASE Lifting(t)
      BY <1>8, <3>1 DEF Base
    <3>2. CASE ~Lifting(t)
      <4>1. base = Common(held[t], press[t].view)
        BY <3>2 DEF Base
      <4>2. Common(held[t], press[t].view)[k].n = Low(held[t][k].n, press[t].view[k].n)
        BY <1>8 DEF Common
      <4> QED BY <1>8, <2>3, <4>1, <4>2 DEF Low
    <3> QED BY <3>1, <3>2
  <2>5. /\ DOMAIN repo' = DOMAIN repo \cup {k} /\ repo'[k] = press[t].writes[k]
        /\ \A j \in DOMAIN repo : j # k => repo'[j] = repo[j]
    BY <1>1 DEF Over, Only
  <2>6. base \in Maps(minted) /\ minted \in Nat /\ repo \in Maps(minted) /\ repo' \in Maps(minted)
        /\ least \in Nat /\ Waits(parts) \in Nat
    BY <1>2, StockTypes DEF Typed, RepoTyped
  <2> HIDE DEF base
  <2>7. \A j \in DOMAIN base \cap DOMAIN repo :
            j \in DOMAIN repo' /\ Low(base[j].n, repo[j].n) <= Low(base[j].n, repo'[j].n)
    BY <2>1, <2>2, <2>3, <2>4, <2>5 DEF Low
  <2>8. least' <= Copies(Common(base, repo')) + Waits(parts')
    BY <1>2, <1>4, <2>6, <2>7, BacksStill DEF base
  <2> QED BY <1>7, <2>8 DEF Backs, base
<1>10. Sends(t)'
  <2>1. DOMAIN press'[t].writes = DOMAIN press[t].writes \ {k}
        /\ \A j \in DOMAIN press[t].writes \ {k} : press'[t].writes[j] = press[t].writes[j]
    BY <1>5 DEF But, Restrict
  <2>2. \A j \in DOMAIN press'[t].writes :
              /\ j \in DOMAIN press'[t].view /\ press'[t].view[j] = press'[t].writes[j]
              /\ j \in DOMAIN held'[t]
              /\ Lifting(t)' => held'[t][j].n <= press'[t].writes[j].n
    BY <1>2, <1>4, <1>5, <1>7, <2>1 DEF Sends
  <2>3. /\ press'[t].drops \cap DOMAIN press'[t].view = {}
        /\ press'[t].kind = "edit" => \A i, j \in press'[t].drops : i = j
        /\ Under(since'[t], press'[t].view)
    BY <1>2, <1>4, <1>5 DEF Sends
  <2>4. least' + press'[t].gain <= Copies(Common(press'[t].view, After(press'[t], repo'))) + Waits(parts')
    BY <1>2, <1>4, <1>5, <1>6 DEF Sends
  <2> QED BY <1>9, <2>2, <2>3, <2>4 DEF Sends
<1>11. Sending(t)' /\ Rests(t)'
  BY <1>2, <1>3, <1>5, NotOutIs DEF Sending, Rests
<1> QED BY <1>2, <1>3, <1>4, <1>10, <1>11 DEF Stocked, Under

\* A delete is of what the view after does not hold, and the last call of an
\* edit that makes one.
LEMMA StockedRemoves ==
    ASSUME Typed, Typed', NEW t \in Tabs, Orderly(t), Stocked(t), Removes(t)
    PROVE  Stocked(t)'
<1>1. PICK k \in press[t].drops : repo' = But(repo, {k}) /\ press' = [press EXCEPT ![t].drops = @ \ {k}]
  BY DEF Removes
<1>2. /\ parts' = parts /\ held' = held /\ since' = since /\ out' = out /\ fresh' = fresh /\ least' = least
      /\ minted' = minted /\ press[t].writes = Nothing
  BY DEF Removes, viewVars, ownerVars, Written
<1>3. Sending(t) /\ press[t] # NoPress /\ fresh[t] /\ out[t] = NotOut
  BY NoPressIs DEF Orderly, Single, Ready, Sending
<1>4. Under(since[t], held[t]) /\ Sends(t)
  BY <1>3 DEF Stocked
<1>5. /\ press'[t].kind = press[t].kind /\ press'[t].writes = Nothing
      /\ press'[t].drops = press[t].drops \ {k} /\ press'[t].view = press[t].view /\ press'[t].gain = press[t].gain
  <2>1. press[t] \in PressesOf(minted) /\ press \in [Tabs -> PressesOf(minted)]
    BY DEF Typed, CallTyped
  <2> QED BY <1>1, <1>2, <2>1 DEF PressesOf
<1>6. After(press'[t], repo') = After(press[t], repo)
  <2>1. Over(Nothing, repo) = repo /\ Over(Nothing, But(repo, {k})) = But(repo, {k})
    BY StockTypes, ButMap, OverNothing
  <2>2. But(But(repo, {k}), press[t].drops \ {k}) = But(repo, press[t].drops)
    BY ButRemove
  <2> QED BY <1>1, <1>2, <1>5, <2>1, <2>2 DEF After
<1>7. ASSUME press[t].kind = "edit", ~Merged(t)' PROVE Backs(Base(t))'
  <2>1. press'[t].drops = {}
    BY <1>4, <1>5, <1>7 DEF Sends
  <2>2. ~Merging(t)
    BY <1>2, <1>5, <1>7, <2>1 DEF Merging, Merges, Merged
  <2>3. Base(t) = Common(held[t], press[t].view) /\ Base(t)' = Base(t)
    BY <1>2, <1>5, <1>7, <2>2 DEF Base, Lifting, Merging
  <2>4. Backs(Base(t))
    BY <1>4, <1>7, <1>2, <2>2 DEF Sends, Merged, Merging, Merges
  <2>5. k \notin DOMAIN Base(t)
    <3>1. k \notin DOMAIN press[t].view
      BY <1>4 DEF Sends
    <3>2. DOMAIN Common(held[t], press[t].view) = DOMAIN held[t] \cap DOMAIN press[t].view
      BY DEF Common
    <3> QED BY <2>3, <3>1, <3>2
  <2> DEFINE base == Base(t)
  <2>6. DOMAIN repo' = DOMAIN repo \ {k} /\ \A j \in DOMAIN repo \ {k} : repo'[j] = repo[j]
    BY <1>1, ButAt
  <2>7. base \in Maps(minted) /\ minted \in Nat /\ repo \in Maps(minted) /\ repo' \in Maps(minted)
        /\ least \in Nat /\ Waits(parts) \in Nat
    BY <1>2, StockTypes DEF Typed, RepoTyped
  <2>8. /\ \A j \in DOMAIN base : base[j].n \in Nat
        /\ \A j \in DOMAIN repo : repo[j].n \in Nat
    BY StockTypes, MapsAre, OwnedOnes
  <2>9. k \notin DOMAIN base /\ Backs(base)
    BY <2>4, <2>5
  <2> HIDE DEF base
  <2>10. \A j \in DOMAIN base \cap DOMAIN repo :
            j \in DOMAIN repo' /\ Low(base[j].n, repo[j].n) <= Low(base[j].n, repo'[j].n)
    BY <2>6, <2>8, <2>9 DEF Low
  <2>11. least' <= Copies(Common(base, repo')) + Waits(parts')
    BY <1>2, <2>7, <2>9, <2>10, BacksStill
  <2> QED BY <2>3, <2>11 DEF Backs, base
<1>8. Sends(t)'
  <2>1. DOMAIN press'[t].writes = {}
    BY <1>5, NothingMap
  <2>2. /\ press'[t].drops \cap DOMAIN press'[t].view = {}
        /\ press'[t].kind = "edit" => \A i, j \in press'[t].drops : i = j
        /\ Under(since'[t], press'[t].view)
    BY <1>2, <1>4, <1>5 DEF Sends
  <2>3. least' + press'[t].gain <= Copies(Common(press'[t].view, After(press'[t], repo'))) + Waits(parts')
    BY <1>2, <1>4, <1>5, <1>6 DEF Sends
  <2>4. press'[t].writes # Nothing \/ (press'[t].kind = "edit" /\ ~Merged(t)') => Backs(Base(t))'
    BY <1>5, <1>7
  <2> QED BY <2>1, <2>2, <2>3, <2>4 DEF Sends
<1>9. Sending(t)' /\ Rests(t)'
  BY <1>2, <1>3, <1>5, NotOutIs DEF Sending, Rests
<1> QED BY <1>2, <1>3, <1>4, <1>8, <1>9 DEF Stocked, Under

\* A press that is done leaves a view that backs the copies and those it gained.
LEMMA StockedPressEnds ==
    ASSUME Typed, Typed', NEW t \in Tabs, Orderly(t), Stocked(t), PressEnds(t)
    PROVE  Stocked(t)'
<1>1. /\ parts' = parts /\ since' = since /\ out' = out /\ fresh' = fresh /\ repo' = repo
      /\ press[t].writes = Nothing /\ press[t].drops = {} /\ least' = least + press[t].gain
      /\ Sending(t) /\ press[t] # NoPress /\ fresh[t] /\ out[t] = NotOut
  BY NoPressIs DEF PressEnds, repoVars, Written, Orderly, Ready, Single, Sending
<1>2. Sends(t)
  BY <1>1 DEF Stocked
<1>3. After(press[t], repo) = repo
  <2>1. But(Over(Nothing, repo), {}) = repo
    BY StockTypes, OverNothing
  <2> QED BY <1>1, <2>1 DEF After
<1>4. held'[t] = press[t].view
  BY AtTab DEF PressEnds
<1>5. press'[t] = NoPress \/ press'[t].kind = "drop"
  BY DEF PressEnds, Typed, CallTyped, NoPress
<1>6. Backs(held[t])' /\ Under(since[t], held[t])'
  BY <1>1, <1>2, <1>3, <1>4 DEF Sends, Backs
<1> QED BY <1>1, <1>5, <1>6, NoPressIs, StockedRests

\* The copy an add made is in the view as it is in the repository.
LEMMA StockedAddEnds ==
    ASSUME Typed, Typed', NEW t \in Tabs, Orderly(t), Stocked(t), AddEnds(t)
    PROVE  Stocked(t)'
<1>1. /\ parts' = parts /\ since' = since /\ out' = out /\ fresh' = fresh /\ repo' = repo
      /\ press[t].kind = "made" /\ least' = least + press[t].gain
      /\ press[t] # NoPress /\ fresh[t] /\ out[t] = NotOut
  BY NoPressIs DEF AddEnds, repoVars, Orderly, Ready, Single
<1>2. Under(since[t], held[t]) /\ Backs(held[t]) /\ Rests(t)
  BY <1>1, NotOutIs DEF Stocked, Rests, Sending
<1>3. PICK k \in DOMAIN repo \ DOMAIN held[t] :
          press[t].view = Only(k, repo[k]) /\ press[t].gain <= repo[k].n
  BY <1>1, <1>2 DEF Rests
<1>4. held'[t] = Over(press[t].view, held[t]) /\ press'[t] = NoPress
  BY AtTab DEF AddEnds, Done, Typed, ViewTyped
<1> DEFINE view == held[t]  new == Over(Only(k, repo[k]), held[t])
           change == [writes |-> Only(k, repo[k]), drops |-> {}]
<1>5. /\ minted \in Nat /\ repo \in Maps(minted) /\ view \in Maps(minted)
      /\ least \in Nat /\ Waits(parts) \in Nat /\ press[t].gain \in {0, 1}
  BY StockTypes
<1>6. k \in (1 .. minted) \ DOMAIN view /\ repo[k] \in Owned /\ repo[k].n \in Nat
  BY <1>5, MapsAre, OwnedOnes
<1>7. Only(k, repo[k]) \in Maps(minted) /\ new \in Maps(minted)
  BY <1>5, <1>6, OnlyMap, OverMap
<1>8. After(change, view) = new /\ After(change, repo) = repo
  <2>1. Under(Only(k, repo[k]), repo)
    BY DEF Under, Only
  <2>2. Over(Only(k, repo[k]), repo) = repo
    BY <1>5, <1>7, <2>1, OverUnder
  <2>3. But(new, {}) = new /\ But(repo, {}) = repo
    BY <1>5, <1>7, OverNothing
  <2> QED BY <2>2, <2>3 DEF After
<1>9. Copies(new) = repo[k].n + Copies(view)
  BY <1>5, <1>6, CopiesNew
<1> DEFINE a == Copies(Common(view, repo))  b == Copies(Common(new, repo))  c == Copies(view)  d == Copies(new)
<1>10. a + d <= b + c
  <2>1. change.writes \in Maps(minted)
    BY <1>7
  <2> HIDE DEF change, view, new
  <2> QED BY <1>5, <1>8, <2>1, CommonAfter
<1>11. a \in Nat /\ b \in Nat /\ c \in Nat /\ d \in Nat
  BY <1>5, <1>7, CommonOne
<1>12. least <= a + Waits(parts) /\ press[t].gain <= repo[k].n
  BY <1>2, <1>3 DEF Backs
<1>13. held'[t] = new /\ Under(since[t], held[t])'
  <2>1. held'[t] = new
    BY <1>3, <1>4
  <2>2. Under(since[t], new)
    BY <1>2, <1>3 DEF Under, Over, Only
  <2> QED BY <1>1, <2>1, <2>2
<1>14. Backs(held[t])'
  <2>1. d = repo[k].n + c
    BY <1>9
  <2> HIDE DEF a, b, c, d, new
  <2>2. least + press[t].gain <= b + Waits(parts)
    BY <1>5, <1>6, <1>10, <1>11, <1>12, <2>1
  <2> QED BY <1>1, <1>13, <2>2 DEF Backs, b
<1> QED BY <1>1, <1>4, <1>13, <1>14, NoPressIs, StockedRests

\* A press that fails half way leaves the view as it was, which still backs the
\* copies: an edit that took some away by then had them taken off the owner's.
LEMMA StockedPressFails ==
    ASSUME Typed, Typed', NEW t \in Tabs, Tame(t), Orderly(t), Stocked(t), PressFails(t)
    PROVE  Stocked(t)'
<1>1. /\ parts' = parts /\ since' = since /\ out' = out /\ fresh' = fresh /\ repo' = repo /\ held' = held
      /\ press[t].kind \in {"add", "made", "edit"} /\ least' = least
      /\ press[t] # NoPress /\ fresh[t] /\ out[t] = NotOut /\ (press[t].kind = "edit" => ~Merged(t))
  BY NoPressIs, FailMeets DEF Tame, PressFails, repoVars, viewVars, Orderly, Ready, Single
<1>2. press'[t] = NoPress
  BY <1>1, AtTab DEF PressFails
<1>3. Backs(held[t])
  <2>1. CASE press[t].kind \in {"add", "made"}
    BY <1>1, <2>1, NotOutIs DEF Stocked, Rests, Sending
  <2>2. CASE press[t].kind = "edit"
    <3>1. Backs(Base(t))
      BY <1>1, <2>2 DEF Stocked, Sending, Sends
    <3>2. CASE Lifting(t)
      BY <3>1, <3>2 DEF Base
    <3>3. CASE ~Lifting(t)
      <4> DEFINE view == held[t]  base == Common(view, press[t].view)
      <4>1. Base(t) = base
        BY <3>3 DEF Base
      <4>2. /\ minted \in Nat /\ repo \in Maps(minted) /\ view \in Maps(minted) /\ press[t].view \in Maps(minted)
            /\ least \in Nat /\ Waits(parts) \in Nat
        BY StockTypes
      <4>3. /\ base \in Maps(minted) /\ DOMAIN base = DOMAIN view \cap DOMAIN press[t].view
            /\ \A k \in DOMAIN view \cap DOMAIN press[t].view : base[k].n = Low(view[k].n, press[t].view[k].n)
        BY <4>2, CommonMap
      <4>4. /\ \A k \in DOMAIN repo : repo[k].n \in Nat
            /\ \A k \in DOMAIN view : view[k].n \in Nat
            /\ \A k \in DOMAIN press[t].view : press[t].view[k].n \in Nat
        BY <4>2, MapsAre, OwnedOnes
      <4> HIDE DEF base, view
      <4>5. \A k \in DOMAIN base \cap DOMAIN repo :
                k \in DOMAIN view /\ k \in DOMAIN repo /\ Low(base[k].n, repo[k].n) <= Low(view[k].n, repo[k].n)
        BY <4>3, <4>4 DEF Low
      <4>6. Copies(Common(base, repo)) <= Copies(Common(view, repo))
        BY <4>2, <4>3, <4>5, CommonLess
      <4>7. Copies(Common(base, repo)) \in Nat /\ Copies(Common(view, repo)) \in Nat
        BY <4>2, <4>3, CommonOne
      <4>8. least <= Copies(Common(base, repo)) + Waits(parts)
        BY <3>1, <4>1 DEF Backs
      <4>9. least <= Copies(Common(view, repo)) + Waits(parts)
        BY <4>2, <4>6, <4>7, <4>8
      <4> QED BY <4>9 DEF Backs, view
    <3> QED BY <3>2, <3>3
  <2> QED BY <1>1, <2>1, <2>2
<1>4. Under(since[t], held[t])' /\ Backs(held[t])'
  BY <1>1, <1>3 DEF Stocked, Backs
<1> QED BY <1>1, <1>2, <1>4, NoPressIs, StockedRests

\* Every step of a press.
LEMMA StockedPressing ==
    ASSUME Typed, Typed', NEW t \in Tabs, Tame(t), Orderly(t), Stocked(t), Pressing(t)
    PROVE  Stocked(t)'
<1>1. CASE Adds(t)
  <2>1. /\ parts' = parts /\ since' = since /\ out' = out /\ fresh' = fresh /\ repo' = repo /\ held' = held
        /\ least' = least /\ press[t] = NoPress /\ fresh[t] /\ out[t] = NotOut
    BY <1>1, PressMeets DEF Tame, Adds, repoVars, viewVars
  <2>2. Under(since[t], held[t])' /\ Backs(held[t])'
    BY <2>1, NoPressIs, NotOutIs DEF Stocked, Rests, Sending, Backs
  <2>3. press'[t].kind = "add"
    BY <1>1 DEF Adds, Begin, Typed, CallTyped, NoPress
  <2> QED BY <2>1, <2>2, <2>3, StockedRests
<1>2. CASE DropsPlace(t)
  <2>1. /\ parts' = parts /\ since' = since /\ out' = out /\ fresh' = fresh /\ repo' = repo /\ held' = held
        /\ least' = least /\ press[t].kind = "drop" /\ press[t] # NoPress /\ fresh[t] /\ out[t] = NotOut
    BY <1>2, NoPressIs DEF DropsPlace, Orderly, Ready, Single, viewVars, ownerVars
  <2>2. Under(since[t], held[t])' /\ Backs(held[t])'
    BY <2>1, NotOutIs DEF Stocked, Rests, Sending, Backs
  <2>3. press'[t] = NoPress
    BY <1>2, AtTab DEF DropsPlace, Done
  <2> QED BY <2>1, <2>2, <2>3, NoPressIs, StockedRests
<1>3. ~Turns(t)
  BY DEF Turns, Orderly, Single
<1> QED BY <1>1, <1>2, <1>3, StockedAmends, StockedUnfiles, StockedMakes, StockedPuts, StockedRemoves,
           StockedPressEnds, StockedAddEnds, StockedPressFails DEF Pressing

\* A file that lands is owed whole, and waits whole.
LEMMA StockedImports ==
    ASSUME Typed, Typed', NEW t \in Tabs, Orderly(t), Stocked(t), Imports(t)
    PROVE  Stocked(t)'
<1>1. /\ since' = since /\ fresh' = fresh /\ repo' = repo /\ held' = held
      /\ press' = press /\ out' = out /\ out[t] = NotOut /\ listed[t] /\ pending[t] = Nothing
  BY DEF Imports, viewVars
<1>2. parts = Nothing
  BY <1>1, NotOutIs DEF Orderly, Lists
<1>3. PICK some \in SUBSET coming :
          /\ parts' = Over(Restrict(File, some), parts)
          /\ least' = least + SumFunction([p \in some |-> AllOf(File[p])])
  BY DEF Imports
<1> DEFINE more == SumFunction([p \in some |-> AllOf(File[p])])
<1>4. Waits(parts) = 0 /\ Waits(parts') = more /\ more \in Nat
  <2>1. some \in SUBSET Parts
    BY DEF Typed, RepoTyped
  <2> QED BY <1>2, <1>3, <2>1, WaitsFile
<1>5. least' = least + more /\ least \in Nat
  BY <1>3, StockTypes
<1> HIDE DEF more
<1>6. \A n \in Nat : least <= n + Waits(parts) => least' <= n + Waits(parts')
  BY <1>4, <1>5
<1>7. CASE ~fresh[t]
  <2>1. Copies(repo) \in Nat
    BY StockTypes, CopiesPadded
  <2>2. Copies(repo) + Waits(parts) >= least
    BY <1>7 DEF Stocked, Enough
  <2>3. Copies(repo) + Waits(parts') >= least'
    BY <1>4, <1>5, <2>1, <2>2
  <2> QED BY <1>1, <1>7, <2>3 DEF Stocked, Enough
<1>8. CASE fresh[t]
  <2>1. ASSUME NEW view \in Maps(minted), Backs(view)
        PROVE  least' <= Copies(Common(view, repo)) + Waits(parts')
    <3>1. Copies(Common(view, repo)) \in Nat
      BY StockTypes, CommonOne
    <3> QED BY <1>6, <2>1, <3>1 DEF Backs
  <2>2. Under(since[t], held[t])'
    BY <1>1, <1>8 DEF Stocked
  <2>3. ASSUME Sending(t), Sends(t) PROVE Sends(t)'
    <3>1. Backs(Base(t)) => Backs(Base(t))'
      <4>1. Base(t)' = Base(t)
        BY <1>1 DEF Base, Lifting, Merging
      <4>2. Base(t) \in Maps(minted)
        BY StockTypes
      <4> QED BY <1>1, <2>1, <4>1, <4>2 DEF Backs
    <3>2. least' + press[t].gain <= Copies(Common(press[t].view, After(press[t], repo))) + Waits(parts')
      <4> DEFINE n == Copies(Common(press[t].view, After(press[t], repo)))
      <4>1. After(press[t], repo) \in Maps(minted)
        BY StockTypes, OverMap, ButMap DEF After
      <4>2. n \in Nat /\ press[t].gain \in Nat
        BY <4>1, StockTypes, CommonOne
      <4>3. least + press[t].gain <= n + Waits(parts)
        BY <2>3 DEF Sends
      <4> HIDE DEF n
      <4>4. least' + press[t].gain <= n + Waits(parts')
        BY <1>4, <1>5, <4>2, <4>3
      <4> QED BY <4>4 DEF n
    <3> QED BY <1>1, <2>3, <3>1, <3>2 DEF Sends, Lifting, Merging, Merged, Under
  <2>4. Rests(t)'
    <3>1. Backs(held[t]) => Backs(held[t])'
      BY <1>1, <2>1, StockTypes DEF Backs
    <3> QED BY <1>1, <1>8, <3>1, NotOutIs DEF Stocked, Rests, Sending
  <2>5. Sending(t)' <=> Sending(t)
    BY <1>1 DEF Sending
  <2> QED BY <1>1, <1>8, <2>2, <2>3, <2>4, <2>5 DEF Stocked
<1> QED BY <1>7, <1>8

\* A drain is sent: what it writes is of the view that backs the copies.
LEMMA StockedDrains ==
    ASSUME Typed, Typed', NEW t \in Tabs, Tame(t), Orderly(t), Stocked(t), Drains(t)
    PROVE  Stocked(t)'
<1>1. /\ parts' = parts /\ since' = since /\ fresh' = fresh /\ repo' = repo /\ held' = held /\ least' = least
      /\ press' = press /\ fresh[t] /\ listed[t] /\ out[t] = NotOut /\ press[t] = NoPress
      /\ pending[t] # Nothing
  BY DrainMeets DEF Drains, Tame, LockFree, repoVars, viewVars
<1>2. Under(since[t], held[t]) /\ Backs(held[t])
  BY <1>1, NoPressIs, NotOutIs DEF Stocked, Rests, Sending
<1> DEFINE p == Min(DOMAIN pending[t])
<1>3. PICK writes \in Drained(pending[t][p], held[t], later[t]) :
          out' = [out EXCEPT ![t] = [NotOut EXCEPT
              !.said = "out", !.updates = writes.updates, !.creates = writes.creates,
              !.takes = {p}]]
  BY DEF Drains
<1>4. parts = pending[t] /\ p \in DOMAIN parts /\ parts[p] \in Entries
  <2>1. parts = pending[t]
    BY <1>1, NotOutIs DEF Orderly, Lists
  <2> QED BY <1>1, <2>1, TypedTab, FirstPart
<1> HIDE DEF p
<1>5. Fills(writes.updates, writes.creates, parts[p], held[t])
  <2>1. Under(later[t], held[t])
    BY <1>2, UnderUnder DEF Orderly, Recalls
  <2>2. writes \in Drained(parts[p], held[t], later[t])
    BY <1>3, <1>4
  <2> QED BY <1>4, <2>1, <2>2, StockTypes, DrainedFills
<1>6. /\ out'[t].said = "out" /\ ~out'[t].sheds /\ out'[t].leaves = Nothing /\ out'[t].takes = {p}
      /\ out'[t].updates = writes.updates /\ out'[t].creates = writes.creates
  BY <1>3 DEF Typed, CallTyped, NotOut
<1>7. Rests(t)'
  <2>1. press'[t].kind = "none" /\ Backs(held[t])'
    BY <1>1, <1>2, NoPressIs DEF Backs
  <2> QED BY <1>1, <1>4, <1>5, <1>6, <2>1 DEF Rests
<1>8. ~Sending(t)'
  BY <1>1, NoPressIs DEF Sending
<1> QED BY <1>1, <1>2, <1>7, <1>8 DEF Stocked

\* A shed is sent: the owner is to have no more than what it leaves.
LEMMA StockedSheds ==
    ASSUME Typed, Typed', NEW t \in Tabs, Tame(t), Orderly(t), Stocked(t), Sheds(t)
    PROVE  Stocked(t)'
<1>1. /\ parts' = parts /\ since' = since /\ fresh' = fresh /\ repo' = repo /\ held' = held
      /\ press' = press /\ fresh[t] /\ out[t] = NotOut /\ press[t] = NoPress
  BY PressMeets DEF Sheds, Tame, repoVars, viewVars
<1>2. Under(since[t], held[t]) /\ Backs(held[t])
  BY <1>1, NoPressIs, NotOutIs DEF Stocked, Rests, Sending
<1>3. PICK id \in Ids : \E copies \in {1, Waiting(parts, id)} :
              /\ \A k \in DOMAIN held[t] : held[t][k].id # id
              /\ Waiting(parts, id) > 0
              /\ out' = [out EXCEPT ![t] = ShedCall(Shed(parts, id, copies))]
              /\ Asks({}, {id}, copies)
              /\ least' = Less(least, copies)
  BY ShedsPicks
<1>4. PICK copies \in {1, Waiting(parts, id)} :
              /\ out' = [out EXCEPT ![t] = ShedCall(Shed(parts, id, copies))]
              /\ least' = Less(least, copies)
  BY <1>3
<1> DEFINE left == Shed(parts, id, copies)
<1>5. parts \in Listings /\ copies \in Nat
  BY HeldMaps
<1>6. left \in Listings /\ DOMAIN left \subseteq DOMAIN parts
  BY <1>5, FiniteAssumption, ShedTyped
<1>7. Waits(left) <= Waits(parts) /\ Waits(parts) <= Waits(left) + copies /\ Waits(left) \in Nat
  BY <1>5, WaitsShed
<1>8. out'[t] = ShedCall(left)
  BY <1>4, AtTab
<1> HIDE DEF left
<1>9. /\ out'[t].said = "out" /\ out'[t].sheds /\ out'[t].updates = Nothing /\ out'[t].creates = {}
      /\ out'[t].wrote = Nothing
  BY <1>8 DEF ShedCall, NotOut
<1>10. Taken(out[t])' = left
  <2>1. Taken(ShedCall(left)) = left
    BY <1>5, <1>6, ShedTaken
  <2> QED BY <1>1, <1>8, <2>1 DEF Taken
<1>11. least' <= Copies(Common(held[t], repo)) + Waits(left) /\ Backs(held[t])'
  <2> DEFINE n == Copies(Common(held[t], repo))
  <2>1. n \in Nat /\ least \in Nat /\ Waits(parts) \in Nat
    BY StockTypes, CommonOne
  <2>2. least <= n + Waits(parts)
    BY <1>2 DEF Backs
  <2> HIDE DEF n
  <2>3. least' <= n + Waits(left)
    BY <1>4, <1>5, <1>7, <2>1, <2>2 DEF Less
  <2>4. least' <= n + Waits(parts)
    BY <1>4, <1>5, <1>7, <2>1, <2>2 DEF Less
  <2> QED BY <1>1, <2>3, <2>4 DEF Backs, n
<1>12. Rests(t)' /\ ~Sending(t)'
  <2>1. press'[t].kind = "none"
    BY <1>1, NoPressIs
  <2> QED BY <1>1, <1>9, <1>10, <1>11, <2>1 DEF Rests, Sending
<1> QED BY <1>1, <1>2, <1>12 DEF Stocked

\* A drain that lands makes of its part the copies that waited in it, and its
\* tab's view with what it wrote backs them.
LEMMA LandingBacks ==
    ASSUME NEW m \in Nat, NEW n \in Nat, m <= n, NEW view \in Maps(m), NEW found \in Maps(m),
           NEW updates \in Maps(m), NEW creates \in SUBSET Owned, NEW listing \in Listings, NEW p \in DOMAIN listing,
           Fills(updates, creates, listing[p], view), NEW made \in Bijection(m + 1 .. n, creates),
           NEW had \in Nat, had <= Copies(Common(view, found)) + Waits(listing)
    PROVE  had <= Copies(Common(Over(Over(updates, made), view), Over(updates, Over(made, found))))
                     + Waits(But(listing, {p}))
<1> DEFINE wrote == Over(updates, made)
           change == [writes |-> wrote, drops |-> {}]
           v == Over(wrote, view)  r == Over(wrote, found)
<1>1. made \in Maps(n)
  <2>1. made \in [m + 1 .. n -> creates]
    BY DEF Bijection, Injection
  <2>2. DOMAIN made \subseteq 1 .. n
    BY <2>1
  <2> QED BY <2>1, <2>2, MapsAre
<1>2. view \in Maps(n) /\ found \in Maps(n) /\ updates \in Maps(n)
  BY MapsLater
<1>3. wrote \in Maps(n) /\ v \in Maps(n) /\ r \in Maps(n)
  BY <1>1, <1>2, OverMap
<1>4. After(change, view) = v /\ After(change, found) = r
  BY <1>3, OverNothing DEF After
<1>5. v = Over(updates, Over(made, view)) /\ r = Over(updates, Over(made, found))
  BY OverOver
<1>6. listing[p] \in Entries
  BY ListingsAre
<1>7. Copies(Over(updates, Over(made, view))) = Copies(view) + AllOf(listing[p])
  <2> DEFINE part == listing[p]
  <2>1. part \in Entries /\ Fills(updates, creates, part, view)
    BY <1>6
  <2> HIDE DEF part
  <2>2. Copies(Over(updates, Over(made, view))) = Copies(view) + AllOf(part)
    BY <2>1, LandingCopies
  <2> QED BY <2>2 DEF part
<1>8. /\ Waits(listing) = AllOf(listing[p]) + Waits(But(listing, {p})) /\ Waits(But(listing, {p})) \in Nat
      /\ AllOf(listing[p]) \in Nat
  BY WaitsBut
<1> DEFINE a == Copies(Common(view, found))  b == Copies(Common(v, r))  c == Copies(view)  d == Copies(v)
<1>9. a + d <= b + c
  <2>1. change.writes \in Maps(n)
    BY <1>3
  <2> HIDE DEF change, v, r
  <2> QED BY <1>2, <1>4, <2>1, CommonAfter
<1>10. a \in Nat /\ b \in Nat /\ c \in Nat /\ d \in Nat
  BY <1>2, <1>3, CommonOne
<1>11. d = c + AllOf(listing[p])
  BY <1>5, <1>7
<1>12. had <= a + Waits(listing)
  OBVIOUS
<1> HIDE DEF a, b, c, d
<1>13. had <= b + Waits(But(listing, {p}))
  BY <1>8, <1>9, <1>10, <1>11, <1>12
<1> QED BY <1>5, <1>13 DEF b

\* A call lands.
LEMMA StockedLands ==
    ASSUME Typed, Typed', NEW t \in Tabs, Orderly(t), Stocked(t), Lands(t)
    PROVE  Stocked(t)'
<1> DEFINE call == out[t]
           last == minted + Cardinality(call.creates)
<1>1. /\ since' = since /\ fresh' = fresh /\ held' = held /\ least' = least
      /\ press' = press /\ call.said = "out" /\ call # NotOut /\ fresh[t] /\ press[t] = NoPress
      /\ parts' = Taken(call)
  BY NotOutIs DEF Lands, Orderly, Ready, Single, ownerVars, viewVars
<1>2. Under(since[t], held[t]) /\ Backs(held[t]) /\ Rests(t)
  BY <1>1, NoPressIs DEF Stocked, Rests, Sending
<1>3. PICK made \in [minted + 1 .. last -> call.creates] :
          /\ Range(made) = call.creates
          /\ repo' = Over(call.updates, Over(made, repo))
          /\ out' = [out EXCEPT ![t].said = "landed", ![t].wrote = Over(call.updates, made)]
  BY DEF Lands
<1>4. /\ out'[t].said = "landed" /\ out'[t].wrote = Over(call.updates, made) /\ out'[t].sheds = call.sheds
      /\ out'[t].updates = call.updates /\ out'[t].creates = call.creates
  <2> DEFINE new == [out[t] EXCEPT !.said = "landed", !.wrote = Over(call.updates, made)]
  <2>1. out' = [out EXCEPT ![t] = new]
    BY <1>3
  <2>2. /\ new.said = "landed" /\ new.wrote = Over(call.updates, made) /\ new.sheds = call.sheds
        /\ new.updates = call.updates /\ new.creates = call.creates
    BY TypedTab DEF CallsOf
  <2>3. out'[t] = new
    <3> HIDE DEF new
    <3> QED BY <2>1, AtTab
  <2> QED BY <2>2, <2>3
<1>5. /\ call.updates \in Maps(minted) /\ call.creates \in SUBSET Owned /\ IsFiniteSet(call.creates)
      /\ minted \in Nat /\ repo \in Maps(minted) /\ parts \in Listings /\ Cardinality(call.creates) \in Nat
      /\ held[t] \in Maps(minted) /\ least \in Nat
  BY StockTypes, FS_CardinalityType
<1>6. /\ least' <= Copies(Common(Over(out'[t].wrote, held[t]), repo')) + Waits(parts')
      /\ call.sheds => call.updates = Nothing /\ call.creates = {} /\ out'[t].wrote = Nothing
  <2>1. CASE ~call.sheds
    <3>1. PICK p \in DOMAIN parts : call.takes = {p} /\ Fills(call.updates, call.creates, parts[p], held[t])
      BY <1>1, <1>2, <2>1 DEF Rests
    <3>2. made \in Bijection(minted + 1 .. last, call.creates)
      <4> DEFINE creates == call.creates
      <4>1. made \in [minted + 1 .. minted + Cardinality(creates) -> creates] /\ Range(made) = creates
        BY <1>3
      <4>2. minted \in Nat /\ IsFiniteSet(creates)
        BY <1>5
      <4>3. made \in Bijection(minted + 1 .. minted + Cardinality(creates), creates)
        <5> HIDE DEF creates
        <5> QED BY <4>1, <4>2, KeysOfTheirOwn
      <4> QED BY <4>3
    <3>3. last \in Nat /\ minted <= last
      BY <1>5
    <3>4. parts' = But(parts, {p})
      <4>1. But(parts, {p}) \in Listings
        BY <1>5, ButListing
      <4>2. But(parts, {p}) = [q \in DOMAIN But(parts, {p}) |-> But(parts, {p})[q]]
        BY <4>1, ListingsAre
      <4>3. Over(Nothing, But(parts, {p})) = But(parts, {p})
        BY <4>2 DEF Over, Nothing
      <4>4. call.leaves = Nothing
        BY <1>1, <1>2, <2>1 DEF Rests
      <4> QED BY <1>1, <3>1, <4>3, <4>4 DEF Taken
    <3>5. least <= Copies(Common(held[t], repo)) + Waits(parts)
      BY <1>2 DEF Backs
    <3>6. least <= Copies(Common(Over(Over(call.updates, made), held[t]), Over(call.updates, Over(made, repo))))
                       + Waits(But(parts, {p}))
      <4> DEFINE updates == call.updates  creates == call.creates  view == held[t]
      <4>1. /\ updates \in Maps(minted) /\ creates \in SUBSET Owned /\ view \in Maps(minted)
            /\ Fills(updates, creates, parts[p], view) /\ least <= Copies(Common(view, repo)) + Waits(parts)
        BY <1>5, <3>1, <3>5
      <4>2. made \in Bijection(minted + 1 .. last, creates)
        BY <3>2
      <4> HIDE DEF updates, creates, view, last, call
      <4>3. least <= Copies(Common(Over(Over(updates, made), view), Over(updates, Over(made, repo))))
                         + Waits(But(parts, {p}))
        BY <1>5, <3>3, <4>1, <4>2, LandingBacks
      <4> QED BY <4>3 DEF updates, view
    <3> QED BY <1>1, <1>3, <1>4, <2>1, <3>4, <3>6
  <2>2. CASE call.sheds
    <3>1. call.updates = Nothing /\ call.creates = {}
      BY <1>2, <2>2 DEF Rests
    <3>2. last = minted
      BY <1>5, <3>1, FS_EmptySet
    <3>3. made = Nothing
      <4>1. DOMAIN made = minted + 1 .. minted
        BY <1>3, <3>2
      <4>2. DOMAIN made = {}
        BY <1>5, <4>1
      <4>3. made = [k \in DOMAIN made |-> made[k]]
        BY <1>3
      <4> QED BY <4>2, <4>3 DEF Nothing
    <3>4. Over(Nothing, Nothing) = Nothing /\ Over(Nothing, repo) = repo /\ Over(Nothing, held[t]) = held[t]
      BY <1>5, TypedTab, OverNothing
    <3>5. repo' = repo /\ out'[t].wrote = Nothing
      BY <1>3, <1>4, <3>1, <3>3, <3>4
    <3>6. least <= Copies(Common(held[t], repo)) + Waits(Taken(out[t]))
      BY <1>1, <1>2, <2>2 DEF Rests
    <3> QED BY <1>1, <3>1, <3>4, <3>5, <3>6
  <2> QED BY <2>1, <2>2
<1>7. Rests(t)' /\ ~Sending(t)'
  <2>1. press'[t].kind = "none"
    BY <1>1, NoPressIs
  <2>2. Backs(Over(out[t].wrote, held[t]))'
    BY <1>1, <1>6 DEF Backs
  <2> QED BY <1>4, <1>6, <2>1, <2>2 DEF Rests, Sending
<1> QED BY <1>1, <1>2, <1>7 DEF Stocked

\* The tab hears of it, and what it wrote is in its view.
LEMMA StockedHears ==
    ASSUME Typed, Typed', NEW t \in Tabs, Orderly(t), Stocked(t), Hears(t)
    PROVE  Stocked(t)'
<1>1. /\ parts' = parts /\ fresh' = fresh /\ repo' = repo /\ press' = press /\ least' = least
      /\ fresh[t] /\ out[t].said = "landed" /\ press[t] = NoPress
  BY NotOutIs DEF Hears, Orderly, Ready, Single, repoVars, ownerVars
<1>2. Under(since[t], held[t]) /\ Backs(Over(out[t].wrote, held[t]))
  BY <1>1 DEF Stocked, Rests
<1>3. since'[t] = Over(out[t].wrote, since[t]) /\ out'[t] = NotOut
  BY AtTab DEF Hears
<1>4. held'[t] = Over(since'[t], held[t])
  BY DEF Hears, Fold, Typed, ViewTyped
<1>5. held'[t] = Over(out[t].wrote, held[t])
  <2>1. Over(Over(out[t].wrote, since[t]), held[t]) = Over(out[t].wrote, Over(since[t], held[t]))
    BY OverOver
  <2>2. Over(since[t], held[t]) = held[t]
    BY <1>2, TypedTab, OverUnder
  <2> QED BY <1>3, <1>4, <2>1, <2>2
<1>6. Under(since[t], held[t])' /\ Backs(held[t])'
  BY <1>1, <1>2, <1>4, <1>5, UnderOver DEF Backs
<1> QED BY <1>1, <1>3, <1>6, NoPressIs, StockedRests

\* Or it does not: refused, or gone unheard.
LEMMA StockedMissed ==
    ASSUME Typed, Typed', NEW t \in Tabs, Tame(t), Orderly(t), Stocked(t), Denies(t) \/ Relists(t)
    PROVE  Stocked(t)'
<1>1. /\ parts' = parts /\ fresh' = fresh /\ repo' = repo /\ press' = press /\ least' = least
      /\ held' = held /\ since' = since /\ out[t] # NotOut /\ fresh[t] /\ press[t] = NoPress
  BY NotOutIs DEF Denies, Relists, Orderly, Ready, Single, repoVars, ownerVars, viewVars
<1>2. Under(since[t], held[t]) /\ Rests(t) /\ press[t].kind = "none"
  BY <1>1, NoPressIs DEF Stocked
<1>3. out[t].said # "landed" => Backs(held[t])
  BY <1>2 DEF Rests, Sending
<1>4. CASE Denies(t)
  <2>1. out[t] \in CallsOf(minted) /\ out \in [Tabs -> CallsOf(minted)]
    BY DEF Typed, CallTyped
  <2>2. /\ out[t].said = "out" /\ out'[t].said = "denied" /\ out'[t].sheds = out[t].sheds
        /\ out'[t].updates = out[t].updates /\ out'[t].creates = out[t].creates /\ out'[t].wrote = out[t].wrote
    BY <1>4, <2>1 DEF Denies, CallsOf
  <2>3. Rests(t)' /\ ~Sending(t)'
    BY <1>1, <1>2, <1>3, <2>2 DEF Rests, Sending, Backs
  <2> QED BY <1>1, <1>2, <2>3 DEF Stocked
<1>5. CASE Relists(t)
  <2>1. out'[t] = NotOut
    BY <1>5, AtTab DEF Relists
  <2>2. out[t].said = "landed" => out[t].sheds
    BY <1>5, RelistMeets DEF Tame
  <2>3. Backs(held[t])
    <3>1. CASE out[t].said # "landed"
      BY <1>3, <3>1
    <3>2. CASE out[t].said = "landed"
      <4>1. out[t].wrote = Nothing /\ Backs(Over(out[t].wrote, held[t]))
        BY <1>2, <2>2, <3>2 DEF Rests
      <4>2. Over(Nothing, held[t]) = held[t]
        BY StockTypes, OverNothing
      <4> QED BY <4>1, <4>2
    <3> QED BY <3>1, <3>2
  <2>4. Under(since[t], held[t])' /\ Backs(held[t])'
    BY <1>1, <1>2, <2>3 DEF Backs
  <2> QED BY <1>1, <1>2, <2>1, <2>4, StockedRests
<1> QED BY <1>4, <1>5

-----------------------------------------------------------------------------
\* The first states back the copies.
LEMMA StockedInit == ASSUME NEW t \in Tabs, Init PROVE Stocked(t)
<1>1. ~fresh[t] /\ least = Copies(repo) /\ parts = Nothing
  BY DEF Init
<1>2. Typed
  BY TypedInit
<1>3. Copies(repo) \in Nat
  BY <1>2, StockTypes, CopiesPadded
<1>4. Waits(Nothing) = 0
  BY WaitsFile
<1>5. Copies(repo) + Waits(parts) >= least
  BY <1>1, <1>3, <1>4
<1> QED BY <1>1, <1>5 DEF Stocked, Enough

\* Every step of a tab alone keeps them backed, unless it goes astray; once it did the
\* account starts from what there is when the page is opened anew.
Stored(t) == Typed /\ (~astray => Orderly(t) /\ Stocked(t))

LEMMA StockedAnew ==
    ASSUME Typed, NEW t \in Tabs, Closes(t), astray
    PROVE  Stocked(t)'
<1>1. ~fresh'[t] /\ repo' = repo /\ parts' = parts /\ least' = InAll
  BY ClosesAnew DEF Closes, repoVars
<1>2. InAll = Copies(repo) + Waits(parts) /\ InAll \in Nat
  BY InAllType DEF InAll, Waits, AllOf
<1>3. Copies(repo) + Waits(parts) >= InAll
  BY <1>2
<1> QED BY <1>1, <1>3 DEF Stocked, Enough

LEMMA StoredNext ==
    ASSUME NEW t \in Tabs, Alone(t), Stored(t), [Next]_vars
    PROVE  Stored(t)'
<1>1. Typed'
  BY TypedNext DEF Stored
<1>2. SUFFICES ASSUME ~astray' PROVE Orderly(t)' /\ Stocked(t)'
  BY <1>1 DEF Stored
<1>3. CASE UNCHANGED vars
  <2>1. Orderly(t) /\ Stocked(t)
    BY <1>2, <1>3 DEF Stored, vars, ownerVars
  <2>2. Orderly(t)'
    BY <1>3, <2>1 DEF Orderly, Ready, Single, Reads, Lists, Recalls,
                      vars, repoVars, ownerVars, viewVars, importVars
  <2>3. Stocked(t)'
    BY <1>3, <2>1, StockedSame DEF vars, repoVars, ownerVars, viewVars, importVars
  <2> QED BY <2>2, <2>3
<1>4. CASE Next /\ Tame(t)
  <2>1. Typed /\ Orderly(t) /\ Stocked(t)
    BY <1>4 DEF Stored, Tame
  <2>2. Viewing(t) \/ Pressing(t) \/ Importing(t)
    BY <1>2, <1>4, <2>1, StepIs
  <2>3. ASSUME Importing(t) PROVE Stocked(t)'
    BY <1>1, <1>4, <2>1, <2>3, StockedImports, StockedDrains, StockedSheds, StockedLands, StockedHears, StockedMissed
       DEF Importing
  <2> QED BY <1>1, <1>4, <2>1, <2>2, <2>3, OrderlyNext, StockedViewing, StockedPressing
<1>5. CASE Closes(t) /\ astray
  BY <1>5, ClosesAnew, StockedAnew DEF Stored
<1> QED BY <1>2, <1>3, <1>4, <1>5, StepIs DEF Stored

\* In them the copies are there.
LEMMA StoredFewer == ASSUME NEW t \in Tabs, Stored(t) PROVE NeverFewer
<1>1. SUFFICES ASSUME ~astray PROVE InAll >= least
  BY DEF NeverFewer
<1>2. Enough
  BY <1>1, StockedFewer DEF Stored
<1>3. InAll = Copies(repo) + Waits(parts)
  BY DEF InAll, Waits, AllOf
<1> QED BY <1>2, <1>3 DEF Enough

(***************************************************************************)
(* A tab alone never leaves the repository and the parts left to drain with *)
(* fewer copies than the owner is to have, at any moment: with a press half *)
(* sent, failed after any of its calls, its tab dead or a call of an import *)
(* unheard of.  An amendment writes before it drops, and a merge lifts one  *)
(* record before the other goes (cards.ts).  Unlike OneTabKeeps it is not   *)
(* for the moments with nothing under way, nor only while no press failed;  *)
(* it too is as long as no step goes astray since the page was opened.      *)
(***************************************************************************)
THEOREM OneTabNeverFewer == ASSUME NEW t \in Tabs, Alone(t) PROVE Spec => []NeverFewer
<1>1. Init => Stored(t)
  BY TypedInit, OrderlyInit, StockedInit DEF Stored
<1>2. Stored(t) /\ [Next]_vars => Stored(t)'
  BY StoredNext
<1>3. Stored(t) => NeverFewer
  BY StoredFewer
<1> QED BY <1>1, <1>2, <1>3, PTL DEF Spec
=============================================================================
