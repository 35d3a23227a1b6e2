--------------------------- MODULE CardFileProofs ---------------------------
(***************************************************************************)
(* What the algorithms of CardFile and Files compute, for lists of any     *)
(* length: how a file collapses, what a plan weighs, that a file read      *)
(* backwards reads the same, and that what is written may be read. Most go *)
(* through a list one by one (a fold), so each is first shown to be the    *)
(* steps it takes, and then what every step keeps.                         *)
(***************************************************************************)
EXTENDS Files, FoldFacts

-----------------------------------------------------------------------------
(* The folds, step by step.                                                *)

\* Only goes through a list from its first.
OnlyKeeps(list, some, K) ==
    /\ DOMAIN list = 1 .. Len(list) /\ Len(list) \in Nat
    /\ <<>> \in K
    /\ \A a \in K, i \in DOMAIN list : (IF list[i] \in some THEN Append(a, list[i]) ELSE a) \in K
OnlyAlong(g, list, some, K) ==
    /\ g \in [0 .. Len(list) -> K]
    /\ g[0] = <<>>
    /\ \A n \in 0 .. Len(list) - 1 : g[n + 1] = (IF list[n + 1] \in some THEN Append(g[n], list[n + 1]) ELSE g[n])
    /\ Only(list, some) = g[Len(list)]
\* Only, as the fold it is.
LEMMA OnlySteps ==
    ASSUME NEW list, NEW some, NEW K, OnlyKeeps(list, some, K)
    PROVE  \E g : OnlyAlong(g, list, some, K)
<1> USE DEF OnlyKeeps
<1> DEFINE m == Len(list)
           S == 1 .. m
           G == [a \in K |-> [i \in S |-> (IF list[i] \in some THEN Append(a, list[i]) ELSE a)]]
           F == CHOOSE f : f = [s \in SUBSET DOMAIN list |->
                      IF s = {} THEN <<>> ELSE (IF list[Max(s)] \in some THEN Append(f[s \ {Max(s)}], list[Max(s)]) ELSE f[s \ {Max(s)}])]
<1>1. m \in Nat /\ DOMAIN list = S
  OBVIOUS
<1>2. IsRun(m, K, <<>>, G)
  BY <1>1 DEF IsRun
<1>3. PICK h : IsAlong(h, m, K, <<>>, G)
  <2> HIDE DEF G, m
  <2> QED BY <1>2, FoldAlong
<1>4. h = [s \in SUBSET DOMAIN list |->
                      IF s = {} THEN <<>> ELSE (IF list[Max(s)] \in some THEN Append(h[s \ {Max(s)}], list[Max(s)]) ELSE h[s \ {Max(s)}])]
  <2>1. \A s \in SUBSET S : h[s] = IF s = {} THEN <<>> ELSE (IF list[Max(s)] \in some THEN Append(h[s \ {Max(s)}], list[Max(s)]) ELSE h[s \ {Max(s)}])
    <3> TAKE s \in SUBSET S
    <3>1. CASE s = {}
      BY <1>3, <3>1 DEF IsAlong
    <3>2. CASE s # {}
      <4>1. Max(s) \in S /\ h[s \ {Max(s)}] \in K /\ h[s] = G[h[s \ {Max(s)}]][Max(s)]
        BY <1>1, <1>3, <3>2, Greatest DEF IsAlong
      <4> HIDE DEF S
      <4> QED BY <3>2, <4>1
    <3> QED BY <3>1, <3>2
  <2> HIDE DEF G
  <2> QED BY <1>1, <1>3, <2>1 DEF IsAlong
<1>5. F = [s \in SUBSET DOMAIN list |->
                      IF s = {} THEN <<>> ELSE (IF list[Max(s)] \in some THEN Append(F[s \ {Max(s)}], list[Max(s)]) ELSE F[s \ {Max(s)}])]
  <2> HIDE DEF S, G
  <2> QED BY <1>4
<1>6. \A s \in SUBSET S : F[s] = IF s = {} THEN <<>> ELSE (IF list[Max(s)] \in some THEN Append(F[s \ {Max(s)}], list[Max(s)]) ELSE F[s \ {Max(s)}])
  <2> HIDE DEF F, G, S
  <2> QED BY <1>1, <1>5
<1>7. Only(list, some) = F[S]
  BY <1>1 DEF Only, FoldLeft, MapThenFoldSet
<1> HIDE DEF F
<1>8. F[{}] = <<>>
  BY <1>6
<1>9. \A n \in 0 .. m - 1 : F[1 .. n] \in K => F[1 .. n + 1] = G[F[1 .. n]][n + 1]
  <2> TAKE n \in 0 .. m - 1
  <2> HAVE F[1 .. n] \in K
  <2>1. /\ 1 .. n + 1 \in SUBSET S /\ 1 .. n + 1 # {} /\ n + 1 \in S
        /\ Max(1 .. n + 1) = n + 1 /\ (1 .. n + 1) \ {n + 1} = 1 .. n
    <3>1. m \in Nat
      BY <1>1
    <3> HIDE DEF m
    <3> QED BY <3>1, Initials
  <2> HIDE DEF S, m
  <2>2. F[1 .. n + 1] = (IF list[n + 1] \in some THEN Append(F[1 .. n], list[n + 1]) ELSE F[1 .. n])
    BY <1>6, <2>1
  <2> QED BY <2>1, <2>2
<1>10. PICK g \in [0 .. m -> K] :
         g[0] = <<>> /\ (\A n \in 0 .. m - 1 : g[n + 1] = G[g[n]][n + 1]) /\ g[m] = F[1 .. m]
  <2> HIDE DEF G, m
  <2> QED BY <1>2, <1>8, <1>9, FoldTold
<1>11. \A n \in 0 .. m - 1 : g[n + 1] = (IF list[n + 1] \in some THEN Append(g[n], list[n + 1]) ELSE g[n])
  <2> TAKE n \in 0 .. m - 1
  <2>1. n \in 0 .. m /\ n + 1 \in S
    BY <1>1
  <2>2. g[n] \in K /\ g[n + 1] = G[g[n]][n + 1]
    BY <1>10, <2>1
  <2> HIDE DEF S, m
  <2> QED BY <2>1, <2>2
<1> QED BY <1>1, <1>7, <1>10, <1>11 DEF OnlyAlong

\* So does Collapse.
CollapseKeeps(rows, K) ==
    /\ DOMAIN rows = 1 .. Len(rows) /\ Len(rows) \in Nat
    /\ <<>> \in K
    /\ \A a \in K, i \in DOMAIN rows : Collapsed(a, rows[i]) \in K
CollapseAlong(g, rows, K) ==
    /\ g \in [0 .. Len(rows) -> K]
    /\ g[0] = <<>>
    /\ \A n \in 0 .. Len(rows) - 1 : g[n + 1] = Collapsed(g[n], rows[n + 1])
    /\ Collapse(rows) = g[Len(rows)]
\* Collapse, as the fold it is.
LEMMA CollapseSteps ==
    ASSUME NEW rows, NEW K, CollapseKeeps(rows, K)
    PROVE  \E g : CollapseAlong(g, rows, K)
<1> USE DEF CollapseKeeps
<1> DEFINE m == Len(rows)
           S == 1 .. m
           G == [a \in K |-> [i \in S |-> Collapsed(a, rows[i])]]
           F == CHOOSE f : f = [s \in SUBSET DOMAIN rows |->
                      IF s = {} THEN <<>> ELSE Collapsed(f[s \ {Max(s)}], rows[Max(s)])]
<1>1. m \in Nat /\ DOMAIN rows = S
  OBVIOUS
<1>2. IsRun(m, K, <<>>, G)
  BY <1>1 DEF IsRun
<1>3. PICK h : IsAlong(h, m, K, <<>>, G)
  <2> HIDE DEF G, m
  <2> QED BY <1>2, FoldAlong
<1>4. h = [s \in SUBSET DOMAIN rows |->
                      IF s = {} THEN <<>> ELSE Collapsed(h[s \ {Max(s)}], rows[Max(s)])]
  <2>1. \A s \in SUBSET S : h[s] = IF s = {} THEN <<>> ELSE Collapsed(h[s \ {Max(s)}], rows[Max(s)])
    <3> TAKE s \in SUBSET S
    <3>1. CASE s = {}
      BY <1>3, <3>1 DEF IsAlong
    <3>2. CASE s # {}
      <4>1. Max(s) \in S /\ h[s \ {Max(s)}] \in K /\ h[s] = G[h[s \ {Max(s)}]][Max(s)]
        BY <1>1, <1>3, <3>2, Greatest DEF IsAlong
      <4> HIDE DEF S
      <4> QED BY <3>2, <4>1
    <3> QED BY <3>1, <3>2
  <2> HIDE DEF G
  <2> QED BY <1>1, <1>3, <2>1 DEF IsAlong
<1>5. F = [s \in SUBSET DOMAIN rows |->
                      IF s = {} THEN <<>> ELSE Collapsed(F[s \ {Max(s)}], rows[Max(s)])]
  <2> HIDE DEF S, G
  <2> QED BY <1>4
<1>6. \A s \in SUBSET S : F[s] = IF s = {} THEN <<>> ELSE Collapsed(F[s \ {Max(s)}], rows[Max(s)])
  <2> HIDE DEF F, G, S
  <2> QED BY <1>1, <1>5
<1>7. Collapse(rows) = F[S]
  BY <1>1 DEF Collapse, FoldLeft, MapThenFoldSet
<1> HIDE DEF F
<1>8. F[{}] = <<>>
  BY <1>6
<1>9. \A n \in 0 .. m - 1 : F[1 .. n] \in K => F[1 .. n + 1] = G[F[1 .. n]][n + 1]
  <2> TAKE n \in 0 .. m - 1
  <2> HAVE F[1 .. n] \in K
  <2>1. /\ 1 .. n + 1 \in SUBSET S /\ 1 .. n + 1 # {} /\ n + 1 \in S
        /\ Max(1 .. n + 1) = n + 1 /\ (1 .. n + 1) \ {n + 1} = 1 .. n
    <3>1. m \in Nat
      BY <1>1
    <3> HIDE DEF m
    <3> QED BY <3>1, Initials
  <2> HIDE DEF S, m
  <2>2. F[1 .. n + 1] = Collapsed(F[1 .. n], rows[n + 1])
    BY <1>6, <2>1
  <2> QED BY <2>1, <2>2
<1>10. PICK g \in [0 .. m -> K] :
         g[0] = <<>> /\ (\A n \in 0 .. m - 1 : g[n + 1] = G[g[n]][n + 1]) /\ g[m] = F[1 .. m]
  <2> HIDE DEF G, m
  <2> QED BY <1>2, <1>8, <1>9, FoldTold
<1>11. \A n \in 0 .. m - 1 : g[n + 1] = Collapsed(g[n], rows[n + 1])
  <2> TAKE n \in 0 .. m - 1
  <2>1. n \in 0 .. m /\ n + 1 \in S
    BY <1>1
  <2>2. g[n] \in K /\ g[n + 1] = G[g[n]][n + 1]
    BY <1>10, <2>1
  <2> HIDE DEF S, m
  <2> QED BY <2>1, <2>2
<1> QED BY <1>1, <1>7, <1>10, <1>11 DEF CollapseAlong

\* And Planning, from the collection.
PlanningKeeps(imported, all, at, K) ==
    /\ DOMAIN imported = 1 .. Len(imported) /\ Len(imported) \in Nat
    /\ all \in K
    /\ \A a \in K, i \in DOMAIN imported : Planned(a, imported[i], at) \in K
PlanningAlong(g, imported, all, at, K) ==
    /\ g \in [0 .. Len(imported) -> K]
    /\ g[0] = all
    /\ \A n \in 0 .. Len(imported) - 1 : g[n + 1] = Planned(g[n], imported[n + 1], at)
    /\ Planning(imported, all, at) = g[Len(imported)]
\* Planning, as the fold it is.
LEMMA PlanningSteps ==
    ASSUME NEW imported, NEW all, NEW at, NEW K, PlanningKeeps(imported, all, at, K)
    PROVE  \E g : PlanningAlong(g, imported, all, at, K)
<1> USE DEF PlanningKeeps
<1> DEFINE m == Len(imported)
           S == 1 .. m
           G == [a \in K |-> [i \in S |-> Planned(a, imported[i], at)]]
           F == CHOOSE f : f = [s \in SUBSET DOMAIN imported |->
                      IF s = {} THEN all ELSE Planned(f[s \ {Max(s)}], imported[Max(s)], at)]
<1>1. m \in Nat /\ DOMAIN imported = S
  OBVIOUS
<1>2. IsRun(m, K, all, G)
  BY <1>1 DEF IsRun
<1>3. PICK h : IsAlong(h, m, K, all, G)
  <2> HIDE DEF G, m
  <2> QED BY <1>2, FoldAlong
<1>4. h = [s \in SUBSET DOMAIN imported |->
                      IF s = {} THEN all ELSE Planned(h[s \ {Max(s)}], imported[Max(s)], at)]
  <2>1. \A s \in SUBSET S : h[s] = IF s = {} THEN all ELSE Planned(h[s \ {Max(s)}], imported[Max(s)], at)
    <3> TAKE s \in SUBSET S
    <3>1. CASE s = {}
      BY <1>3, <3>1 DEF IsAlong
    <3>2. CASE s # {}
      <4>1. Max(s) \in S /\ h[s \ {Max(s)}] \in K /\ h[s] = G[h[s \ {Max(s)}]][Max(s)]
        BY <1>1, <1>3, <3>2, Greatest DEF IsAlong
      <4> HIDE DEF S
      <4> QED BY <3>2, <4>1
    <3> QED BY <3>1, <3>2
  <2> HIDE DEF G
  <2> QED BY <1>1, <1>3, <2>1 DEF IsAlong
<1>5. F = [s \in SUBSET DOMAIN imported |->
                      IF s = {} THEN all ELSE Planned(F[s \ {Max(s)}], imported[Max(s)], at)]
  <2> HIDE DEF S, G
  <2> QED BY <1>4
<1>6. \A s \in SUBSET S : F[s] = IF s = {} THEN all ELSE Planned(F[s \ {Max(s)}], imported[Max(s)], at)
  <2> HIDE DEF F, G, S
  <2> QED BY <1>1, <1>5
<1>7. Planning(imported, all, at) = F[S]
  BY <1>1 DEF Planning, FoldLeft, MapThenFoldSet
<1> HIDE DEF F
<1>8. F[{}] = all
  BY <1>6
<1>9. \A n \in 0 .. m - 1 : F[1 .. n] \in K => F[1 .. n + 1] = G[F[1 .. n]][n + 1]
  <2> TAKE n \in 0 .. m - 1
  <2> HAVE F[1 .. n] \in K
  <2>1. /\ 1 .. n + 1 \in SUBSET S /\ 1 .. n + 1 # {} /\ n + 1 \in S
        /\ Max(1 .. n + 1) = n + 1 /\ (1 .. n + 1) \ {n + 1} = 1 .. n
    <3>1. m \in Nat
      BY <1>1
    <3> HIDE DEF m
    <3> QED BY <3>1, Initials
  <2> HIDE DEF S, m
  <2>2. F[1 .. n + 1] = Planned(F[1 .. n], imported[n + 1], at)
    BY <1>6, <2>1
  <2> QED BY <2>1, <2>2
<1>10. PICK g \in [0 .. m -> K] :
         g[0] = all /\ (\A n \in 0 .. m - 1 : g[n + 1] = G[g[n]][n + 1]) /\ g[m] = F[1 .. m]
  <2> HIDE DEF G, m
  <2> QED BY <1>2, <1>8, <1>9, FoldTold
<1>11. \A n \in 0 .. m - 1 : g[n + 1] = Planned(g[n], imported[n + 1], at)
  <2> TAKE n \in 0 .. m - 1
  <2>1. n \in 0 .. m /\ n + 1 \in S
    BY <1>1
  <2>2. g[n] \in K /\ g[n + 1] = G[g[n]][n + 1]
    BY <1>10, <2>1
  <2> HIDE DEF S, m
  <2> QED BY <2>1, <2>2
<1> QED BY <1>1, <1>7, <1>10, <1>11 DEF PlanningAlong

\* And Spent, through the lots of a stack.
SpentKeeps(count, lots, format, K) ==
    /\ DOMAIN lots = 1 .. Len(lots) /\ Len(lots) \in Nat
    /\ Unspent(count) \in K
    /\ \A a \in K, i \in DOMAIN lots : Spend(a, lots[i], format) \in K
SpentAlong(g, count, lots, format, K) ==
    /\ g \in [0 .. Len(lots) -> K]
    /\ g[0] = Unspent(count)
    /\ \A n \in 0 .. Len(lots) - 1 : g[n + 1] = Spend(g[n], lots[n + 1], format)
    /\ Spent(count, lots, format) = g[Len(lots)]
\* Split, as the fold it is.
LEMMA SplitSteps ==
    ASSUME NEW count, NEW lots, NEW format, NEW K, SpentKeeps(count, lots, format, K)
    PROVE  \E g : SpentAlong(g, count, lots, format, K)
<1> USE DEF SpentKeeps
<1> DEFINE m == Len(lots)
           S == 1 .. m
           G == [a \in K |-> [i \in S |-> Spend(a, lots[i], format)]]
           F == CHOOSE f : f = [s \in SUBSET DOMAIN lots |->
                      IF s = {} THEN Unspent(count) ELSE Spend(f[s \ {Max(s)}], lots[Max(s)], format)]
<1>1. m \in Nat /\ DOMAIN lots = S
  OBVIOUS
<1>2. IsRun(m, K, Unspent(count), G)
  BY <1>1 DEF IsRun
<1>3. PICK h : IsAlong(h, m, K, Unspent(count), G)
  <2> HIDE DEF G, m
  <2> QED BY <1>2, FoldAlong
<1>4. h = [s \in SUBSET DOMAIN lots |->
                      IF s = {} THEN Unspent(count) ELSE Spend(h[s \ {Max(s)}], lots[Max(s)], format)]
  <2>1. \A s \in SUBSET S : h[s] = IF s = {} THEN Unspent(count) ELSE Spend(h[s \ {Max(s)}], lots[Max(s)], format)
    <3> TAKE s \in SUBSET S
    <3>1. CASE s = {}
      BY <1>3, <3>1 DEF IsAlong
    <3>2. CASE s # {}
      <4>1. Max(s) \in S /\ h[s \ {Max(s)}] \in K /\ h[s] = G[h[s \ {Max(s)}]][Max(s)]
        BY <1>1, <1>3, <3>2, Greatest DEF IsAlong
      <4> HIDE DEF S
      <4> QED BY <3>2, <4>1
    <3> QED BY <3>1, <3>2
  <2> HIDE DEF G
  <2> QED BY <1>1, <1>3, <2>1 DEF IsAlong
<1>5. F = [s \in SUBSET DOMAIN lots |->
                      IF s = {} THEN Unspent(count) ELSE Spend(F[s \ {Max(s)}], lots[Max(s)], format)]
  <2> HIDE DEF S, G
  <2> QED BY <1>4
<1>6. \A s \in SUBSET S : F[s] = IF s = {} THEN Unspent(count) ELSE Spend(F[s \ {Max(s)}], lots[Max(s)], format)
  <2> HIDE DEF F, G, S
  <2> QED BY <1>1, <1>5
<1>7. Spent(count, lots, format) = F[S]
  BY <1>1 DEF Spent, FoldLeft, MapThenFoldSet
<1> HIDE DEF F
<1>8. F[{}] = Unspent(count)
  BY <1>6
<1>9. \A n \in 0 .. m - 1 : F[1 .. n] \in K => F[1 .. n + 1] = G[F[1 .. n]][n + 1]
  <2> TAKE n \in 0 .. m - 1
  <2> HAVE F[1 .. n] \in K
  <2>1. /\ 1 .. n + 1 \in SUBSET S /\ 1 .. n + 1 # {} /\ n + 1 \in S
        /\ Max(1 .. n + 1) = n + 1 /\ (1 .. n + 1) \ {n + 1} = 1 .. n
    <3>1. m \in Nat
      BY <1>1
    <3> HIDE DEF m
    <3> QED BY <3>1, Initials
  <2> HIDE DEF S, m
  <2>2. F[1 .. n + 1] = Spend(F[1 .. n], lots[n + 1], format)
    BY <1>6, <2>1
  <2> QED BY <2>1, <2>2
<1>10. PICK g \in [0 .. m -> K] :
         g[0] = Unspent(count) /\ (\A n \in 0 .. m - 1 : g[n + 1] = G[g[n]][n + 1]) /\ g[m] = F[1 .. m]
  <2> HIDE DEF G, m
  <2> QED BY <1>2, <1>8, <1>9, FoldTold
<1>11. \A n \in 0 .. m - 1 : g[n + 1] = Spend(g[n], lots[n + 1], format)
  <2> TAKE n \in 0 .. m - 1
  <2>1. n \in 0 .. m /\ n + 1 \in S
    BY <1>1
  <2>2. g[n] \in K /\ g[n + 1] = G[g[n]][n + 1]
    BY <1>10, <2>1
  <2> HIDE DEF S, m
  <2> QED BY <2>1, <2>2
<1> QED BY <1>1, <1>7, <1>10, <1>11 DEF SpentAlong

\* And Landing, through the parts.
LandingKeeps(records, entries, K) ==
    /\ DOMAIN entries = 1 .. Len(entries) /\ Len(entries) \in Nat
    /\ Shelved(records) \in K
    /\ \A a \in K, i \in DOMAIN entries : Landed(a, entries[i]) \in K
LandingAlong(g, records, entries, K) ==
    /\ g \in [0 .. Len(entries) -> K]
    /\ g[0] = Shelved(records)
    /\ \A n \in 0 .. Len(entries) - 1 : g[n + 1] = Landed(g[n], entries[n + 1])
    /\ Landing(records, entries) = g[Len(entries)]
\* Landing, as the fold it is.
LEMMA LandingSteps ==
    ASSUME NEW records, NEW entries, NEW K, LandingKeeps(records, entries, K)
    PROVE  \E g : LandingAlong(g, records, entries, K)
<1> USE DEF LandingKeeps
<1> DEFINE m == Len(entries)
           S == 1 .. m
           G == [a \in K |-> [i \in S |-> Landed(a, entries[i])]]
           F == CHOOSE f : f = [s \in SUBSET DOMAIN entries |->
                      IF s = {} THEN Shelved(records) ELSE Landed(f[s \ {Max(s)}], entries[Max(s)])]
<1>1. m \in Nat /\ DOMAIN entries = S
  OBVIOUS
<1>2. IsRun(m, K, Shelved(records), G)
  BY <1>1 DEF IsRun
<1>3. PICK h : IsAlong(h, m, K, Shelved(records), G)
  <2> HIDE DEF G, m
  <2> QED BY <1>2, FoldAlong
<1>4. h = [s \in SUBSET DOMAIN entries |->
                      IF s = {} THEN Shelved(records) ELSE Landed(h[s \ {Max(s)}], entries[Max(s)])]
  <2>1. \A s \in SUBSET S : h[s] = IF s = {} THEN Shelved(records) ELSE Landed(h[s \ {Max(s)}], entries[Max(s)])
    <3> TAKE s \in SUBSET S
    <3>1. CASE s = {}
      BY <1>3, <3>1 DEF IsAlong
    <3>2. CASE s # {}
      <4>1. Max(s) \in S /\ h[s \ {Max(s)}] \in K /\ h[s] = G[h[s \ {Max(s)}]][Max(s)]
        BY <1>1, <1>3, <3>2, Greatest DEF IsAlong
      <4> HIDE DEF S
      <4> QED BY <3>2, <4>1
    <3> QED BY <3>1, <3>2
  <2> HIDE DEF G
  <2> QED BY <1>1, <1>3, <2>1 DEF IsAlong
<1>5. F = [s \in SUBSET DOMAIN entries |->
                      IF s = {} THEN Shelved(records) ELSE Landed(F[s \ {Max(s)}], entries[Max(s)])]
  <2> HIDE DEF S, G
  <2> QED BY <1>4
<1>6. \A s \in SUBSET S : F[s] = IF s = {} THEN Shelved(records) ELSE Landed(F[s \ {Max(s)}], entries[Max(s)])
  <2> HIDE DEF F, G, S
  <2> QED BY <1>1, <1>5
<1>7. Landing(records, entries) = F[S]
  BY <1>1 DEF Landing, FoldLeft, MapThenFoldSet
<1> HIDE DEF F
<1>8. F[{}] = Shelved(records)
  BY <1>6
<1>9. \A n \in 0 .. m - 1 : F[1 .. n] \in K => F[1 .. n + 1] = G[F[1 .. n]][n + 1]
  <2> TAKE n \in 0 .. m - 1
  <2> HAVE F[1 .. n] \in K
  <2>1. /\ 1 .. n + 1 \in SUBSET S /\ 1 .. n + 1 # {} /\ n + 1 \in S
        /\ Max(1 .. n + 1) = n + 1 /\ (1 .. n + 1) \ {n + 1} = 1 .. n
    <3>1. m \in Nat
      BY <1>1
    <3> HIDE DEF m
    <3> QED BY <3>1, Initials
  <2> HIDE DEF S, m
  <2>2. F[1 .. n + 1] = Landed(F[1 .. n], entries[n + 1])
    BY <1>6, <2>1
  <2> QED BY <2>1, <2>2
<1>10. PICK g \in [0 .. m -> K] :
         g[0] = Shelved(records) /\ (\A n \in 0 .. m - 1 : g[n + 1] = G[g[n]][n + 1]) /\ g[m] = F[1 .. m]
  <2> HIDE DEF G, m
  <2> QED BY <1>2, <1>8, <1>9, FoldTold
<1>11. \A n \in 0 .. m - 1 : g[n + 1] = Landed(g[n], entries[n + 1])
  <2> TAKE n \in 0 .. m - 1
  <2>1. n \in 0 .. m /\ n + 1 \in S
    BY <1>1
  <2>2. g[n] \in K /\ g[n + 1] = G[g[n]][n + 1]
    BY <1>10, <2>1
  <2> HIDE DEF S, m
  <2> QED BY <2>1, <2>2
<1> QED BY <1>1, <1>7, <1>10, <1>11 DEF LandingAlong

\* And Arranged, through the places of a list.
ArrangedKeeps(n, ahead, K) ==
    /\ n \in Nat
    /\ <<>> \in K
    /\ \A a \in K, i \in 1 .. n : Placed(a, i, ahead) \in K
ArrangedAlong(g, n, ahead, K) ==
    /\ g \in [0 .. n -> K]
    /\ g[0] = <<>>
    /\ \A k \in 0 .. n - 1 : g[k + 1] = Placed(g[k], k + 1, ahead)
    /\ Arranged(n, ahead) = g[n]
\* Arranged, as the fold it is.
LEMMA ArrangedSteps ==
    ASSUME NEW n, NEW ahead, NEW K, ArrangedKeeps(n, ahead, K)
    PROVE  \E g : ArrangedAlong(g, n, ahead, K)
<1> USE DEF ArrangedKeeps
<1> DEFINE m == n
           S == 1 .. m
           G == [a \in K |-> [i \in S |-> Placed(a, i, ahead)]]
           F == CHOOSE f : f = [s \in SUBSET DOMAIN [i \in 1 .. n |-> i] |->
                      IF s = {} THEN <<>> ELSE Placed(f[s \ {Max(s)}], [i \in 1 .. n |-> i][Max(s)], ahead)]
<1>1. m \in Nat /\ DOMAIN [i \in 1 .. n |-> i] = S
  OBVIOUS
<1>2. IsRun(m, K, <<>>, G)
  BY <1>1 DEF IsRun
<1>3. PICK h : IsAlong(h, m, K, <<>>, G)
  <2> HIDE DEF G, m
  <2> QED BY <1>2, FoldAlong
<1>4. h = [s \in SUBSET DOMAIN [i \in 1 .. n |-> i] |->
                      IF s = {} THEN <<>> ELSE Placed(h[s \ {Max(s)}], [i \in 1 .. n |-> i][Max(s)], ahead)]
  <2>1. \A s \in SUBSET S : h[s] = IF s = {} THEN <<>> ELSE Placed(h[s \ {Max(s)}], Max(s), ahead)
    <3> TAKE s \in SUBSET S
    <3>1. CASE s = {}
      BY <1>3, <3>1 DEF IsAlong
    <3>2. CASE s # {}
      <4>1. Max(s) \in S /\ h[s \ {Max(s)}] \in K /\ h[s] = G[h[s \ {Max(s)}]][Max(s)]
        BY <1>1, <1>3, <3>2, Greatest DEF IsAlong
      <4> HIDE DEF S
      <4> QED BY <3>2, <4>1
    <3> QED BY <3>1, <3>2
  <2>2. \A s \in SUBSET S : s # {} => Max(s) \in S /\ [i \in 1 .. n |-> i][Max(s)] = Max(s)
    BY <1>1, Greatest
  <2>3. \A s \in SUBSET S : h[s] = IF s = {} THEN <<>> ELSE Placed(h[s \ {Max(s)}], [i \in 1 .. n |-> i][Max(s)], ahead)
    <3> HIDE DEF G
    <3> QED BY <2>1, <2>2
  <2>4. h \in [SUBSET S -> K]
    BY <1>3 DEF IsAlong
  <2> HIDE DEF G
  <2> QED BY <1>1, <2>3, <2>4
<1>5. F = [s \in SUBSET DOMAIN [i \in 1 .. n |-> i] |->
                      IF s = {} THEN <<>> ELSE Placed(F[s \ {Max(s)}], [i \in 1 .. n |-> i][Max(s)], ahead)]
  <2> HIDE DEF S, G
  <2> QED BY <1>4
<1>6. \A s \in SUBSET S : F[s] = IF s = {} THEN <<>> ELSE Placed(F[s \ {Max(s)}], Max(s), ahead)
  <2>1. \A s \in SUBSET S : s # {} => Max(s) \in S
    BY <1>1, Greatest
  <2>2. \A s \in SUBSET S : F[s] = IF s = {} THEN <<>> ELSE Placed(F[s \ {Max(s)}], [i \in 1 .. n |-> i][Max(s)], ahead)
    <3> HIDE DEF F, G
    <3> QED BY <1>1, <1>5
  <2> HIDE DEF F, G
  <2> QED BY <1>1, <2>1, <2>2
<1>7. Arranged(n, ahead) = F[S]
  BY <1>1 DEF Arranged, FoldLeft, MapThenFoldSet
<1> HIDE DEF F
<1>8. F[{}] = <<>>
  BY <1>6
<1>9. \A k \in 0 .. m - 1 : F[1 .. k] \in K => F[1 .. k + 1] = G[F[1 .. k]][k + 1]
  <2> TAKE k \in 0 .. m - 1
  <2> HAVE F[1 .. k] \in K
  <2>1. /\ 1 .. k + 1 \in SUBSET S /\ 1 .. k + 1 # {} /\ k + 1 \in S
        /\ Max(1 .. k + 1) = k + 1 /\ (1 .. k + 1) \ {k + 1} = 1 .. k
    <3>1. m \in Nat
      BY <1>1
    <3> HIDE DEF m
    <3> QED BY <3>1, Initials
  <2> HIDE DEF S, m
  <2>2. F[1 .. k + 1] = Placed(F[1 .. k], k + 1, ahead)
    BY <1>6, <2>1
  <2> QED BY <2>1, <2>2
<1>10. PICK g \in [0 .. m -> K] :
         g[0] = <<>> /\ (\A k \in 0 .. m - 1 : g[k + 1] = G[g[k]][k + 1]) /\ g[m] = F[1 .. m]
  <2> HIDE DEF G, m
  <2> QED BY <1>2, <1>8, <1>9, FoldTold
<1>11. \A k \in 0 .. m - 1 : g[k + 1] = Placed(g[k], k + 1, ahead)
  <2> TAKE k \in 0 .. m - 1
  <2>1. k \in 0 .. m /\ k + 1 \in S
    BY <1>1
  <2>2. g[k] \in K /\ g[k + 1] = G[g[k]][k + 1]
    BY <1>10, <2>1
  <2> HIDE DEF S, m
  <2> QED BY <2>1, <2>2
<1> QED BY <1>1, <1>7, <1>10, <1>11 DEF ArrangedAlong

-----------------------------------------------------------------------------
(* Lists: those kept, and in order.                                        *)

\* No two of a list are the same.
Injective(list) == \A i, j \in DOMAIN list : list[i] = list[j] => i = j

\* What a sequence is.
LEMMA SeqParts ==
    ASSUME NEW E, NEW list \in Seq(E)
    PROVE  DOMAIN list = 1 .. Len(list) /\ Len(list) \in Nat /\ \A i \in 1 .. Len(list) : list[i] \in E
  OBVIOUS

\* Only of the first n of a list, as it goes.
LEMMA OnlyRuns ==
    ASSUME NEW E, NEW list \in Seq(E), NEW some
    PROVE  \E g : OnlyAlong(g, list, some, Seq(E))
<1>1. <<>> \in Seq(E) /\ \A a \in Seq(E), i \in DOMAIN list : (IF list[i] \in some THEN Append(a, list[i]) ELSE a) \in Seq(E)
  BY EmptySeq, AppendProperties
<1>2. OnlyKeeps(list, some, Seq(E))
  BY <1>1, SeqParts DEF OnlyKeeps
<1> QED BY <1>2, OnlySteps

\* Those kept of a list are of what the list is of.
LEMMA OnlyType ==
    ASSUME NEW E, NEW list \in Seq(E), NEW some
    PROVE  Only(list, some) \in Seq(E)
<1>1. PICK g : OnlyAlong(g, list, some, Seq(E))
  BY OnlyRuns
<1>2. Len(list) \in 0 .. Len(list)
  BY SeqParts
<1> QED BY <1>1, <1>2 DEF OnlyAlong

\* A list with one put last.
LEMMA AppendRange ==
    ASSUME NEW E, NEW list \in Seq(E), NEW e \in E
    PROVE  /\ Append(list, e) \in Seq(E) /\ DOMAIN Append(list, e) = 1 .. Len(list) + 1
           /\ Append(list, e)[Len(list) + 1] = e
           /\ \A i \in DOMAIN list : Append(list, e)[i] = list[i]
           /\ Range(Append(list, e)) = Range(list) \cup {e}
           /\ Injective(list) /\ e \notin Range(list) => Injective(Append(list, e))
<1>1. /\ Append(list, e) \in Seq(E) /\ DOMAIN Append(list, e) = 1 .. Len(list) + 1
      /\ Append(list, e)[Len(list) + 1] = e /\ Len(list) \in Nat /\ DOMAIN list = 1 .. Len(list)
      /\ \A i \in 1 .. Len(list) : Append(list, e)[i] = list[i]
  BY AppendProperties
<1>2. Range(Append(list, e)) = Range(list) \cup {e}
  <2> DEFINE n == Len(list)
             b == Append(list, e)
  <2>1. \A i \in 1 .. n + 1 : i \in 1 .. n \/ i = n + 1
    BY <1>1
  <2>2. n + 1 \in 1 .. n + 1 /\ \A i \in 1 .. n : i \in 1 .. n + 1
    BY <1>1
  <2>3. DOMAIN b = 1 .. n + 1 /\ b[n + 1] = e /\ DOMAIN list = 1 .. n /\ \A i \in 1 .. n : b[i] = list[i]
    BY <1>1
  <2> HIDE DEF n, b
  <2> QED BY <2>1, <2>2, <2>3 DEF Range, b
<1>3. ASSUME Injective(list), e \notin Range(list) PROVE Injective(Append(list, e))
  <2> SUFFICES ASSUME NEW i \in 1 .. Len(list) + 1, NEW j \in 1 .. Len(list) + 1, Append(list, e)[i] = Append(list, e)[j]
               PROVE  i = j
    BY <1>1 DEF Injective
  <2>1. \A k \in 1 .. Len(list) : list[k] # e
    BY <1>1, <1>3 DEF Range
  <2>2. i \in 1 .. Len(list) \/ i = Len(list) + 1
    BY <1>1
  <2>3. j \in 1 .. Len(list) \/ j = Len(list) + 1
    BY <1>1
  <2> QED BY <1>1, <1>3, <2>1, <2>2, <2>3 DEF Injective
<1> QED BY <1>1, <1>2, <1>3

\* Only keeps those among some, in order: what they weigh, and which they are.
LEMMA OnlyFacts ==
    ASSUME NEW E, NEW list \in Seq(E), NEW some, NEW w \in [E -> Nat]
    PROVE  /\ Range(Only(list, some)) = Range(list) \cap some
           /\ Weighed(Only(list, some), w) = Weighed(list, [e \in E |-> IF e \in some THEN w[e] ELSE 0])
           /\ Injective(list) => Injective(Only(list, some))
<1> DEFINE m == Len(list)
           v == [e \in E |-> IF e \in some THEN w[e] ELSE 0]
           first(n) == {list[i] : i \in 1 .. n}
<1>1. PICK g : OnlyAlong(g, list, some, Seq(E))
  BY OnlyRuns
<1>2. /\ g \in [0 .. m -> Seq(E)] /\ g[0] = <<>>
      /\ \A n \in 0 .. m - 1 : g[n + 1] = (IF list[n + 1] \in some THEN Append(g[n], list[n + 1]) ELSE g[n])
      /\ Only(list, some) = g[m]
  BY <1>1 DEF OnlyAlong
<1>3. m \in Nat /\ DOMAIN list = 1 .. m /\ v \in [E -> Nat] /\ \A i \in 1 .. m : list[i] \in E
  OBVIOUS
<1> DEFINE T == {n \in Nat : n <= m =>
                    /\ Range(g[n]) = {list[i] : i \in 1 .. n} \cap some
                    /\ Weighed(g[n], w) = Weighed(SubSeq(list, 1, n), v)
                    /\ Injective(list) => Injective(g[n])}
<1>4. 0 \in T
  <2>1. SubSeq(list, 1, 0) = <<>> /\ g[0] = <<>>
    BY <1>2, FirstOnes
  <2>2. Weighed(g[0], w) = Weighed(SubSeq(list, 1, 0), v)
    BY <2>1, WeighedNone
  <2>3. Range(<<>>) = {} /\ Injective(<<>>) /\ {list[i] : i \in 1 .. 0} = {}
    BY DEF Range, Injective
  <2> QED BY <2>1, <2>2, <2>3
<1>5. ASSUME NEW n \in Nat, n \in T PROVE n + 1 \in T
  <2> SUFFICES ASSUME n + 1 <= m
               PROVE  /\ Range(g[n + 1]) = {list[i] : i \in 1 .. n + 1} \cap some
                      /\ Weighed(g[n + 1], w) = Weighed(SubSeq(list, 1, n + 1), v)
                      /\ Injective(list) => Injective(g[n + 1])
    OBVIOUS
  <2> DEFINE e == list[n + 1]
  <2>1. n \in 0 .. m - 1 /\ n \in 0 .. m /\ e \in E /\ n + 1 \in 1 .. m /\ n <= m /\ 1 .. n \subseteq 1 .. m
    BY <1>3
  <2>2. /\ Range(g[n]) = {list[i] : i \in 1 .. n} \cap some
        /\ Weighed(g[n], w) = Weighed(SubSeq(list, 1, n), v)
        /\ Injective(list) => Injective(g[n])
        /\ g[n] \in Seq(E)
    BY <1>2, <1>5, <2>1
  <2>3. SubSeq(list, 1, n + 1) = Append(SubSeq(list, 1, n), e) /\ SubSeq(list, 1, n) \in Seq(E)
    BY <2>1, FirstOnes
  <2>4. Weighed(SubSeq(list, 1, n + 1), v) = Weighed(SubSeq(list, 1, n), v) + v[e]
    <3> HIDE DEF v, e
    <3> QED BY <1>3, <2>1, <2>3, WeighedAppend
  <2>5. {list[i] : i \in 1 .. n + 1} = {list[i] : i \in 1 .. n} \cup {e}
    <3>1. 1 .. n + 1 = 1 .. n \cup {n + 1}
      OBVIOUS
    <3> QED BY <3>1
  <2>6. Weighed(SubSeq(list, 1, n), v) \in Nat
    <3> HIDE DEF v
    <3> QED BY <1>3, <2>3, WeighedType
  <2>7. CASE e \in some
    <3>1. g[n + 1] = Append(g[n], e) /\ v[e] = w[e]
      BY <1>2, <2>1, <2>7
    <3>2. Weighed(g[n + 1], w) = Weighed(g[n], w) + w[e]
      <4>2. e \in E
        BY <2>1
      <4> DEFINE a == g[n]
      <4>4. a \in Seq(E)
        BY <2>2
      <4> HIDE DEF e, m, v, a
      <4>3. Weighed(Append(a, e), w) = Weighed(a, w) + w[e]
        BY <4>4, <4>2, WeighedAppend
      <4> QED BY <3>1, <4>3 DEF a
    <3>3. Range(g[n + 1]) = Range(g[n]) \cup {e}
      <4> HIDE DEF e
      <4> QED BY <2>1, <2>2, <3>1, AppendRange
    <3>4. Injective(list) => e \notin Range(g[n])
      <4>1. \A i \in 1 .. n : i # n + 1 /\ i \in 1 .. m
        BY <2>1
      <4> QED BY <1>3, <2>1, <2>2, <4>1 DEF Injective
    <3>5. Injective(list) => Injective(g[n + 1])
      <4> HIDE DEF e
      <4> QED BY <2>1, <2>2, <3>1, <3>4, AppendRange
    <3> HIDE DEF e, v
    <3> QED BY <2>2, <2>4, <2>5, <2>7, <3>1, <3>2, <3>3, <3>5
  <2>8. CASE e \notin some
    <3>1. g[n + 1] = g[n] /\ v[e] = 0
      BY <1>2, <2>1, <2>8
    <3>2. Weighed(g[n + 1], w) = Weighed(SubSeq(list, 1, n + 1), v)
      <4> HIDE DEF e, v
      <4> QED BY <2>2, <2>4, <2>6, <3>1
    <3>3. Range(g[n + 1]) = {list[i] : i \in 1 .. n + 1} \cap some
      <4> HIDE DEF e, v
      <4> QED BY <2>2, <2>5, <2>8, <3>1
    <3> QED BY <2>2, <3>1, <3>2, <3>3
  <2> QED BY <2>7, <2>8
<1>6. \A n \in Nat : n \in T
  <2> HIDE DEF T
  <2> QED BY <1>4, <1>5, NatSetInduction
<1>6a. m \in T
  <2> HIDE DEF T
  <2> QED BY <1>3, <1>6
<1>7. /\ Range(g[m]) = {list[i] : i \in 1 .. m} \cap some
      /\ Weighed(g[m], w) = Weighed(SubSeq(list, 1, m), v)
      /\ Injective(list) => Injective(g[m])
  BY <1>3, <1>6a
<1>8. SubSeq(list, 1, m) = list /\ Range(list) = {list[i] : i \in 1 .. m}
  BY <1>3, FirstOnes DEF Range
<1> QED BY <1>2, <1>7, <1>8

\* One put in its place in a list.
LEMMA InsertedAt ==
    ASSUME NEW E, NEW s \in Seq(E), NEW k \in 1 .. Len(s), NEW e \in E
    PROVE  /\ InsertAt(s, k, e) \in Seq(E) /\ Len(InsertAt(s, k, e)) = Len(s) + 1
           /\ \A j \in 1 .. Len(s) + 1 : InsertAt(s, k, e)[j] = IF j < k THEN s[j] ELSE IF j = k THEN e ELSE s[j - 1]
<1> DEFINE n == Len(s)
           a == SubSeq(s, 1, k - 1)
           b == SubSeq(s, k, n)
<1>1. n \in Nat /\ k \in 1 .. n /\ \A j \in 1 .. n : s[j] \in E
  OBVIOUS
<1>2. a \in Seq(E) /\ Len(a) = k - 1 /\ \A j \in 1 .. k - 1 : a[j] = s[j]
  <2>1. k - 1 \in 1 - 1 .. Len(s) /\ \A j \in 1 .. k - 1 : s[j] \in E
    BY <1>1
  <2>2. 1 \in 1 .. Len(s) + 1
    BY <1>1
  <2> QED BY <2>1, <2>2, <1>1, SubSeqProperties
<1>3. b \in Seq(E) /\ Len(b) = n - k + 1 /\ \A j \in 1 .. n - k + 1 : b[j] = s[k + j - 1]
  <2>1. n \in k - 1 .. Len(s) /\ k \in 1 .. Len(s) + 1
    BY <1>1
  <2> QED BY <2>1, <1>1, SubSeqProperties
<1>4. <<e>> \in Seq(E) /\ Len(<<e>>) = 1 /\ <<e>>[1] = e
  OBVIOUS
<1> DEFINE c == a \o <<e>>
<1>5. c \in Seq(E) /\ Len(c) = k /\ \A j \in 1 .. k : c[j] = IF j <= k - 1 THEN a[j] ELSE <<e>>[j - (k - 1)]
  <2> HIDE DEF a
  <2>1. c \in Seq(E) /\ Len(c) = Len(a) + Len(<<e>>)
        /\ \A j \in 1 .. Len(a) + Len(<<e>>) : c[j] = IF j <= Len(a) THEN a[j] ELSE <<e>>[j - Len(a)]
    BY <1>2, <1>4, ConcatProperties
  <2>2. Len(a) + Len(<<e>>) = k
    BY <1>1, <1>2, <1>4
  <2> HIDE DEF c
  <2> QED BY <1>2, <2>1, <2>2
<1>6. InsertAt(s, k, e) = c \o b
  BY DEF InsertAt
<1> HIDE DEF b, c
<1>7. c \o b \in Seq(E) /\ Len(c \o b) = n + 1
      /\ \A j \in 1 .. n + 1 : (c \o b)[j] = IF j <= k THEN c[j] ELSE b[j - k]
  <2>1. c \o b \in Seq(E) /\ Len(c \o b) = Len(c) + Len(b)
        /\ \A j \in 1 .. Len(c) + Len(b) : (c \o b)[j] = IF j <= Len(c) THEN c[j] ELSE b[j - Len(c)]
    BY <1>3, <1>5, ConcatProperties
  <2>2. Len(c) + Len(b) = n + 1
    BY <1>1, <1>3, <1>5
  <2> QED BY <1>5, <2>1, <2>2
<1>8. ASSUME NEW j \in 1 .. n + 1
      PROVE  (c \o b)[j] = IF j < k THEN s[j] ELSE IF j = k THEN e ELSE s[j - 1]
  <2>1. CASE j < k
    <3>1. j \in 1 .. k /\ j \in 1 .. k - 1 /\ j <= k /\ j <= k - 1
      BY <1>1, <2>1
    <3> QED BY <1>2, <1>5, <1>7, <2>1, <3>1
  <2>2. CASE j = k
    <3>1. j \in 1 .. k /\ ~(j <= k - 1) /\ j - (k - 1) = 1 /\ j <= k /\ ~(j < k)
      BY <1>1, <2>2
    <3> QED BY <1>4, <1>5, <1>7, <2>2, <3>1
  <2>3. CASE j > k
    <3>1. j - k \in 1 .. n - k + 1 /\ ~(j <= k) /\ k + (j - k) - 1 = j - 1 /\ ~(j < k) /\ j # k
      BY <1>1, <2>3
    <3>2. b[j - k] = s[j - 1]
      BY <1>3, <3>1
    <3> QED BY <1>7, <3>1, <3>2
  <2>4. j < k \/ j = k \/ j > k
    BY <1>1
  <2> HIDE DEF n
  <2> QED BY <2>1, <2>2, <2>3, <2>4
<1> QED BY <1>6, <1>7, <1>8

IsInserted(b, E, s, k, e) ==
    /\ b \in Seq(E) /\ Len(b) = Len(s) + 1
    /\ \A j \in 1 .. Len(s) + 1 : b[j] = IF j < k THEN s[j] ELSE IF j = k THEN e ELSE s[j - 1]
Insertable(E, s, k, e) == s \in Seq(E) /\ k \in 1 .. Len(s) /\ e \in E

\* Where Placed puts one.
LEMMA Inserts ==
    ASSUME NEW E, NEW s, NEW k, NEW e, Insertable(E, s, k, e)
    PROVE  IsInserted(InsertAt(s, k, e), E, s, k, e)
<1>1. s \in Seq(E) /\ k \in 1 .. Len(s) /\ e \in E
  BY DEF Insertable
<1>2. InsertAt(s, k, e) \in Seq(E) /\ Len(InsertAt(s, k, e)) = Len(s) + 1
  BY <1>1, InsertedAt
<1>3. \A j \in 1 .. Len(s) + 1 : InsertAt(s, k, e)[j] = IF j < k THEN s[j] ELSE IF j = k THEN e ELSE s[j - 1]
  BY <1>1, InsertedAt
<1> QED BY <1>2, <1>3 DEF IsInserted

\* The places of a list of n, each once.
IsOrder(order, n) ==
    /\ order \in Seq(Nat) /\ Len(order) = n
    /\ \A j \in 1 .. n : order[j] \in 1 .. n
    /\ \A i, j \in 1 .. n : order[i] = order[j] => i = j
    /\ \A k \in 1 .. n : \E j \in 1 .. n : order[j] = k

\* One placed keeps the others in order.
LEMMA PlacedOrder ==
    ASSUME NEW n \in Nat, NEW order, IsOrder(order, n), NEW ahead
    PROVE  IsOrder(Placed(order, n + 1, ahead), n + 1)
<1> DEFINE later == {k \in DOMAIN order : <<n + 1, order[k]>> \in ahead}
           put == Placed(order, n + 1, ahead)
<1>1. /\ order \in Seq(Nat) /\ Len(order) = n /\ DOMAIN order = 1 .. n
      /\ \A j \in 1 .. n : order[j] \in 1 .. n
      /\ \A i, j \in 1 .. n : order[i] = order[j] => i = j
      /\ \A k \in 1 .. n : \E j \in 1 .. n : order[j] = k
  BY DEF IsOrder
<1>2. CASE later = {}
  <2>1. put = Append(order, n + 1)
    BY <1>2 DEF Placed
  <2>2. put \in Seq(Nat) /\ Len(put) = n + 1 /\ put[n + 1] = n + 1 /\ \A j \in 1 .. n : put[j] = order[j]
    <3>1. n + 1 \in Nat
      OBVIOUS
    <3> HIDE DEF put
    <3> QED BY <1>1, <2>1, <3>1, AppendProperties
  <2> HIDE DEF put
  <2>3. \A j \in 1 .. n + 1 : j \in 1 .. n \/ j = n + 1
    OBVIOUS
  <2>4. \A j \in 1 .. n + 1 : put[j] \in 1 .. n + 1
    <3>1. 1 .. n \subseteq 1 .. n + 1 /\ n + 1 \in 1 .. n + 1
      OBVIOUS
    <3> QED BY <1>1, <2>2, <2>3, <3>1
  <2>5. ASSUME NEW i \in 1 .. n + 1, NEW j \in 1 .. n + 1, put[i] = put[j] PROVE i = j
    <3>1. n + 1 \notin 1 .. n
      OBVIOUS
    <3>2. CASE i \in 1 .. n /\ j \in 1 .. n
      BY <1>1, <2>2, <2>5, <3>2
    <3>3. CASE i = n + 1 /\ j \in 1 .. n
      <4>1. put[j] # n + 1 /\ put[i] = n + 1
        BY <1>1, <2>2, <3>1, <3>3
      <4> QED BY <2>5, <4>1
    <3>4. CASE j = n + 1 /\ i \in 1 .. n
      <4>1. put[i] # n + 1 /\ put[j] = n + 1
        BY <1>1, <2>2, <3>1, <3>4
      <4> QED BY <2>5, <4>1
    <3> QED BY <2>3, <3>2, <3>3, <3>4
  <2>6. ASSUME NEW k \in 1 .. n + 1 PROVE \E j \in 1 .. n + 1 : put[j] = k
    <3>1. CASE k = n + 1
      BY <2>2, <3>1
    <3>2. CASE k \in 1 .. n
      <4>1. PICK j \in 1 .. n : order[j] = k
        BY <1>1, <3>2
      <4>2. j \in 1 .. n + 1
        OBVIOUS
      <4> QED BY <2>2, <4>1, <4>2
    <3> QED BY <2>3, <3>1, <3>2
  <2> QED BY <2>2, <2>4, <2>5, <2>6 DEF IsOrder, put
<1>3. CASE later # {}
  <2> DEFINE p == Min(later)
  <2>1. p \in later
    <3>1. later \in SUBSET Nat
      BY <1>1
    <3> HIDE DEF later
    <3> QED BY <1>3, <3>1, Least
  <2>2. p \in 1 .. n /\ put = InsertAt(order, p, n + 1)
    BY <1>1, <1>3, <2>1 DEF Placed
  <2> HIDE DEF p, put
  <2>3. put \in Seq(Nat) /\ Len(put) = n + 1
        /\ \A j \in 1 .. n + 1 : put[j] = IF j < p THEN order[j] ELSE IF j = p THEN n + 1 ELSE order[j - 1]
    <3>1. n + 1 \in Nat /\ p \in 1 .. Len(order)
      BY <1>1, <2>2
    <3> DEFINE e == n + 1
    <3>2. e \in Nat /\ order \in Seq(Nat) /\ put = InsertAt(order, p, e)
      BY <1>1, <2>2, <3>1
    <3>3. Len(order) + 1 = n + 1
      BY <1>1
    <3> HIDE DEF e
    <3>4. Insertable(Nat, order, p, e)
      BY <3>1, <3>2 DEF Insertable
    <3>6. IsInserted(put, Nat, order, p, e)
      BY <3>2, <3>4, Inserts
    <3>5. put \in Seq(Nat) /\ Len(put) = n + 1
          /\ \A j \in 1 .. n + 1 : put[j] = IF j < p THEN order[j] ELSE IF j = p THEN e ELSE order[j - 1]
      BY <3>3, <3>6 DEF IsInserted
    <3> QED BY <3>5 DEF e
  <2>4. \A j \in 1 .. n + 1 : /\ j < p => j \in 1 .. n
                              /\ j > p => j - 1 \in 1 .. n
    BY <2>2
  <2>5. ASSUME NEW j \in 1 .. n + 1 PROVE put[j] \in 1 .. n + 1 /\ (j # p => put[j] \in 1 .. n)
    <3>1. CASE j < p
      BY <1>1, <2>3, <2>4, <3>1
    <3>2. CASE j = p
      BY <1>1, <2>3, <2>4, <3>2
    <3>3. CASE j > p
      <4>0. ~(j < p) /\ j # p
        BY <2>2, <3>3
      <4>1. put[j] = order[j - 1] /\ order[j - 1] \in 1 .. n
        BY <1>1, <2>3, <2>4, <3>3, <4>0
      <4> QED BY <4>1
    <3> QED BY <2>2, <3>1, <3>2, <3>3
  <2>6. ASSUME NEW i \in 1 .. n + 1, NEW j \in 1 .. n + 1, put[i] = put[j] PROVE i = j
    <3>0. put[p] = n + 1 /\ p \in 1 .. n + 1 /\ n + 1 \notin 1 .. n
      BY <2>2, <2>3
    <3>1. CASE i = p \/ j = p
      BY <2>5, <2>6, <3>0, <3>1
    <3>2. CASE i < p /\ j < p
      BY <1>1, <2>3, <2>4, <2>6, <3>2
    <3>3. CASE i < p /\ j > p
      <4>1. put[i] = order[i] /\ put[j] = order[j - 1] /\ i \in 1 .. n /\ j - 1 \in 1 .. n
        BY <2>2, <2>3, <2>4, <3>3
      <4>2. i = j - 1
        BY <1>1, <2>6, <4>1
      <4> QED BY <2>2, <3>3, <4>2
    <3>4. CASE i > p /\ j < p
      <4>1. put[j] = order[j] /\ put[i] = order[i - 1] /\ j \in 1 .. n /\ i - 1 \in 1 .. n
        BY <2>2, <2>3, <2>4, <3>4
      <4>2. j = i - 1
        BY <1>1, <2>6, <4>1
      <4> QED BY <2>2, <3>4, <4>2
    <3>5. CASE i > p /\ j > p
      <4>1. put[j] = order[j - 1] /\ put[i] = order[i - 1] /\ j - 1 \in 1 .. n /\ i - 1 \in 1 .. n
        BY <2>2, <2>3, <2>4, <3>5
      <4>2. j - 1 = i - 1
        BY <1>1, <2>6, <4>1
      <4> QED BY <4>2
    <3> QED BY <2>2, <3>1, <3>2, <3>3, <3>4, <3>5
  <2>7. ASSUME NEW k \in 1 .. n + 1 PROVE \E j \in 1 .. n + 1 : put[j] = k
    <3>1. CASE k = n + 1
      <4>1. put[p] = n + 1 /\ p \in 1 .. n + 1
        BY <2>2, <2>3
      <4> QED BY <3>1, <4>1
    <3>2. CASE k # n + 1
      <4>1. PICK j \in 1 .. n : order[j] = k
        BY <1>1, <3>2
      <4>2. CASE j < p
        <5>1. j \in 1 .. n + 1 /\ put[j] = k
          BY <2>3, <4>1, <4>2
        <5> QED BY <5>1
      <4>3. CASE ~(j < p)
        <5>1. j + 1 \in 1 .. n + 1 /\ ~(j + 1 < p) /\ j + 1 # p /\ (j + 1) - 1 = j
          BY <2>2, <4>3
        <5>2. put[j + 1] = k
          BY <2>3, <4>1, <5>1
        <5> QED BY <5>1, <5>2
      <4> QED BY <4>2, <4>3
    <3> QED BY <3>1, <3>2
  <2> QED BY <2>3, <2>5, <2>6, <2>7 DEF IsOrder, put
<1> QED BY <1>2, <1>3

\* A list arranged is the list in another order, and sorted.
LEMMA ArrangedOrder ==
    ASSUME NEW n \in Nat, NEW ahead
    PROVE  IsOrder(Arranged(n, ahead), n)
<1>1. ASSUME NEW a \in Seq(Nat), NEW i \in 1 .. n PROVE Placed(a, i, ahead) \in Seq(Nat)
  <2> DEFINE later == {k \in DOMAIN a : <<i, a[k]>> \in ahead}
  <2>1. CASE later = {}
    <3>1. Placed(a, i, ahead) = Append(a, i)
      BY <2>1 DEF Placed
    <3> QED BY <3>1, AppendProperties
  <2>2. CASE later # {}
    <3>1. Placed(a, i, ahead) = InsertAt(a, Min(later), i)
      BY <2>2 DEF Placed
    <3>2. DOMAIN a = 1 .. Len(a) /\ Len(a) \in Nat
      OBVIOUS
    <3>3. Min(later) \in later
      <4>1. later \in SUBSET Nat
        BY <3>2
      <4> HIDE DEF later
      <4> QED BY <2>2, <4>1, Least
    <3>4. Min(later) \in 1 .. Len(a)
      BY <3>2, <3>3
    <3> HIDE DEF later
    <3> QED BY <3>1, <3>4, InsertedAt
  <2> QED BY <2>1, <2>2
<1>2. ArrangedKeeps(n, ahead, Seq(Nat))
  BY <1>1, EmptySeq DEF ArrangedKeeps
<1>3. PICK g : ArrangedAlong(g, n, ahead, Seq(Nat))
  BY <1>2, ArrangedSteps
<1>4. /\ g[0] = <<>> /\ \A k \in 0 .. n - 1 : g[k + 1] = Placed(g[k], k + 1, ahead)
      /\ Arranged(n, ahead) = g[n]
  BY <1>3 DEF ArrangedAlong
<1> DEFINE T == {k \in Nat : k <= n => IsOrder(g[k], k)}
<1>5. 0 \in T
  <2>1. <<>> \in Seq(Nat) /\ Len(<<>>) = 0 /\ \A j \in 1 .. 0 : FALSE
    OBVIOUS
  <2>2. IsOrder(<<>>, 0)
    BY <2>1 DEF IsOrder
  <2> QED BY <1>4, <2>2
<1>6. ASSUME NEW k \in Nat, k \in T PROVE k + 1 \in T
  <2> SUFFICES ASSUME k + 1 <= n PROVE IsOrder(g[k + 1], k + 1)
    OBVIOUS
  <2>1. IsOrder(g[k], k) /\ g[k + 1] = Placed(g[k], k + 1, ahead)
    BY <1>4, <1>6
  <2> QED BY <2>1, PlacedOrder
<1>7. \A k \in Nat : k \in T
  <2> HIDE DEF T
  <2> QED BY <1>5, <1>6, NatSetInduction
<1>8. IsOrder(g[n], n)
  BY <1>7
<1> QED BY <1>4, <1>8

Reordered(list, order) == [k \in DOMAIN list |-> list[order[k]]]

\* A list in another order holds what it held.
LEMMA ReorderedFacts ==
    ASSUME NEW E, NEW list \in Seq(E), NEW order, IsOrder(order, Len(list))
    PROVE  /\ Reordered(list, order) \in Seq(E) /\ Len(Reordered(list, order)) = Len(list)
           /\ \E p : IsShuffle(Reordered(list, order), list, p)
<1> DEFINE n == Len(list)
           b == Reordered(list, order)
           p == [j \in 1 .. n |-> order[j]]
<1>1. n \in Nat /\ DOMAIN list = 1 .. n /\ \A i \in 1 .. n : list[i] \in E
  BY SeqParts
<1>2. /\ \A j \in 1 .. n : order[j] \in 1 .. n
      /\ \A i, j \in 1 .. n : order[i] = order[j] => i = j
      /\ \A k \in 1 .. n : \E j \in 1 .. n : order[j] = k
  BY DEF IsOrder
<1>3. b = [k \in 1 .. n |-> list[order[k]]] /\ \A k \in 1 .. n : list[order[k]] \in E
  BY <1>1, <1>2 DEF Reordered
<1>4. b \in Seq(E) /\ Len(b) = n /\ DOMAIN b = 1 .. n
  <2> HIDE DEF n, b
  <2> QED BY <1>1, <1>3
<1>5. IsShuffle(b, list, p)
  <2>1. p \in [1 .. n -> 1 .. n] /\ \A j \in 1 .. n : p[j] = order[j]
    BY <1>2
  <2>2. \A i \in 1 .. n : b[i] = list[p[i]]
    BY <1>3, <2>1
  <2>3. \A i \in 1 .. n : \E a \in 1 .. n : p[a] = i
    <3> TAKE i \in 1 .. n
    <3>1. PICK a \in 1 .. n : order[a] = i
      BY <1>2
    <3> HIDE DEF p
    <3> QED BY <2>1, <3>1
  <2>4. \A a, c \in 1 .. n : p[a] = p[c] => a = c
    BY <1>2
  <2> HIDE DEF n, b, p
  <2> QED BY <1>1, <1>4, <2>1, <2>2, <2>3, <2>4 DEF IsShuffle
<1> QED BY <1>4, <1>5

\* A history is the lots it was made of.
LEMMA HistoryFacts ==
    ASSUME NEW lots \in Seq(Acquisition)
    PROVE  /\ History(lots) \in Seq(Acquisition) /\ Len(History(lots)) = Len(lots)
           /\ \E p : IsShuffle(History(lots), lots, p)
<1> DEFINE order == Arranged(Len(lots), {at \in (DOMAIN lots) \X (DOMAIN lots) : lots[at[1]].at < lots[at[2]].at})
<1>1. IsOrder(order, Len(lots))
  BY SeqParts, ArrangedOrder
<1>2. History(lots) = Reordered(lots, order)
  BY DEF History, InOrder, Reordered
<1> HIDE DEF order
<1> QED BY <1>1, <1>2, ReorderedFacts

\* A list backwards is the list in another order.
LEMMA ReverseFacts ==
    ASSUME NEW E, NEW list \in Seq(E)
    PROVE  /\ Reverse(list) \in Seq(E) /\ Len(Reverse(list)) = Len(list)
           /\ \E p : IsShuffle(Reverse(list), list, p)
<1> DEFINE n == Len(list)
           b == Reverse(list)
           p == [i \in 1 .. n |-> n - i + 1]
<1>1. n \in Nat /\ DOMAIN list = 1 .. n /\ \A i \in 1 .. n : list[i] \in E
  BY SeqParts
<1>2. \A i \in 1 .. n : n - i + 1 \in 1 .. n
  BY <1>1
<1>3. b = [i \in 1 .. n |-> list[n - i + 1]] /\ \A i \in 1 .. n : list[n - i + 1] \in E
  BY <1>1, <1>2 DEF Reverse
<1>4. b \in Seq(E) /\ Len(b) = n /\ DOMAIN b = 1 .. n
  <2> HIDE DEF n, b
  <2> QED BY <1>1, <1>3
<1>5. IsShuffle(b, list, p)
  <2>1. p \in [1 .. n -> 1 .. n]
    BY <1>2
  <2>2. \A i \in 1 .. n : b[i] = list[p[i]]
    BY <1>3
  <2>3. \A i \in 1 .. n : p[n - i + 1] = i /\ n - i + 1 \in 1 .. n
    BY <1>1
  <2>4. \A a, c \in 1 .. n : p[a] = p[c] => a = c
    BY <1>1
  <2> HIDE DEF n, b, p
  <2> QED BY <1>1, <1>4, <2>1, <2>2, <2>3, <2>4 DEF IsShuffle
<1> QED BY <1>4, <1>5

-----------------------------------------------------------------------------

\* What a stack is.
LEMMA OwnedParts ==
    ASSUME NEW one \in Owned
    PROVE  /\ one.quantity \in Nat /\ one.acquisitions \in Seq(Acquisition)
           /\ one.createdAt \in Int /\ one.updatedAt \in Int
  BY DEF Owned

\* Two stacks of one identity as one: what it comes to.
LEMMA MergeFacts ==
    ASSUME NEW one \in Owned, NEW other \in Owned, NEW at \in Nat
    PROVE  /\ Merge(one, other, at) \in Owned
           /\ Merge(one, other, at).quantity = one.quantity + other.quantity
           /\ Len(Merge(one, other, at).acquisitions) = Len(one.acquisitions) + Len(other.acquisitions)
           /\ Stack(Merge(one, other, at)) = Stack(one)
<1> DEFINE lots == one.acquisitions \o other.acquisitions
<1>1. lots \in Seq(Acquisition) /\ Len(lots) = Len(one.acquisitions) + Len(other.acquisitions)
  BY OwnedParts, ConcatProperties
<1>2. History(lots) \in Seq(Acquisition) /\ Len(History(lots)) = Len(lots)
  BY <1>1, HistoryFacts
<1>3. /\ Earlier(one.createdAt, other.createdAt) \in Int
      /\ (IF at > 0 THEN at ELSE Later(one.updatedAt, other.updatedAt)) \in Int
      /\ one.quantity + other.quantity \in Nat
  BY OwnedParts DEF Earlier, Later
<1> HIDE DEF lots
<1>4. Merge(one, other, at) =
        [one EXCEPT !.quantity = one.quantity + other.quantity, !.acquisitions = History(lots),
                    !.createdAt = Earlier(one.createdAt, other.createdAt),
                    !.updatedAt = IF at > 0 THEN at ELSE Later(one.updatedAt, other.updatedAt)]
  BY DEF Merge, lots
<1> DEFINE a == Earlier(one.createdAt, other.createdAt)
           b == IF at > 0 THEN at ELSE Later(one.updatedAt, other.updatedAt)
           c == one.quantity + other.quantity
           d == History(lots)
<1>5. a \in Int /\ b \in Int /\ c \in Nat /\ d \in Seq(Acquisition)
  BY <1>2, <1>3
<1>6. Merge(one, other, at) = [one EXCEPT !.quantity = c, !.acquisitions = d, !.createdAt = a, !.updatedAt = b]
  BY <1>4
<1>7. c = one.quantity + other.quantity /\ Len(d) = Len(one.acquisitions) + Len(other.acquisitions)
  BY <1>1, <1>2
<1> HIDE DEF a, b, c, d
<1>8. Merge(one, other, at) \in Owned
  BY <1>5, <1>6 DEF Owned
<1>9. Merge(one, other, at).quantity = c /\ Merge(one, other, at).acquisitions = d
  BY <1>6 DEF Owned
<1>10. Stack(Merge(one, other, at)) = Stack(one)
  BY <1>6 DEF Owned, Stack
<1> QED BY <1>7, <1>8, <1>9, <1>10

-----------------------------------------------------------------------------
(* Stacks taken in one after the other: collapsed, planned, weighed.       *)

Identities(list) == {Stack(list[i]) : i \in DOMAIN list}
Distinct(list) == \A i, j \in DOMAIN list : Stack(list[i]) = Stack(list[j]) => i = j

\* What two stacks made one come to together.
IsAdditive(w) ==
    /\ w \in [Owned -> Nat]
    /\ \A one, other \in Owned, at \in Nat : Stack(one) = Stack(other) => w[Merge(one, other, at)] = w[one] + w[other]

Copies == [one \in Owned |-> one.quantity]
CopiesOn(P) == [one \in Owned |-> IF Stack(one) \in P THEN one.quantity ELSE 0]
LotsOn(P) == [one \in Owned |-> IF Stack(one) \in P THEN Len(one.acquisitions) ELSE 0]
Ones(P) == [one \in Owned |-> IF Stack(one) \in P THEN 1 ELSE 0]

\* Copies and lots add up when two stacks are made one.
LEMMA Additives ==
    /\ IsAdditive(Copies)
    /\ \A P : IsAdditive(CopiesOn(P)) /\ IsAdditive(LotsOn(P)) /\ Ones(P) \in [Owned -> Nat]
<1>1. IsAdditive(Copies)
  <2>1. Copies \in [Owned -> Nat]
    BY OwnedParts DEF Copies
  <2>2. ASSUME NEW one \in Owned, NEW other \in Owned, NEW at \in Nat, Stack(one) = Stack(other)
        PROVE  Copies[Merge(one, other, at)] = Copies[one] + Copies[other]
    BY MergeFacts DEF Copies
  <2> QED BY <2>1, <2>2 DEF IsAdditive
<1>2. ASSUME NEW P PROVE IsAdditive(CopiesOn(P))
  <2>1. CopiesOn(P) \in [Owned -> Nat]
    BY OwnedParts DEF CopiesOn
  <2>2. ASSUME NEW one \in Owned, NEW other \in Owned, NEW at \in Nat, Stack(one) = Stack(other)
        PROVE  CopiesOn(P)[Merge(one, other, at)] = CopiesOn(P)[one] + CopiesOn(P)[other]
    <3> DEFINE m == Merge(one, other, at)
    <3>1. m \in Owned /\ m.quantity = one.quantity + other.quantity /\ Stack(m) = Stack(one)
      BY MergeFacts
    <3>2. one.quantity \in Nat /\ other.quantity \in Nat
      BY OwnedParts
    <3> HIDE DEF m
    <3>3. CopiesOn(P)[m] = CopiesOn(P)[one] + CopiesOn(P)[other]
      BY <2>2, <3>1, <3>2 DEF CopiesOn
    <3> QED BY <3>3 DEF m
  <2> QED BY <2>1, <2>2 DEF IsAdditive
<1>3. ASSUME NEW P PROVE IsAdditive(LotsOn(P))
  <2>1. ASSUME NEW one \in Owned PROVE Len(one.acquisitions) \in Nat
    BY OwnedParts
  <2>2. LotsOn(P) \in [Owned -> Nat]
    BY <2>1 DEF LotsOn
  <2>3. ASSUME NEW one \in Owned, NEW other \in Owned, NEW at \in Nat, Stack(one) = Stack(other)
        PROVE  LotsOn(P)[Merge(one, other, at)] = LotsOn(P)[one] + LotsOn(P)[other]
    <3> DEFINE m == Merge(one, other, at)
    <3>1. m \in Owned /\ Len(m.acquisitions) = Len(one.acquisitions) + Len(other.acquisitions) /\ Stack(m) = Stack(one)
      BY MergeFacts
    <3> HIDE DEF m
    <3>3. LotsOn(P)[m] = LotsOn(P)[one] + LotsOn(P)[other]
      <4>1. Len(one.acquisitions) \in Nat /\ Len(other.acquisitions) \in Nat
        BY <2>1
      <4> DEFINE x == Len(one.acquisitions)
                 y == Len(other.acquisitions)
                 z == Len(m.acquisitions)
      <4>2. LotsOn(P)[m] = (IF Stack(m) \in P THEN z ELSE 0) /\ LotsOn(P)[one] = (IF Stack(one) \in P THEN x ELSE 0)
            /\ LotsOn(P)[other] = (IF Stack(other) \in P THEN y ELSE 0)
        BY <3>1 DEF LotsOn
      <4>3. z = x + y /\ x \in Nat /\ y \in Nat
        BY <3>1, <4>1
      <4> HIDE DEF x, y, z
      <4> QED BY <2>3, <3>1, <4>2, <4>3
    <3> QED BY <3>3 DEF m
  <2> QED BY <2>2, <2>3 DEF IsAdditive
<1>4. ASSUME NEW P PROVE Ones(P) \in [Owned -> Nat]
  BY DEF Ones
<1> QED BY <1>1, <1>2, <1>3, <1>4

\* One more joins one it may, or is put last.
Grows(a, b, e) ==
    \/ b = Append(a, e)
    \/ \E i \in DOMAIN a, at \in Nat : Joins(a[i], e) /\ b = [a EXCEPT ![i] = Merge(a[i], e, at)]
\* And is put last only where it may join none.
Takes(a, b, e) == Grows(a, b, e) /\ (b = Append(a, e) => \A i \in DOMAIN a : ~Joins(a[i], e))

\* A list with one of it put by another of its identity.
IsPut(a, i, one, b) ==
    a \in Seq(Owned) /\ i \in DOMAIN a /\ one \in Owned /\ b = [a EXCEPT ![i] = one] /\ Stack(one) = Stack(a[i])
\* A list with one of it replaced.
LEMMA PutFacts ==
    ASSUME NEW a, NEW i, NEW one, NEW b, IsPut(a, i, one, b)
    PROVE  /\ b \in Seq(Owned) /\ DOMAIN b = DOMAIN a /\ Len(b) = Len(a) /\ b[i] = one /\ \A j \in DOMAIN a \ {i} : b[j] = a[j]
           /\ \A j \in DOMAIN a : Stack(b[j]) = Stack(a[j])
           /\ Identities(b) = Identities(a)
           /\ Distinct(b) <=> Distinct(a)
           /\ \A w \in [Owned -> Nat] : Weighed(b, w) + w[a[i]] = Weighed(a, w) + w[one]
<1>0. a \in Seq(Owned) /\ i \in DOMAIN a /\ one \in Owned /\ b = [a EXCEPT ![i] = one] /\ Stack(one) = Stack(a[i])
  BY DEF IsPut
<1>1. a \in [1 .. Len(a) -> Owned] /\ Len(a) \in Nat /\ DOMAIN a = 1 .. Len(a)
  BY <1>0
<1>2. b \in [1 .. Len(a) -> Owned] /\ b[i] = one /\ \A j \in DOMAIN a \ {i} : b[j] = a[j]
  BY <1>0, <1>1
<1>3. b \in Seq(Owned) /\ Len(b) = Len(a) /\ DOMAIN b = DOMAIN a
  BY <1>1, <1>2
<1>4. \A j \in DOMAIN a : Stack(b[j]) = Stack(a[j])
  BY <1>0, <1>2
<1>5. Identities(b) = Identities(a)
  BY <1>3, <1>4 DEF Identities
<1>6. Distinct(b) <=> Distinct(a)
  BY <1>3, <1>4 DEF Distinct
<1>7. ASSUME NEW w \in [Owned -> Nat] PROVE Weighed(b, w) + w[a[i]] = Weighed(a, w) + w[one]
  <2>1. IsSwap(b, a, i, Owned)
    BY <1>0, <1>2, <1>3 DEF IsSwap
  <2> QED BY <1>2, <2>1, WeighedSwap
<1> QED BY <1>2, <1>3, <1>4, <1>5, <1>6, <1>7

\* Taking one in adds what it weighs and its identity.
LEMMA GrowsFacts ==
    ASSUME NEW a \in Seq(Owned), NEW e \in Owned, NEW b, Grows(a, b, e)
    PROVE  /\ b \in Seq(Owned)
           /\ \A w : IsAdditive(w) => Weighed(b, w) = Weighed(a, w) + w[e]
           /\ Identities(b) = Identities(a) \cup {Stack(e)}
<1>1. CASE b = Append(a, e)
  <2>1. b \in Seq(Owned) /\ DOMAIN b = 1 .. Len(a) + 1 /\ b[Len(a) + 1] = e /\ \A i \in DOMAIN a : b[i] = a[i]
    BY <1>1, AppendRange
  <2>2. DOMAIN a = 1 .. Len(a) /\ Len(a) \in Nat
    BY SeqParts
  <2>3. ASSUME NEW w, IsAdditive(w) PROVE Weighed(b, w) = Weighed(a, w) + w[e]
    <3>1. w \in [Owned -> Nat]
      BY <2>3 DEF IsAdditive
    <3> QED BY <1>1, <3>1, WeighedAppend
  <2>4. Identities(b) = Identities(a) \cup {Stack(e)}
    <3> DEFINE n == Len(a)
    <3>1. \A i \in 1 .. n + 1 : i \in 1 .. n \/ i = n + 1
      BY <2>2
    <3>2. n + 1 \in 1 .. n + 1 /\ \A i \in 1 .. n : i \in 1 .. n + 1
      BY <2>2
    <3>3. DOMAIN b = 1 .. n + 1 /\ b[n + 1] = e /\ DOMAIN a = 1 .. n /\ \A i \in 1 .. n : b[i] = a[i]
      BY <2>1, <2>2
    <3> HIDE DEF n
    <3>4. Identities(b) = {Stack(b[i]) : i \in 1 .. n + 1} /\ Identities(a) = {Stack(a[i]) : i \in 1 .. n}
      BY <3>3 DEF Identities
    <3>5. \A x : x \in Identities(b) <=> x \in Identities(a) \cup {Stack(e)}
      BY <3>1, <3>2, <3>3, <3>4
    <3> QED BY <3>5
  <2> QED BY <2>1, <2>3, <2>4
<1>2. ASSUME NEW i \in DOMAIN a, NEW at \in Nat, Joins(a[i], e), b = [a EXCEPT ![i] = Merge(a[i], e, at)]
      PROVE  /\ b \in Seq(Owned)
             /\ \A w : IsAdditive(w) => Weighed(b, w) = Weighed(a, w) + w[e]
             /\ Identities(b) = Identities(a) \cup {Stack(e)}
  <2> DEFINE m == Merge(a[i], e, at)
  <2>1. a[i] \in Owned /\ Stack(a[i]) = Stack(e)
    BY <1>2 DEF Joins
  <2>2. m \in Owned /\ Stack(m) = Stack(a[i])
    BY <2>1, MergeFacts
  <2> HIDE DEF m
  <2>3. b = [a EXCEPT ![i] = m]
    BY <1>2 DEF m
  <2>3a. IsPut(a, i, m, b)
    BY <2>2, <2>3 DEF IsPut
  <2>4. /\ b \in Seq(Owned) /\ Identities(b) = Identities(a)
        /\ \A w \in [Owned -> Nat] : Weighed(b, w) + w[a[i]] = Weighed(a, w) + w[m]
    BY <2>3a, PutFacts
  <2>5. ASSUME NEW w, IsAdditive(w) PROVE Weighed(b, w) = Weighed(a, w) + w[e]
    <3>1. w \in [Owned -> Nat] /\ w[m] = w[a[i]] + w[e]
      BY <2>1, <2>5 DEF IsAdditive, m
    <3>2. Weighed(b, w) + w[a[i]] = Weighed(a, w) + w[m]
      BY <2>4, <3>1
    <3>3. w[a[i]] \in Nat /\ w[e] \in Nat
      BY <2>1, <3>1
    <3>4. Weighed(b, w) \in Nat /\ Weighed(a, w) \in Nat
      BY <2>4, <3>1, WeighedType
    <3> HIDE DEF m
    <3>5. w[m] = w[a[i]] + w[e]
      BY <3>1
    <3> QED BY <3>2, <3>3, <3>4, <3>5
  <2>6. Stack(e) \in Identities(a)
    BY <2>1 DEF Identities
  <2> QED BY <2>4, <2>5, <2>6
<1> QED BY <1>1, <1>2 DEF Grows

\* What a list has of one identity.
LEMMA OnesFacts ==
    ASSUME NEW list \in Seq(Owned), NEW k
    PROVE  /\ Weighed(list, Ones({k})) \in Nat /\ Weighed(list, CopiesOn({k})) \in Nat /\ Weighed(list, LotsOn({k})) \in Nat
           /\ k \in Identities(list) => Weighed(list, Ones({k})) >= 1
           /\ k \notin Identities(list) =>
                 Weighed(list, Ones({k})) = 0 /\ Weighed(list, CopiesOn({k})) = 0 /\ Weighed(list, LotsOn({k})) = 0
           /\ \A i, j \in DOMAIN list : i # j /\ Stack(list[i]) = k /\ Stack(list[j]) = k => Weighed(list, Ones({k})) >= 2
           /\ \A i \in DOMAIN list : Stack(list[i]) = k /\ (Distinct(list) \/ Weighed(list, Ones({k})) = 1) =>
                 /\ Weighed(list, CopiesOn({k})) = list[i].quantity
                 /\ Weighed(list, LotsOn({k})) = Len(list[i].acquisitions)
<1> DEFINE u == Ones({k})  c == CopiesOn({k})  l == LotsOn({k})
<1>1. u \in [Owned -> Nat] /\ c \in [Owned -> Nat] /\ l \in [Owned -> Nat]
  BY Additives DEF IsAdditive
<1>2. Weighable(Owned, list, u) /\ Weighable(Owned, list, c) /\ Weighable(Owned, list, l)
  BY <1>1 DEF Weighable
<1>3. \A i \in DOMAIN list : list[i] \in Owned
  BY SeqParts
<1>4. \A i \in DOMAIN list : /\ u[list[i]] = IF Stack(list[i]) = k THEN 1 ELSE 0
                             /\ c[list[i]] = IF Stack(list[i]) = k THEN list[i].quantity ELSE 0
                             /\ l[list[i]] = IF Stack(list[i]) = k THEN Len(list[i].acquisitions) ELSE 0
  BY <1>3 DEF Ones, CopiesOn, LotsOn
<1>5. Weighed(list, u) \in Nat /\ Weighed(list, c) \in Nat /\ Weighed(list, l) \in Nat
  BY <1>1, WeighedType
<1> HIDE DEF u, c, l
<1>6. /\ (\A j \in DOMAIN list : u[list[j]] = 0) => Weighed(list, u) = 0
      /\ (\A j \in DOMAIN list : c[list[j]] = 0) => Weighed(list, c) = 0
      /\ (\A j \in DOMAIN list : l[list[j]] = 0) => Weighed(list, l) = 0
  BY <1>2, WeighedLone
<1>7. \A i \in DOMAIN list :
        /\ Weighed(list, u) >= u[list[i]]
        /\ \A j \in DOMAIN list \ {i} : Weighed(list, u) >= u[list[i]] + u[list[j]]
  BY <1>2, WeighedLone
<1>8. \A i \in DOMAIN list :
        /\ (\A j \in DOMAIN list \ {i} : c[list[j]] = 0) => Weighed(list, c) = c[list[i]]
        /\ (\A j \in DOMAIN list \ {i} : l[list[j]] = 0) => Weighed(list, l) = l[list[i]]
  BY <1>2, WeighedLone
<1>9. k \in Identities(list) => Weighed(list, u) >= 1
  BY <1>4, <1>7 DEF Identities
<1>10. ASSUME k \notin Identities(list)
       PROVE  Weighed(list, u) = 0 /\ Weighed(list, c) = 0 /\ Weighed(list, l) = 0
  <2>1. \A j \in DOMAIN list : Stack(list[j]) # k
    BY <1>10 DEF Identities
  <2> QED BY <1>4, <1>6, <2>1
<1>11. \A i, j \in DOMAIN list : i # j /\ Stack(list[i]) = k /\ Stack(list[j]) = k => Weighed(list, u) >= 2
  <2> TAKE i, j \in DOMAIN list
  <2> HAVE i # j /\ Stack(list[i]) = k /\ Stack(list[j]) = k
  <2>1. u[list[i]] = 1 /\ u[list[j]] = 1 /\ j \in DOMAIN list \ {i}
    BY <1>4
  <2>2. Weighed(list, u) >= u[list[i]] + u[list[j]]
    BY <1>7, <2>1
  <2> QED BY <1>5, <2>1, <2>2
<1>12. ASSUME NEW i \in DOMAIN list, Stack(list[i]) = k, Distinct(list) \/ Weighed(list, u) = 1
       PROVE  Weighed(list, c) = list[i].quantity /\ Weighed(list, l) = Len(list[i].acquisitions)
  <2>1. \A j \in DOMAIN list \ {i} : Stack(list[j]) # k
    <3> TAKE j \in DOMAIN list \ {i}
    <3>1. CASE Distinct(list)
      BY <1>12, <3>1 DEF Distinct
    <3>2. CASE Weighed(list, u) = 1
      BY <1>11, <1>12, <3>2
    <3> QED BY <1>12, <3>1, <3>2
  <2>2. \A j \in DOMAIN list \ {i} : c[list[j]] = 0 /\ l[list[j]] = 0
    BY <1>4, <2>1
  <2>3. c[list[i]] = list[i].quantity /\ l[list[i]] = Len(list[i].acquisitions)
    BY <1>4, <1>12
  <2> QED BY <1>8, <2>2, <2>3
<1> QED BY <1>5, <1>9, <1>10, <1>11, <1>12 DEF u, c, l

\* One after another is taken.
IsTaking(v, start, list) ==
    /\ start \in Seq(Owned) /\ list \in Seq(Owned)
    /\ v[0] = start
    /\ \A n \in 0 .. Len(list) - 1 : Takes(v[n], v[n + 1], list[n + 1])

IsTaken(b, start, list) ==
    /\ b \in Seq(Owned)
    /\ Identities(b) = Identities(start) \cup Identities(list)
    /\ \A w : IsAdditive(w) => Weighed(b, w) = Weighed(start, w) + Weighed(list, w)

\* One more taken in.
LEMMA TakenOne ==
    ASSUME NEW start \in Seq(Owned), NEW some \in Seq(Owned), NEW a, IsTaken(a, start, some), NEW e \in Owned, NEW b, Takes(a, b, e)
    PROVE  IsTaken(b, start, Append(some, e))
<1>1. /\ a \in Seq(Owned) /\ Identities(a) = Identities(start) \cup Identities(some)
      /\ \A w : IsAdditive(w) => Weighed(a, w) = Weighed(start, w) + Weighed(some, w)
  BY DEF IsTaken
<1>2. /\ b \in Seq(Owned) /\ Identities(b) = Identities(a) \cup {Stack(e)}
      /\ \A w : IsAdditive(w) => Weighed(b, w) = Weighed(a, w) + w[e]
  BY <1>1, GrowsFacts DEF Takes
<1>3. /\ Identities(Append(some, e)) = Identities(some) \cup {Stack(e)}
      /\ \A w : IsAdditive(w) => Weighed(Append(some, e), w) = Weighed(some, w) + w[e]
  <2>1. Grows(some, Append(some, e), e)
    BY DEF Grows
  <2> QED BY <2>1, GrowsFacts
<1>4. ASSUME NEW w, IsAdditive(w) PROVE Weighed(b, w) = Weighed(start, w) + Weighed(Append(some, e), w)
  <2>1. w \in [Owned -> Nat]
    BY <1>4 DEF IsAdditive
  <2>2. Weighed(b, w) = Weighed(a, w) + w[e] /\ Weighed(a, w) = Weighed(start, w) + Weighed(some, w)
        /\ Weighed(Append(some, e), w) = Weighed(some, w) + w[e]
    BY <1>1, <1>2, <1>3, <1>4
  <2>3. Weighed(some, w) \in Nat /\ w[e] \in Nat /\ Weighed(a, w) \in Nat
    BY <1>1, <2>1, WeighedType
  <2>4. Weighed(start, w) \in Nat
    BY <2>1, WeighedType
  <2> QED BY <2>2, <2>3, <2>4
<1> QED BY <1>1, <1>2, <1>3, <1>4 DEF IsTaken

\* The identities among the first n.
LEMMA FirstIdentities ==
    ASSUME NEW list \in Seq(Owned), NEW n \in 0 .. Len(list)
    PROVE  Identities(SubSeq(list, 1, n)) \subseteq Identities(list)
<1>1. /\ SubSeq(list, 1, n) \in Seq(Owned) /\ Len(SubSeq(list, 1, n)) = n
      /\ \A i \in 1 .. n : SubSeq(list, 1, n)[i] = list[i]
  BY FirstOnes
<1> DEFINE a == SubSeq(list, 1, n)
<1> HIDE DEF a
<1>2. DOMAIN a = 1 .. n /\ DOMAIN list = 1 .. Len(list) /\ Len(list) \in Nat /\ \A i \in 1 .. n : a[i] = list[i]
  BY <1>1, SeqParts DEF a
<1>3. \A i \in 1 .. n : i \in 1 .. Len(list)
  BY <1>2
<1> QED BY <1>2, <1>3 DEF Identities, a

\* Taking in a whole list adds what it weighs and its identities.
LEMMA TakingTaken ==
    ASSUME NEW v, NEW start, NEW list, IsTaking(v, start, list)
    PROVE  \A n \in 0 .. Len(list) : IsTaken(v[n], start, SubSeq(list, 1, n))
<1>0. /\ start \in Seq(Owned) /\ list \in Seq(Owned) /\ v[0] = start
      /\ \A n \in 0 .. Len(list) - 1 : Takes(v[n], v[n + 1], list[n + 1])
  BY DEF IsTaking
<1>1. Len(list) \in Nat /\ \A i \in 1 .. Len(list) : list[i] \in Owned
  BY <1>0
<1> DEFINE T == {n \in Nat : n <= Len(list) => IsTaken(v[n], start, SubSeq(list, 1, n))}
<1>2. 0 \in T
  <2>1. SubSeq(list, 1, 0) = <<>>
    BY <1>0, FirstOnes
  <2>2. ASSUME NEW w, IsAdditive(w) PROVE Weighed(start, w) = Weighed(start, w) + Weighed(<<>>, w)
    <3>1. w \in [Owned -> Nat]
      BY <2>2 DEF IsAdditive
    <3>2. Weighed(start, w) \in Nat
      BY <1>0, <3>1, WeighedType
    <3> QED BY <3>2, WeighedNone
  <2>3. Identities(<<>>) = {}
    BY DEF Identities
  <2> QED BY <1>0, <2>1, <2>2, <2>3 DEF IsTaken
<1>3. ASSUME NEW n \in Nat, n \in T PROVE n + 1 \in T
  <2> SUFFICES ASSUME n + 1 <= Len(list) PROVE IsTaken(v[n + 1], start, SubSeq(list, 1, n + 1))
    OBVIOUS
  <2>1. n \in 0 .. Len(list) - 1 /\ n \in 0 .. Len(list) /\ list[n + 1] \in Owned /\ IsTaken(v[n], start, SubSeq(list, 1, n))
    BY <1>1, <1>3
  <2> DEFINE some == SubSeq(list, 1, n)
             e == list[n + 1]
  <2>2. SubSeq(list, 1, n + 1) = Append(some, e) /\ some \in Seq(Owned)
    BY <1>0, <2>1, FirstOnes
  <2>3. Takes(v[n], v[n + 1], e)
    BY <1>0, <2>1
  <2> HIDE DEF some, e
  <2>4. IsTaken(v[n], start, some) /\ e \in Owned
    BY <2>1 DEF some, e
  <2>5. IsTaken(v[n + 1], start, Append(some, e))
    BY <1>0, <2>2, <2>3, <2>4, TakenOne
  <2> QED BY <2>2, <2>5
<1>4. \A n \in Nat : n \in T
  <2> HIDE DEF T
  <2> QED BY <1>2, <1>3, NatSetInduction
<1> QED BY <1>1, <1>4

\* No identity of which there is more than one passes a ceiling.
Fitting(start, list) ==
    \A k \in Identities(start) \cup Identities(list) :
       Weighed(start, Ones({k})) + Weighed(list, Ones({k})) >= 2 =>
          /\ Weighed(start, CopiesOn({k})) + Weighed(list, CopiesOn({k})) <= COPIES
          /\ Weighed(start, LotsOn({k})) + Weighed(list, LotsOn({k})) <= LOTS

\* What fits as a whole fits as far as it has gone.
LEMMA FittingFirst ==
    ASSUME NEW start \in Seq(Owned), NEW list \in Seq(Owned), NEW n \in 0 .. Len(list), Fitting(start, list)
    PROVE  Fitting(start, SubSeq(list, 1, n))
<1> DEFINE a == SubSeq(list, 1, n)
<1>1. a \in Seq(Owned) /\ Identities(a) \subseteq Identities(list)
  BY FirstOnes, FirstIdentities
<1>2. ASSUME NEW k \in Identities(start) \cup Identities(a), Weighed(start, Ones({k})) + Weighed(a, Ones({k})) >= 2
      PROVE  /\ Weighed(start, CopiesOn({k})) + Weighed(a, CopiesOn({k})) <= COPIES
             /\ Weighed(start, LotsOn({k})) + Weighed(a, LotsOn({k})) <= LOTS
  <2> DEFINE u == Ones({k})  c == CopiesOn({k})  l == LotsOn({k})
  <2>1. u \in [Owned -> Nat] /\ c \in [Owned -> Nat] /\ l \in [Owned -> Nat]
    BY Additives DEF IsAdditive
  <2> HIDE DEF u, c, l
  <2>2. Weighed(a, u) <= Weighed(list, u) /\ Weighed(a, c) <= Weighed(list, c) /\ Weighed(a, l) <= Weighed(list, l)
    BY <2>1, WeighedFirst
  <2> HIDE DEF a
  <2>3. /\ Weighed(a, u) \in Nat /\ Weighed(a, c) \in Nat /\ Weighed(a, l) \in Nat
        /\ Weighed(list, u) \in Nat /\ Weighed(list, c) \in Nat /\ Weighed(list, l) \in Nat
        /\ Weighed(start, u) \in Nat /\ Weighed(start, c) \in Nat /\ Weighed(start, l) \in Nat
    BY <1>1, OnesFacts DEF u, c, l
  <2>4. k \in Identities(start) \cup Identities(list)
    BY <1>1
  <2>5. Weighed(start, u) + Weighed(a, u) >= 2
    BY <1>2 DEF u
  <2>6. Weighed(start, u) + Weighed(list, u) >= 2
    BY <2>2, <2>3, <2>5
  <2>7. Weighed(start, c) + Weighed(list, c) <= COPIES /\ Weighed(start, l) + Weighed(list, l) <= LOTS
    BY <2>4, <2>6 DEF Fitting, u, c, l
  <2>8. COPIES \in Nat /\ LOTS \in Nat
    BY CeilingsAssumption
  <2>9. Weighed(start, c) + Weighed(a, c) <= COPIES /\ Weighed(start, l) + Weighed(a, l) <= LOTS
    BY <2>2, <2>3, <2>7, <2>8
  <2> QED BY <2>9 DEF c, l
<1> QED BY <1>2 DEF Fitting

\* A list without two of an identity, and one more.
LEMMA DistinctAppend ==
    ASSUME NEW a \in Seq(Owned), NEW e \in Owned
    PROVE  Distinct(Append(a, e)) <=> Distinct(a) /\ Stack(e) \notin Identities(a)
<1> DEFINE n == Len(a)
           b == Append(a, e)
<1>1. DOMAIN b = 1 .. n + 1 /\ b[n + 1] = e /\ DOMAIN a = 1 .. n /\ n \in Nat /\ \A i \in 1 .. n : b[i] = a[i]
  BY AppendRange, SeqParts
<1> HIDE DEF n, b
<1>2. \A i \in 1 .. n + 1 : i \in 1 .. n \/ i = n + 1
  BY <1>1
<1>3. n + 1 \in 1 .. n + 1 /\ n + 1 \notin 1 .. n /\ \A i \in 1 .. n : i \in 1 .. n + 1
  BY <1>1
<1>4. ASSUME Distinct(b) PROVE Distinct(a) /\ Stack(e) \notin Identities(a)
  BY <1>1, <1>3, <1>4 DEF Distinct, Identities
<1>5. ASSUME Distinct(a), Stack(e) \notin Identities(a) PROVE Distinct(b)
  <2>1. \A i \in 1 .. n : Stack(b[i]) # Stack(b[n + 1])
    BY <1>1, <1>5 DEF Identities
  <2> SUFFICES ASSUME NEW i \in 1 .. n + 1, NEW j \in 1 .. n + 1, Stack(b[i]) = Stack(b[j]) PROVE i = j
    BY <1>1 DEF Distinct
  <2>2. CASE i \in 1 .. n /\ j \in 1 .. n
    BY <1>1, <1>5, <2>2 DEF Distinct
  <2>3. CASE i = n + 1 \/ j = n + 1
    BY <1>2, <2>1, <2>3
  <2> QED BY <1>2, <2>2, <2>3
<1> QED BY <1>4, <1>5 DEF b

\* While everything fits, taking one in leaves no two of an identity.
LEMMA TakesDistinct ==
    ASSUME NEW start \in Seq(Owned), NEW some \in Seq(Owned), NEW a, IsTaken(a, start, some), Distinct(a),
           NEW e \in Owned, NEW b, Takes(a, b, e), Fitting(start, Append(some, e))
    PROVE  Distinct(b)
<1>1. /\ a \in Seq(Owned) /\ Identities(a) = Identities(start) \cup Identities(some)
      /\ \A w : IsAdditive(w) => Weighed(a, w) = Weighed(start, w) + Weighed(some, w)
  BY DEF IsTaken
<1>2. CASE b = Append(a, e)
  <2>1. \A i \in DOMAIN a : ~Joins(a[i], e)
    BY <1>2 DEF Takes
  <2>2. ASSUME NEW i \in DOMAIN a, Stack(a[i]) = Stack(e) PROVE FALSE
    <3> DEFINE k == Stack(e)
               u == Ones({k})  c == CopiesOn({k})  l == LotsOn({k})
    <3>1. u \in [Owned -> Nat] /\ IsAdditive(c) /\ IsAdditive(l) /\ c \in [Owned -> Nat] /\ l \in [Owned -> Nat]
      BY Additives DEF IsAdditive
    <3>2. u[e] = 1 /\ c[e] = e.quantity /\ l[e] = Len(e.acquisitions)
      BY DEF Ones, CopiesOn, LotsOn
    <3>3. Append(some, e) \in Seq(Owned) /\ k \in Identities(Append(some, e))
      <4>1. Grows(some, Append(some, e), e)
        BY DEF Grows
      <4> QED BY <4>1, GrowsFacts
    <3>4. Weighed(a, c) = a[i].quantity /\ Weighed(a, l) = Len(a[i].acquisitions)
      BY <1>1, <2>2, OnesFacts
    <3>5. Weighed(start, u) + Weighed(some, u) >= 1
      <4>1. k \in Identities(start) \cup Identities(some)
        BY <1>1, <2>2 DEF Identities
      <4>2. Weighed(start, u) \in Nat /\ Weighed(some, u) \in Nat
        BY OnesFacts
      <4>3. Weighed(start, u) >= 1 \/ Weighed(some, u) >= 1
        BY <4>1, OnesFacts
      <4> QED BY <4>2, <4>3
    <3> HIDE DEF u, c, l, k
    <3>6. /\ Weighed(Append(some, e), u) = Weighed(some, u) + u[e]
          /\ Weighed(Append(some, e), c) = Weighed(some, c) + c[e]
          /\ Weighed(Append(some, e), l) = Weighed(some, l) + l[e]
      BY <3>1, WeighedAppend
    <3>7. Weighed(a, c) = Weighed(start, c) + Weighed(some, c) /\ Weighed(a, l) = Weighed(start, l) + Weighed(some, l)
      BY <1>1, <3>1
    <3>8. /\ Weighed(start, u) \in Nat /\ Weighed(some, u) \in Nat /\ Weighed(start, c) \in Nat /\ Weighed(some, c) \in Nat
          /\ Weighed(start, l) \in Nat /\ Weighed(some, l) \in Nat
      BY <3>1, WeighedType
    <3>9. Weighed(start, u) + Weighed(Append(some, e), u) >= 2
      BY <3>2, <3>5, <3>6, <3>8
    <3>10. /\ Weighed(start, c) + Weighed(Append(some, e), c) <= COPIES
           /\ Weighed(start, l) + Weighed(Append(some, e), l) <= LOTS
      BY <3>3, <3>9 DEF Fitting, u, c, l
    <3>11. e.quantity \in Nat /\ Len(e.acquisitions) \in Nat
      BY OwnedParts
    <3>12. a[i].quantity + e.quantity <= COPIES /\ Len(a[i].acquisitions) + Len(e.acquisitions) <= LOTS
      BY <3>2, <3>4, <3>6, <3>7, <3>8, <3>10, <3>11
    <3> QED BY <2>1, <2>2, <3>12 DEF Joins
  <2>3. Stack(e) \notin Identities(a)
    BY <2>2 DEF Identities
  <2> QED BY <1>1, <1>2, <2>3, DistinctAppend
<1>3. ASSUME NEW i \in DOMAIN a, NEW at \in Nat, Joins(a[i], e), b = [a EXCEPT ![i] = Merge(a[i], e, at)]
      PROVE  Distinct(b)
  <2>1. a[i] \in Owned /\ Stack(a[i]) = Stack(e)
    BY <1>1, <1>3, SeqParts DEF Joins
  <2>2. Merge(a[i], e, at) \in Owned /\ Stack(Merge(a[i], e, at)) = Stack(a[i])
    BY <2>1, MergeFacts
  <2>3. IsPut(a, i, Merge(a[i], e, at), b)
    BY <1>1, <1>3, <2>2 DEF IsPut
  <2> QED BY <2>3, PutFacts
<1> QED BY <1>2, <1>3 DEF Takes, Grows

\* Taken where they all fit, the identities stay apart.
LEMMA TakingDistinct ==
    ASSUME NEW v, NEW start, NEW list, IsTaking(v, start, list), Distinct(start), Fitting(start, list)
    PROVE  Distinct(v[Len(list)])
<1>0. /\ start \in Seq(Owned) /\ list \in Seq(Owned) /\ v[0] = start
      /\ \A n \in 0 .. Len(list) - 1 : Takes(v[n], v[n + 1], list[n + 1])
  BY DEF IsTaking
<1>1. Len(list) \in Nat /\ \A i \in 1 .. Len(list) : list[i] \in Owned
  BY <1>0
<1> DEFINE T == {n \in Nat : n <= Len(list) => Distinct(v[n])}
<1>2. 0 \in T
  BY <1>0
<1>3. ASSUME NEW n \in Nat, n \in T PROVE n + 1 \in T
  <2> SUFFICES ASSUME n + 1 <= Len(list) PROVE Distinct(v[n + 1])
    OBVIOUS
  <2>1. n \in 0 .. Len(list) - 1 /\ n \in 0 .. Len(list) /\ n + 1 \in 0 .. Len(list) /\ list[n + 1] \in Owned /\ Distinct(v[n])
    BY <1>1, <1>3
  <2> DEFINE some == SubSeq(list, 1, n)
             e == list[n + 1]
  <2>2. SubSeq(list, 1, n + 1) = Append(some, e) /\ some \in Seq(Owned)
    BY <1>0, <2>1, FirstOnes
  <2>3. Takes(v[n], v[n + 1], e)
    BY <1>0, <2>1
  <2>4. IsTaken(v[n], start, some)
    BY <2>1, TakingTaken
  <2>5. Fitting(start, SubSeq(list, 1, n + 1))
    BY <1>0, <2>1, FittingFirst
  <2>6. e \in Owned /\ Distinct(v[n]) /\ Fitting(start, Append(some, e))
    BY <2>1, <2>2, <2>5
  <2> HIDE DEF some, e
  <2> QED BY <1>0, <2>2, <2>3, <2>4, <2>6, TakesDistinct
<1>4. \A n \in Nat : n \in T
  <2> HIDE DEF T
  <2> QED BY <1>2, <1>3, NatSetInduction
<1> QED BY <1>1, <1>4

\* As many stacks as identities is one for each.
LEMMA DistinctCount ==
    ASSUME NEW list \in Seq(Owned)
    PROVE  /\ IsFiniteSet(Identities(list)) /\ Cardinality(Identities(list)) \in Nat
           /\ Distinct(list) <=> Cardinality(Identities(list)) = Len(list)
<1> DEFINE n == Len(list)
           S == 1 .. n
           f == [i \in S |-> Stack(list[i])]
           T == Identities(list)
<1>1. n \in Nat /\ DOMAIN list = S
  BY SeqParts
<1>2. IsFiniteSet(S) /\ Cardinality(S) = n
  BY <1>1, FS_Interval
<1>3. f \in Surjection(S, T)
  <2>1. f \in [S -> T]
    BY <1>1 DEF Identities
  <2>2. \A t \in T : \E s \in S : f[s] = t
    BY <1>1 DEF Identities
  <2> QED BY <2>1, <2>2 DEF Surjection
<1>4. IsFiniteSet(T) /\ (Cardinality(T) = n <=> f \in Injection(S, T))
  <2> HIDE DEF S, f, T
  <2> QED BY <1>2, <1>3, FS_Surjection
<1>5. Cardinality(T) \in Nat
  BY <1>4, FS_CardinalityType
<1>6. f \in Injection(S, T) <=> Distinct(list)
  <2>1. f \in [S -> T] /\ DOMAIN f = S /\ \A i \in S : f[i] = Stack(list[i])
    BY <1>3 DEF Surjection
  <2> HIDE DEF S, f, T
  <2> QED BY <1>1, <2>1 DEF Distinct, Injection, IsInjective
<1> QED BY <1>4, <1>5, <1>6

\* Collapse takes its rows in one after the other.
LEMMA CollapseTaking ==
    ASSUME NEW rows \in Seq(Owned)
    PROVE  \E v : IsTaking(v, <<>>, rows) /\ v[Len(rows)] = Collapse(rows)
<1>0. DOMAIN rows = 1 .. Len(rows) /\ Len(rows) \in Nat /\ \A i \in 1 .. Len(rows) : rows[i] \in Owned
  BY SeqParts
<1>1. ASSUME NEW a \in Seq(Owned), NEW e \in Owned PROVE Takes(a, Collapsed(a, e), e)
  <2> DEFINE fits == {i \in DOMAIN a : Joins(a[i], e)}
             b == Collapsed(a, e)
  <2>1. CASE fits = {}
    <3>1. b = Append(a, e) /\ \A i \in DOMAIN a : ~Joins(a[i], e)
      BY <2>1 DEF Collapsed
    <3> QED BY <3>1 DEF Takes, Grows
  <2>2. CASE fits # {}
    <3> DEFINE m == Min(fits)
    <3>1. m \in fits
      <4>1. fits \in SUBSET Nat
        BY SeqParts
      <4> HIDE DEF fits
      <4> QED BY <2>2, <4>1, Least
    <3>2. b = [a EXCEPT ![m] = Merge(a[m], e, Unwritten)] /\ m \in DOMAIN a /\ Joins(a[m], e) /\ Unwritten \in Nat
      BY <2>2, <3>1 DEF Collapsed, Unwritten
    <3>3. Grows(a, b, e)
      <4> HIDE DEF b, m
      <4> QED BY <3>2 DEF Grows
    <3>4. b # Append(a, e)
      <4>1. DOMAIN b = DOMAIN a /\ DOMAIN a = 1 .. Len(a) /\ Len(a) \in Nat
        BY <3>2, SeqParts
      <4>2. DOMAIN Append(a, e) = 1 .. Len(a) + 1
        BY AppendRange
      <4>3. Len(a) + 1 \in 1 .. Len(a) + 1 /\ Len(a) + 1 \notin 1 .. Len(a)
        BY <4>1
      <4> HIDE DEF b
      <4> QED BY <4>1, <4>2, <4>3
    <3> QED BY <3>3, <3>4 DEF Takes
  <2> QED BY <2>1, <2>2
<1>2. CollapseKeeps(rows, Seq(Owned))
  <2>1. ASSUME NEW a \in Seq(Owned), NEW i \in DOMAIN rows PROVE Collapsed(a, rows[i]) \in Seq(Owned)
    <3>1. rows[i] \in Owned
      BY <1>0
    <3>2. Takes(a, Collapsed(a, rows[i]), rows[i])
      BY <1>1, <3>1
    <3> QED BY <3>1, <3>2, GrowsFacts DEF Takes
  <2> QED BY <1>0, <2>1, EmptySeq DEF CollapseKeeps
<1>3. PICK v : CollapseAlong(v, rows, Seq(Owned))
  BY <1>2, CollapseSteps
<1>4. v \in [0 .. Len(rows) -> Seq(Owned)] /\ v[0] = <<>> /\ Collapse(rows) = v[Len(rows)]
      /\ \A n \in 0 .. Len(rows) - 1 : v[n + 1] = Collapsed(v[n], rows[n + 1])
  BY <1>3 DEF CollapseAlong
<1>5. \A n \in 0 .. Len(rows) - 1 : Takes(v[n], v[n + 1], rows[n + 1])
  <2> TAKE n \in 0 .. Len(rows) - 1
  <2>1. n \in 0 .. Len(rows) /\ rows[n + 1] \in Owned
    BY <1>0
  <2>2. v[n] \in Seq(Owned) /\ v[n + 1] = Collapsed(v[n], rows[n + 1])
    BY <1>4, <2>1
  <2> QED BY <1>1, <2>1, <2>2
<1>6. <<>> \in Seq(Owned)
  BY EmptySeq
<1> QED BY <1>4, <1>5, <1>6 DEF IsTaking

\* A step of a plan.
Planful == [value : Owned, held : BOOLEAN, step : BOOLEAN]

\* The values of a list of records.
LEMMA ValuesFacts ==
    ASSUME NEW all, all \in Seq([value : Owned, held : BOOLEAN, step : BOOLEAN])
    PROVE  /\ Values(all) \in Seq(Owned) /\ Len(Values(all)) = Len(all) /\ DOMAIN Values(all) = DOMAIN all
           /\ \A i \in DOMAIN all : Values(all)[i] = all[i].value
<1>0. all \in Seq(Planful)
  BY DEF Planful
<1>1. all \in [1 .. Len(all) -> Planful] /\ Len(all) \in Nat /\ DOMAIN all = 1 .. Len(all)
  BY <1>0
<1>2. Values(all) = [i \in 1 .. Len(all) |-> all[i].value] /\ \A i \in 1 .. Len(all) : all[i].value \in Owned
  BY <1>1 DEF Values, Planful
<1> QED BY <1>1, <1>2

\* What the collection held comes first, as it was, and then what is new.
IsPlanned(all, before) ==
    /\ all \in Seq(Planful) /\ before \in Nat /\ before <= Len(all)
    /\ \A i \in DOMAIN all : (all[i].held <=> i <= before) /\ (~all[i].held => all[i].step)

\* A step of the plan takes a stack in.
LEMMA PlannedTakes ==
    ASSUME NEW all, NEW before, IsPlanned(all, before), NEW e \in Owned, NEW at \in Nat
    PROVE  Takes(Values(all), Values(Planned(all, e, at)), e) /\ IsPlanned(Planned(all, e, at), before)
<1> DEFINE fits == {i \in DOMAIN all : Joins(all[i].value, e)}
           a == Values(all)
           next == Planned(all, e, at)
           b == Values(next)
           n == Len(all)
<1>0. /\ all \in Seq(Planful) /\ before \in Nat /\ before <= n
      /\ \A i \in DOMAIN all : (all[i].held <=> i <= before) /\ (~all[i].held => all[i].step)
  BY DEF IsPlanned
<1>1. all \in [1 .. n -> Planful] /\ n \in Nat /\ DOMAIN all = 1 .. n
  BY <1>0
<1>2. a \in Seq(Owned) /\ Len(a) = n /\ DOMAIN a = 1 .. n /\ \A i \in 1 .. n : a[i] = all[i].value
  BY <1>0, <1>1, ValuesFacts DEF Planful
<1>3. CASE fits = {}
  <2> DEFINE new == [value |-> e, held |-> FALSE, step |-> TRUE]
  <2>1. next = Append(all, new) /\ \A i \in DOMAIN a : ~Joins(a[i], e)
    BY <1>1, <1>2, <1>3 DEF Planned
  <2>2. new \in Planful /\ new.value = e /\ ~new.held /\ new.step
    BY DEF Planful
  <2> HIDE DEF new
  <2>3. next \in Seq(Planful) /\ DOMAIN next = 1 .. n + 1 /\ Len(next) = n + 1 /\ next[n + 1] = new
        /\ \A i \in 1 .. n : next[i] = all[i]
    BY <1>0, <1>1, <2>1, <2>2, AppendRange, AppendProperties
  <2> HIDE DEF next
  <2>4. b \in Seq(Owned) /\ Len(b) = n + 1 /\ DOMAIN b = 1 .. n + 1 /\ \A i \in 1 .. n + 1 : b[i] = next[i].value
    BY <2>3, ValuesFacts DEF Planful
  <2> HIDE DEF a, b
  <2>5. b = Append(a, e)
    <3>1. Append(a, e) \in Seq(Owned) /\ Len(Append(a, e)) = n + 1 /\ Append(a, e)[n + 1] = e
          /\ \A i \in 1 .. n : Append(a, e)[i] = a[i]
      BY <1>2, AppendProperties
    <3>2. \A i \in 1 .. n + 1 : b[i] = Append(a, e)[i]
      <4> TAKE i \in 1 .. n + 1
      <4>1. CASE i \in 1 .. n
        BY <1>2, <2>3, <2>4, <3>1, <4>1
      <4>2. CASE i = n + 1
        BY <2>2, <2>3, <2>4, <3>1, <4>2
      <4>3. i \in 1 .. n \/ i = n + 1
        BY <1>1
      <4> HIDE DEF n
      <4> QED BY <4>1, <4>2, <4>3
    <3> QED BY <2>4, <3>1, <3>2, SeqEqual
  <2>6. Takes(a, b, e)
    BY <2>1, <2>5 DEF Takes, Grows
  <2>7. IsPlanned(next, before)
    <3>1. \A i \in 1 .. n + 1 : i \in 1 .. n \/ i = n + 1
      BY <1>1
    <3>2. before <= n + 1 /\ ~(n + 1 <= before)
      BY <1>0, <1>1
    <3> QED BY <1>0, <1>1, <2>2, <2>3, <3>1, <3>2 DEF IsPlanned
  <2> QED BY <2>6, <2>7 DEF a, b, next
<1>4. CASE fits # {}
  <2> DEFINE m == Min(fits)
             t == IF all[m].held THEN at ELSE Unwritten
             one == Merge(a[m], e, t)
  <2>1. m \in fits
    <3>1. fits \in SUBSET Nat
      BY <1>1
    <3> HIDE DEF fits
    <3> QED BY <1>4, <3>1, Least
  <2>2. m \in 1 .. n /\ Joins(a[m], e) /\ t \in Nat
    BY <1>1, <1>2, <2>1 DEF Unwritten
  <2>3. next = [i \in 1 .. n |-> IF i = m THEN [value |-> one, held |-> all[m].held, step |-> TRUE] ELSE all[i]]
    BY <1>1, <1>2, <1>4, <2>2 DEF Planned
  <2>4. one \in Owned
    <3>1. a[m] \in Owned
      BY <1>2, <2>2, SeqParts
    <3> QED BY <2>2, <3>1, MergeFacts
  <2> HIDE DEF m, t, one, next
  <2>5. \A i \in 1 .. n : next[i] \in Planful /\ next[i].held = all[i].held
                          /\ (all[i].step => next[i].step) /\ next[i].value = IF i = m THEN one ELSE a[i]
    BY <1>1, <1>2, <2>3, <2>4 DEF Planful
  <2>6. next \in Seq(Planful) /\ Len(next) = n /\ DOMAIN next = 1 .. n
    <3>1. next \in [1 .. n -> Planful]
      BY <2>3, <2>5
    <3> HIDE DEF n
    <3> QED BY <1>1, <3>1
  <2>7. b \in Seq(Owned) /\ DOMAIN b = 1 .. n /\ \A i \in 1 .. n : b[i] = next[i].value
    BY <2>6, ValuesFacts DEF Planful
  <2> HIDE DEF a, b
  <2>8. b = [a EXCEPT ![m] = one]
    <3>1. b = [i \in 1 .. n |-> b[i]] /\ a = [i \in 1 .. n |-> a[i]]
      BY <1>2, <2>7
    <3>2. \A i \in 1 .. n : b[i] = [a EXCEPT ![m] = one][i]
      BY <1>2, <2>5, <2>7
    <3> QED BY <1>2, <2>7, <3>1, <3>2
  <2>9. Grows(a, b, e)
    BY <1>2, <2>2, <2>8 DEF Grows, one
  <2>10. b # Append(a, e)
    <3>1. DOMAIN Append(a, e) = 1 .. n + 1
      BY <1>2, AppendRange
    <3>2. n + 1 \in 1 .. n + 1 /\ n + 1 \notin 1 .. n
      BY <1>1
    <3> QED BY <2>7, <3>1, <3>2
  <2>11. IsPlanned(next, before)
    BY <1>0, <1>1, <2>5, <2>6 DEF IsPlanned
  <2> QED BY <2>9, <2>10, <2>11 DEF Takes, a, b, next
<1> QED BY <1>3, <1>4

\* The plan takes the imported stacks in one after the other.
LEMMA PlanningTaking ==
    ASSUME NEW imported \in Seq(Owned), NEW all, NEW before, IsPlanned(all, before), NEW at \in Nat
    PROVE  /\ \E v : IsTaking(v, Values(all), imported) /\ v[Len(imported)] = Values(Planning(imported, all, at))
           /\ IsPlanned(Planning(imported, all, at), before)
<1> DEFINE K == {b \in Seq(Planful) : IsPlanned(b, before)}
           m == Len(imported)
<1>0. DOMAIN imported = 1 .. m /\ m \in Nat /\ \A i \in 1 .. m : imported[i] \in Owned
  BY SeqParts
<1>1. PlanningKeeps(imported, all, at, K)
  <2>1. all \in K
    BY DEF IsPlanned
  <2>2. ASSUME NEW a \in K, NEW i \in DOMAIN imported PROVE Planned(a, imported[i], at) \in K
    <3>1. IsPlanned(a, before) /\ imported[i] \in Owned
      BY <1>0
    <3>2. IsPlanned(Planned(a, imported[i], at), before)
      BY <3>1, PlannedTakes
    <3> QED BY <3>2 DEF IsPlanned
  <2> HIDE DEF K
  <2> QED BY <1>0, <2>1, <2>2 DEF PlanningKeeps
<1>2. PICK g : PlanningAlong(g, imported, all, at, K)
  <2> HIDE DEF K
  <2> QED BY <1>1, PlanningSteps
<1>3. g \in [0 .. m -> K] /\ g[0] = all /\ Planning(imported, all, at) = g[m]
      /\ \A n \in 0 .. m - 1 : g[n + 1] = Planned(g[n], imported[n + 1], at)
  BY <1>2 DEF PlanningAlong
<1> DEFINE v == [n \in 0 .. m |-> Values(g[n])]
<1>4. ASSUME NEW n \in 0 .. m PROVE IsPlanned(g[n], before) /\ v[n] = Values(g[n])
  BY <1>3
<1>5. \A n \in 0 .. m - 1 : Takes(v[n], v[n + 1], imported[n + 1])
  <2> TAKE n \in 0 .. m - 1
  <2>1. n \in 0 .. m /\ n + 1 \in 0 .. m /\ imported[n + 1] \in Owned
    BY <1>0
  <2>2. v[n] = Values(g[n]) /\ v[n + 1] = Values(g[n + 1]) /\ IsPlanned(g[n], before)
    BY <1>4, <2>1
  <2>3. g[n + 1] = Planned(g[n], imported[n + 1], at)
    BY <1>3
  <2> HIDE DEF v
  <2> QED BY <2>1, <2>2, <2>3, PlannedTakes
<1>6. 0 \in 0 .. m /\ m \in 0 .. m
  BY <1>0
<1>7. v[0] = Values(all) /\ v[m] = Values(Planning(imported, all, at))
  BY <1>3, <1>4, <1>6
<1>8. Values(all) \in Seq(Owned)
  <2>1. all \in Seq([value : Owned, held : BOOLEAN, step : BOOLEAN])
    BY DEF IsPlanned, Planful
  <2> QED BY <2>1, ValuesFacts
<1>9. IsPlanned(Planning(imported, all, at), before)
  BY <1>3, <1>4, <1>6
<1> HIDE DEF v
<1> QED BY <1>5, <1>7, <1>8, <1>9 DEF IsTaking

\* Copies are a weight.
LEMMA CopiesWeighed ==
    ASSUME NEW list \in Seq(Owned)
    PROVE  CopiesOf(list) = Weighed(list, Copies) /\ CopiesOf(list) \in Nat
<1>1. Copies \in [Owned -> Nat]
  BY Additives DEF IsAdditive
<1>2. \A i \in DOMAIN list : list[i] \in Owned /\ Copies[list[i]] = list[i].quantity
  BY SeqParts DEF Copies
<1>3. [i \in DOMAIN list |-> list[i].quantity] = [i \in DOMAIN list |-> Copies[list[i]]]
  BY <1>2
<1>4. CopiesOf(list) = Weighed(list, Copies)
  BY <1>3 DEF CopiesOf, Weighed
<1> QED BY <1>1, <1>4, WeighedType

\* What a list of things that hold a stack each shows of them.
IsHolding(kept, n) == n \in Nat /\ DOMAIN kept = 1 .. n /\ Len(kept) = n /\ \A i \in 1 .. n : kept[i].value \in Owned

\* The values a page shows are stacks.
LEMMA HoldingValues ==
    ASSUME NEW kept, NEW n, IsHolding(kept, n)
    PROVE  Values(kept) \in Seq(Owned) /\ Len(Values(kept)) = n /\ DOMAIN Values(kept) = 1 .. n
           /\ \A i \in 1 .. n : Values(kept)[i] = kept[i].value
<1>1. n \in Nat /\ DOMAIN kept = 1 .. n /\ \A i \in 1 .. n : kept[i].value \in Owned
  BY DEF IsHolding
<1>2. Values(kept) = [i \in 1 .. n |-> kept[i].value]
  BY <1>1 DEF Values
<1> QED BY <1>1, <1>2

\* The copies a plan weighs, and its stacks.
LEMMA PlanFacts ==
    ASSUME NEW imported \in Seq(Owned), NEW kept, NEW n, IsHolding(kept, n), NEW at \in Nat
    PROVE  LET weight == Weigh(Plan(imported, kept, at), kept)
               size == Len(Plan(imported, kept, at)) IN
           /\ weight.after = CopiesOf(Values(kept)) + CopiesOf(imported)
           /\ size \in Nat /\ weight.records - weight.joined = size - n
           /\ weight.records \in Nat /\ weight.joined \in Nat
           /\ Distinct(Values(kept)) /\ Fitting(Values(kept), imported) =>
                 size = Cardinality(Identities(Values(kept)) \cup Identities(imported))
<1>0. n \in Nat /\ DOMAIN kept = 1 .. n /\ \A i \in 1 .. n : kept[i].value \in Owned
  BY DEF IsHolding
<1> DEFINE start == [i \in 1 .. n |-> [value |-> kept[i].value, held |-> TRUE, step |-> FALSE]]
           plan == Planning(imported, start, at)
<1>1. Plan(imported, kept, at) = plan
  BY <1>0 DEF Plan
<1>2. start \in Seq(Planful) /\ Len(start) = n /\ DOMAIN start = 1 .. n
      /\ \A i \in 1 .. n : start[i].value = kept[i].value /\ start[i].held
  <2>1. \A i \in 1 .. n : [value |-> kept[i].value, held |-> TRUE, step |-> FALSE] \in Planful
    BY <1>0 DEF Planful
  <2>2. start \in [1 .. n -> Planful]
    BY <2>1
  <2>3. \A i \in 1 .. n : start[i].value = kept[i].value /\ start[i].held
    OBVIOUS
  <2> HIDE DEF start
  <2> QED BY <1>0, <2>2, <2>3
<1> HIDE DEF start
<1>3. IsPlanned(start, n)
  BY <1>0, <1>2 DEF IsPlanned
<1>4. Values(start) = Values(kept)
  BY <1>0, <1>2 DEF Values
<1>5. PICK v : IsTaking(v, Values(kept), imported) /\ v[Len(imported)] = Values(plan)
  BY <1>3, <1>4, PlanningTaking
<1>6. IsPlanned(plan, n)
  BY <1>3, PlanningTaking
<1> HIDE DEF plan
<1> DEFINE size == Len(plan)
           a == Values(kept)
           b == Values(plan)
<1>7. /\ plan \in Seq(Planful) /\ n <= size /\ DOMAIN plan = 1 .. size /\ size \in Nat
      /\ \A i \in 1 .. size : (plan[i].held <=> i <= n) /\ (~plan[i].held => plan[i].step)
  <2>1. plan \in Seq(Planful)
    BY <1>6 DEF IsPlanned
  <2> QED BY <1>6, <2>1, SeqParts DEF IsPlanned
<1>8. a \in Seq(Owned) /\ b \in Seq(Owned) /\ Len(b) = size
  <2>1. plan \in Seq([value : Owned, held : BOOLEAN, step : BOOLEAN])
    BY <1>7 DEF Planful
  <2> QED BY <2>1, HoldingValues, ValuesFacts
<1>9. IsTaken(b, a, imported)
  <2>1. Len(imported) \in 0 .. Len(imported) /\ SubSeq(imported, 1, Len(imported)) = imported
    BY SeqParts, FirstOnes
  <2> QED BY <1>5, <2>1, TakingTaken
<1>10. CopiesOf(b) = CopiesOf(a) + CopiesOf(imported)
  <2> HIDE DEF a, b
  <2> QED BY <1>8, <1>9, Additives, CopiesWeighed DEF IsTaken
<1>11. ASSUME Distinct(a), Fitting(a, imported) PROVE size = Cardinality(Identities(a) \cup Identities(imported))
  <2>1. Distinct(b)
    BY <1>5, <1>11, TakingDistinct
  <2>2. Identities(b) = Identities(a) \cup Identities(imported)
    BY <1>9 DEF IsTaken
  <2>3. Cardinality(Identities(b)) = Len(b)
    BY <1>8, <2>1, DistinctCount
  <2> QED BY <1>8, <2>2, <2>3
<1> DEFINE steps == {i \in DOMAIN plan : plan[i].step}
           joined == {i \in DOMAIN plan : plan[i].step /\ plan[i].held}
           news == n + 1 .. size
<1>12. Cardinality(steps) - Cardinality(joined) = size - n /\ Cardinality(steps) \in Nat /\ Cardinality(joined) \in Nat
  <2>1. IsFiniteSet(1 .. size) /\ steps \subseteq 1 .. size /\ joined \subseteq steps
    <3>1. IsFiniteSet(1 .. size)
      BY <1>7, FS_Interval
    <3>2. steps \subseteq 1 .. size /\ joined \subseteq steps
      <4> HIDE DEF size
      <4> QED BY <1>7
    <3> QED BY <3>1, <3>2
  <2>2. IsFiniteSet(steps) /\ IsFiniteSet(joined)
    BY <2>1, FS_Subset
  <2>3. steps \ joined = news
    BY <1>0, <1>7
  <2>4. Cardinality(news) = size - n
    <3>1. n + 1 \in Int /\ size \in Int
      BY <1>0, <1>7
    <3>2. Cardinality(news) = IF n + 1 > size THEN 0 ELSE size - (n + 1) + 1
      BY <3>1, FS_Interval
    <3> QED BY <1>0, <1>7, <3>2
  <2>5. Cardinality(steps \ joined) = Cardinality(steps) - Cardinality(joined)
    <3>1. steps \cap joined = joined
      BY <2>1
    <3> HIDE DEF steps, joined, news
    <3>2. Cardinality(steps \ joined) = Cardinality(steps) - Cardinality(steps \cap joined)
      BY <2>2, FS_Difference
    <3> QED BY <3>1, <3>2
  <2> HIDE DEF steps, joined, news
  <2>6. Cardinality(steps) \in Nat /\ Cardinality(joined) \in Nat
    BY <2>2, FS_CardinalityType
  <2> QED BY <2>3, <2>4, <2>5, <2>6
<1>13. /\ Weigh(plan, kept).after = CopiesOf(b) /\ Weigh(plan, kept).records = Cardinality(steps)
       /\ Weigh(plan, kept).joined = Cardinality(joined)
  BY DEF Weigh
<1> HIDE DEF steps, joined, a, b, size
<1>14. /\ Weigh(plan, kept).after = CopiesOf(a) + CopiesOf(imported)
       /\ size \in Nat /\ Weigh(plan, kept).records - Weigh(plan, kept).joined = size - n
       /\ Weigh(plan, kept).records \in Nat /\ Weigh(plan, kept).joined \in Nat
  BY <1>7, <1>10, <1>12, <1>13
<1> QED BY <1>1, <1>11, <1>14 DEF a, size

\* With nothing to land the collection is as it was.
LEMMA LandingNone ==
    ASSUME NEW records
    PROVE  Landing(records, <<>>) = Shelved(records)
<1>1. LandingKeeps(records, <<>>, {Shelved(records)})
  <2>1. DOMAIN <<>> = 1 .. Len(<<>>) /\ Len(<<>>) = 0 /\ DOMAIN <<>> = {}
    OBVIOUS
  <2> QED BY <2>1 DEF LandingKeeps
<1>2. PICK g : LandingAlong(g, records, <<>>, {Shelved(records)})
  BY <1>1, LandingSteps
<1>3. Len(<<>>) = 0
  OBVIOUS
<1> QED BY <1>2, <1>3 DEF LandingAlong

Ceiled(list) == \A i \in DOMAIN list : list[i].quantity <= COPIES /\ Len(list[i].acquisitions) <= LOTS

\* Taking one in passes no ceiling.
LEMMA TakesCeiled ==
    ASSUME NEW a \in Seq(Owned), NEW e \in Owned, NEW b, Takes(a, b, e), Ceiled(a),
           e.quantity <= COPIES, Len(e.acquisitions) <= LOTS
    PROVE  Ceiled(b)
<1>1. CASE b = Append(a, e)
  <2> DEFINE n == Len(a)
  <2>1. DOMAIN b = 1 .. n + 1 /\ b[n + 1] = e /\ DOMAIN a = 1 .. n /\ n \in Nat /\ \A i \in 1 .. n : b[i] = a[i]
    BY <1>1, AppendRange, SeqParts
  <2> HIDE DEF n
  <2>2. \A i \in 1 .. n + 1 : i \in 1 .. n \/ i = n + 1
    BY <2>1
  <2> QED BY <2>1, <2>2 DEF Ceiled
<1>2. ASSUME NEW i \in DOMAIN a, NEW at \in Nat, Joins(a[i], e), b = [a EXCEPT ![i] = Merge(a[i], e, at)]
      PROVE  Ceiled(b)
  <2> DEFINE m == Merge(a[i], e, at)
  <2>1. a[i] \in Owned /\ a[i].quantity + e.quantity <= COPIES /\ Len(a[i].acquisitions) + Len(e.acquisitions) <= LOTS
    BY <1>2, SeqParts DEF Joins
  <2>2. m \in Owned /\ m.quantity <= COPIES /\ Len(m.acquisitions) <= LOTS /\ Stack(m) = Stack(a[i])
    BY <2>1, MergeFacts
  <2> HIDE DEF m
  <2>3. IsPut(a, i, m, b)
    BY <1>2, <2>2 DEF IsPut, m
  <2>4. DOMAIN b = DOMAIN a /\ b[i] = m /\ \A j \in DOMAIN a \ {i} : b[j] = a[j]
    BY <2>3, PutFacts
  <2> QED BY <2>2, <2>4 DEF Ceiled
<1> QED BY <1>1, <1>2 DEF Takes, Grows

\* Nor does taking in a whole list.
LEMMA TakingCeiled ==
    ASSUME NEW v, NEW start, NEW list, IsTaking(v, start, list), Ceiled(start), Ceiled(list)
    PROVE  Ceiled(v[Len(list)])
<1>0. /\ start \in Seq(Owned) /\ list \in Seq(Owned) /\ v[0] = start
      /\ \A n \in 0 .. Len(list) - 1 : Takes(v[n], v[n + 1], list[n + 1])
  BY DEF IsTaking
<1>1. Len(list) \in Nat /\ DOMAIN list = 1 .. Len(list) /\ \A i \in 1 .. Len(list) : list[i] \in Owned
  BY <1>0
<1> DEFINE T == {n \in Nat : n <= Len(list) => Ceiled(v[n])}
<1>2. 0 \in T
  BY <1>0
<1>3. ASSUME NEW n \in Nat, n \in T PROVE n + 1 \in T
  <2> SUFFICES ASSUME n + 1 <= Len(list) PROVE Ceiled(v[n + 1])
    OBVIOUS
  <2>1. n \in 0 .. Len(list) - 1 /\ n \in 0 .. Len(list) /\ n + 1 \in 1 .. Len(list) /\ Ceiled(v[n])
    BY <1>1, <1>3
  <2> DEFINE e == list[n + 1]
  <2>2. e \in Owned /\ e.quantity <= COPIES /\ Len(e.acquisitions) <= LOTS /\ Takes(v[n], v[n + 1], e)
    BY <1>0, <1>1, <2>1 DEF Ceiled
  <2>3. IsTaken(v[n], start, SubSeq(list, 1, n))
    BY <2>1, TakingTaken
  <2>4. v[n] \in Seq(Owned)
    BY <2>3 DEF IsTaken
  <2> HIDE DEF e
  <2> QED BY <2>1, <2>2, <2>4, TakesCeiled
<1>4. \A n \in Nat : n \in T
  <2> HIDE DEF T
  <2> QED BY <1>2, <1>3, NatSetInduction
<1> QED BY <1>1, <1>4

\* What a file collapses to weighs what its rows do and has their identities.
LEMMA CollapseFacts ==
    ASSUME NEW rows \in Seq(Owned)
    PROVE  /\ Collapse(rows) \in Seq(Owned)
           /\ Identities(Collapse(rows)) = Identities(rows)
           /\ \A w : IsAdditive(w) => Weighed(Collapse(rows), w) = Weighed(rows, w)
           /\ Ceiled(rows) => Ceiled(Collapse(rows))
           /\ Fitting(<<>>, rows) => Distinct(Collapse(rows))
<1>1. PICK v : IsTaking(v, <<>>, rows) /\ v[Len(rows)] = Collapse(rows)
  BY CollapseTaking
<1>2. Len(rows) \in 0 .. Len(rows) /\ SubSeq(rows, 1, Len(rows)) = rows
  BY SeqParts, FirstOnes
<1>3. IsTaken(Collapse(rows), <<>>, rows)
  BY <1>1, <1>2, TakingTaken
<1>4. Identities(<<>>) = {} /\ Ceiled(<<>>) /\ Distinct(<<>>)
  BY DEF Identities, Ceiled, Distinct
<1>5. ASSUME NEW w, IsAdditive(w) PROVE Weighed(Collapse(rows), w) = Weighed(rows, w)
  <2>1. w \in [Owned -> Nat]
    BY <1>5 DEF IsAdditive
  <2>2. Weighed(rows, w) \in Nat
    BY <2>1, WeighedType
  <2>3. Weighed(Collapse(rows), w) = Weighed(<<>>, w) + Weighed(rows, w)
    BY <1>3, <1>5 DEF IsTaken
  <2> QED BY <2>2, <2>3, WeighedNone
<1>6. Ceiled(rows) => Ceiled(Collapse(rows))
  BY <1>1, <1>4, TakingCeiled
<1>7. Fitting(<<>>, rows) => Distinct(Collapse(rows))
  BY <1>1, <1>4, TakingDistinct
<1> QED BY <1>3, <1>4, <1>5, <1>6, <1>7 DEF IsTaken

\* Of stacks all apart: each said once, with all its identity has.
LEMMA DigestFacts ==
    ASSUME NEW list \in Seq(Owned), Distinct(list)
    PROVE  Digest(list) = [line \in {<<Weighed(list, CopiesOn({k})), k>> : k \in Identities(list)} |-> 1]
<1> DEFINE S == DOMAIN list
           lines == [i \in S |-> <<list[i].quantity, Stack(list[i])>>]
           said == {<<Weighed(list, CopiesOn({k})), k>> : k \in Identities(list)}
<1>1. \A i \in S : Weighed(list, CopiesOn({Stack(list[i])})) = list[i].quantity
  BY OnesFacts
<1>2. Range(lines) = said
  <2>1. \A i \in S : lines[i] \in said
    BY <1>1 DEF Identities
  <2>2. ASSUME NEW x \in said PROVE \E i \in S : lines[i] = x
    <3>1. PICK k \in Identities(list) : x = <<Weighed(list, CopiesOn({k})), k>>
      OBVIOUS
    <3>2. PICK i \in S : Stack(list[i]) = k
      BY DEF Identities
    <3> QED BY <1>1, <3>1, <3>2
  <2>3. DOMAIN lines = S
    OBVIOUS
  <2> HIDE DEF lines, said
  <2> QED BY <2>1, <2>2, <2>3 DEF Range
<1>3. ASSUME NEW x \in said PROVE Cardinality({i \in S : lines[i] = x}) = 1
  <2>1. PICK i \in S : lines[i] = x
    <3>1. x \in Range(lines)
      BY <1>2
    <3>2. DOMAIN lines = S
      OBVIOUS
    <3> HIDE DEF lines, said
    <3> QED BY <3>1, <3>2 DEF Range
  <2>2. \A j \in S : lines[j] = x => j = i
    BY <2>1 DEF Distinct
  <2>3. {j \in S : lines[j] = x} = {i}
    <3> HIDE DEF lines
    <3> QED BY <2>1, <2>2
  <2> QED BY <2>3, FS_Singleton
<1>4. Digest(list) = [line \in Range(lines) |-> Cardinality({i \in DOMAIN lines : lines[i] = line})]
  BY DEF Digest
<1>5. DOMAIN lines = S
  OBVIOUS
<1> HIDE DEF lines, said
<1>6. Digest(list) = [line \in said |-> 1]
  BY <1>2, <1>3, <1>4, <1>5
<1> QED BY <1>6 DEF said

\* Rows of the ceilings in another order, where each identity came to one stack.
IsAlike(others, rows) ==
    Identities(others) = Identities(rows) /\ \A w \in [Owned -> Nat] : Weighed(others, w) = Weighed(rows, w)
\* Rows alike up to order collapse to one digest, while each identity is one stack.
LEMMA CollapsedAlike ==
    ASSUME NEW rows \in Seq(Owned), NEW others \in Seq(Owned), IsAlike(others, rows), Ceiled(rows), Cardinality(Identities(rows)) = Len(Collapse(rows))
    PROVE  Digest(Collapse(others)) = Digest(Collapse(rows))
<1> DEFINE a == Collapse(rows)
           b == Collapse(others)
<1>1. /\ a \in Seq(Owned) /\ Identities(a) = Identities(rows) /\ Ceiled(a)
      /\ \A w : IsAdditive(w) => Weighed(a, w) = Weighed(rows, w)
  BY CollapseFacts
<1>2. /\ b \in Seq(Owned) /\ Identities(b) = Identities(others) /\ (Fitting(<<>>, others) => Distinct(b))
      /\ \A w : IsAdditive(w) => Weighed(b, w) = Weighed(others, w)
  BY CollapseFacts
<1>3. Distinct(a)
  BY <1>1, DistinctCount
<1>4. Identities(others) = Identities(rows)
  BY DEF IsAlike
<1>5. \A w \in [Owned -> Nat] : Weighed(others, w) = Weighed(rows, w)
  BY DEF IsAlike
<1>6. \A w : IsAdditive(w) => Weighed(b, w) = Weighed(a, w) /\ Weighed(others, w) = Weighed(a, w)
  <2> TAKE w
  <2> HAVE IsAdditive(w)
  <2>1. w \in [Owned -> Nat]
    BY DEF IsAdditive
  <2> HIDE DEF a, b
  <2> QED BY <1>1, <1>2, <1>5, <2>1
<1> HIDE DEF a, b
<1>7. Fitting(<<>>, others)
  <2> SUFFICES ASSUME NEW k \in Identities(others)
               PROVE  /\ Weighed(<<>>, CopiesOn({k})) + Weighed(others, CopiesOn({k})) <= COPIES
                      /\ Weighed(<<>>, LotsOn({k})) + Weighed(others, LotsOn({k})) <= LOTS
    <3>1. Identities(<<>>) = {}
      BY DEF Identities
    <3> QED BY <3>1 DEF Fitting
  <2>1. PICK i \in DOMAIN a : Stack(a[i]) = k
    BY <1>1, <1>4 DEF Identities
  <2>2. Weighed(a, CopiesOn({k})) = a[i].quantity /\ Weighed(a, LotsOn({k})) = Len(a[i].acquisitions)
    BY <1>1, <1>3, <2>1, OnesFacts
  <2>3. Weighed(others, CopiesOn({k})) = a[i].quantity /\ Weighed(others, LotsOn({k})) = Len(a[i].acquisitions)
    BY <1>6, <2>2, Additives
  <2>4. a[i].quantity \in Nat /\ Len(a[i].acquisitions) \in Nat /\ a[i].quantity <= COPIES /\ Len(a[i].acquisitions) <= LOTS
    <3>1. a[i] \in Owned
      BY <1>1, <2>1, SeqParts
    <3> QED BY <1>1, <2>1, <3>1, OwnedParts DEF Ceiled
  <2>5. Weighed(<<>>, CopiesOn({k})) = 0 /\ Weighed(<<>>, LotsOn({k})) = 0
    BY WeighedNone
  <2> QED BY <2>3, <2>4, <2>5
<1>8. Distinct(b)
  BY <1>2, <1>7
<1>9. \A k : Weighed(b, CopiesOn({k})) = Weighed(a, CopiesOn({k}))
  BY <1>6, Additives
<1>10. Identities(b) = Identities(a)
  BY <1>1, <1>2, <1>4
<1>11. {<<Weighed(b, CopiesOn({k})), k>> : k \in Identities(b)} = {<<Weighed(a, CopiesOn({k})), k>> : k \in Identities(a)}
  <2> DEFINE A(k) == Weighed(a, CopiesOn({k}))
             B(k) == Weighed(b, CopiesOn({k}))
  <2>1. \A k : A(k) = B(k)
    BY <1>9
  <2> HIDE DEF A, B
  <2>2. {<<B(k), k>> : k \in Identities(b)} = {<<A(k), k>> : k \in Identities(a)}
    BY <1>10, <2>1
  <2> QED BY <2>2 DEF A, B
<1>12. /\ Digest(a) = [line \in {<<Weighed(a, CopiesOn({k})), k>> : k \in Identities(a)} |-> 1]
       /\ Digest(b) = [line \in {<<Weighed(b, CopiesOn({k})), k>> : k \in Identities(b)} |-> 1]
  BY <1>1, <1>2, <1>3, <1>8, DigestFacts
<1> QED BY <1>11, <1>12 DEF a, b

-----------------------------------------------------------------------------
(* What a read comes to.                                                   *)

\* What a field says.
Saying(field) ==
    CASE field \in {"quantity", "createdAt", "updatedAt", "acquiredAt"} -> Int
      [] field \in {"altered", "misprint", "signed", "proxy"} -> BOOLEAN
      [] field = "tags" -> Seq(STRING)
      [] OTHER -> STRING

IsFormat(format) == \A field \in DOMAIN format.binding : CellOf(format.binding[field]) = Saying(field)

\* The columns of ManaBox are said by the vocabulary.
LEMMA ManaboxTyped ==
    IsFormat(MANABOX)
<1> DEFINE B == MANABOX.binding
<1>1. DOMAIN B = {"scryfallId", "name", "setCode", "setName", "collectorNumber", "rarity", "language", "finish", "quantity", "condition", "altered", "misprint", "signed", "proxy", "marketValue", "marketCurrency", "createdAt"}
  BY DEF MANABOX
<1>2. B["scryfallId"] = "Scryfall ID" /\ CellOf("Scryfall ID") = Saying("scryfallId")
  BY DEF MANABOX, CellOf, Saying
<1>3. B["name"] = "Name" /\ CellOf("Name") = Saying("name")
  BY DEF MANABOX, CellOf, Saying
<1>4. B["setCode"] = "Set code" /\ CellOf("Set code") = Saying("setCode")
  BY DEF MANABOX, CellOf, Saying
<1>5. B["setName"] = "Set name" /\ CellOf("Set name") = Saying("setName")
  BY DEF MANABOX, CellOf, Saying
<1>6. B["collectorNumber"] = "Collector number" /\ CellOf("Collector number") = Saying("collectorNumber")
  BY DEF MANABOX, CellOf, Saying
<1>7. B["rarity"] = "Rarity" /\ CellOf("Rarity") = Saying("rarity")
  BY DEF MANABOX, CellOf, Saying
<1>8. B["language"] = "Language" /\ CellOf("Language") = Saying("language")
  BY DEF MANABOX, CellOf, Saying
<1>9. B["finish"] = "Foil" /\ CellOf("Foil") = Saying("finish")
  BY DEF MANABOX, CellOf, Saying
<1>10. B["quantity"] = "Quantity" /\ CellOf("Quantity") = Saying("quantity")
  BY DEF MANABOX, CellOf, Saying
<1>11. B["condition"] = "Condition" /\ CellOf("Condition") = Saying("condition")
  BY DEF MANABOX, CellOf, Saying
<1>12. B["altered"] = "Altered" /\ CellOf("Altered") = Saying("altered")
  BY DEF MANABOX, CellOf, Saying
<1>13. B["misprint"] = "Misprint" /\ CellOf("Misprint") = Saying("misprint")
  BY DEF MANABOX, CellOf, Saying
<1>14. B["signed"] = "Signed" /\ CellOf("Signed") = Saying("signed")
  BY DEF MANABOX, CellOf, Saying
<1>15. B["proxy"] = "Proxy" /\ CellOf("Proxy") = Saying("proxy")
  BY DEF MANABOX, CellOf, Saying
<1>16. B["marketValue"] = "Purchase price" /\ CellOf("Purchase price") = Saying("marketValue")
  BY DEF MANABOX, CellOf, Saying
<1>17. B["marketCurrency"] = "Purchase price currency" /\ CellOf("Purchase price currency") = Saying("marketCurrency")
  BY DEF MANABOX, CellOf, Saying
<1>18. B["createdAt"] = "Added" /\ CellOf("Added") = Saying("createdAt")
  BY DEF MANABOX, CellOf, Saying
<1> HIDE DEF B
<1>19. \A field \in DOMAIN B : CellOf(B[field]) = Saying(field)
  BY <1>1, <1>2, <1>3, <1>4, <1>5, <1>6, <1>7, <1>8, <1>9, <1>10, <1>11, <1>12, <1>13, <1>14, <1>15, <1>16, <1>17, <1>18
<1> QED BY <1>19 DEF IsFormat, B

\* And those of the format of our own.
LEMMA ManawebTyped ==
    IsFormat(MANAWEB)
<1> DEFINE B == MANAWEB.binding
<1>1. DOMAIN B = {"scryfallId", "name", "setCode", "setName", "collectorNumber", "rarity", "language", "finish", "quantity", "condition", "container", "proxy", "tags", "note", "price", "currency", "marketValue", "marketCurrency", "acquiredAt", "createdAt", "updatedAt"}
  BY DEF MANAWEB
<1>2. B["scryfallId"] = "Scryfall ID" /\ CellOf("Scryfall ID") = Saying("scryfallId")
  BY DEF MANAWEB, CellOf, Saying
<1>3. B["name"] = "Name" /\ CellOf("Name") = Saying("name")
  BY DEF MANAWEB, CellOf, Saying
<1>4. B["setCode"] = "Set code" /\ CellOf("Set code") = Saying("setCode")
  BY DEF MANAWEB, CellOf, Saying
<1>5. B["setName"] = "Set name" /\ CellOf("Set name") = Saying("setName")
  BY DEF MANAWEB, CellOf, Saying
<1>6. B["collectorNumber"] = "Collector number" /\ CellOf("Collector number") = Saying("collectorNumber")
  BY DEF MANAWEB, CellOf, Saying
<1>7. B["rarity"] = "Rarity" /\ CellOf("Rarity") = Saying("rarity")
  BY DEF MANAWEB, CellOf, Saying
<1>8. B["language"] = "Language" /\ CellOf("Language") = Saying("language")
  BY DEF MANAWEB, CellOf, Saying
<1>9. B["finish"] = "Finish" /\ CellOf("Finish") = Saying("finish")
  BY DEF MANAWEB, CellOf, Saying
<1>10. B["quantity"] = "Quantity" /\ CellOf("Quantity") = Saying("quantity")
  BY DEF MANAWEB, CellOf, Saying
<1>11. B["condition"] = "Condition" /\ CellOf("Condition") = Saying("condition")
  BY DEF MANAWEB, CellOf, Saying
<1>12. B["container"] = "Container" /\ CellOf("Container") = Saying("container")
  BY DEF MANAWEB, CellOf, Saying
<1>13. B["proxy"] = "Proxy" /\ CellOf("Proxy") = Saying("proxy")
  BY DEF MANAWEB, CellOf, Saying
<1>14. B["tags"] = "Tags" /\ CellOf("Tags") = Saying("tags")
  BY DEF MANAWEB, CellOf, Saying
<1>15. B["note"] = "Note" /\ CellOf("Note") = Saying("note")
  BY DEF MANAWEB, CellOf, Saying
<1>16. B["price"] = "Price" /\ CellOf("Price") = Saying("price")
  BY DEF MANAWEB, CellOf, Saying
<1>17. B["currency"] = "Price currency" /\ CellOf("Price currency") = Saying("currency")
  BY DEF MANAWEB, CellOf, Saying
<1>18. B["marketValue"] = "Market value" /\ CellOf("Market value") = Saying("marketValue")
  BY DEF MANAWEB, CellOf, Saying
<1>19. B["marketCurrency"] = "Market value currency" /\ CellOf("Market value currency") = Saying("marketCurrency")
  BY DEF MANAWEB, CellOf, Saying
<1>20. B["acquiredAt"] = "Acquired" /\ CellOf("Acquired") = Saying("acquiredAt")
  BY DEF MANAWEB, CellOf, Saying
<1>21. B["createdAt"] = "Added" /\ CellOf("Added") = Saying("createdAt")
  BY DEF MANAWEB, CellOf, Saying
<1>22. B["updatedAt"] = "Updated" /\ CellOf("Updated") = Saying("updatedAt")
  BY DEF MANAWEB, CellOf, Saying
<1> HIDE DEF B
<1>23. \A field \in {"scryfallId", "name", "setCode", "setName", "collectorNumber", "rarity", "language", "finish", "quantity", "condition"} :
         CellOf(B[field]) = Saying(field)
  BY <1>2, <1>3, <1>4, <1>5, <1>6, <1>7, <1>8, <1>9, <1>10, <1>11
<1>24. \A field \in {"container", "proxy", "tags", "note", "price", "currency", "marketValue", "marketCurrency", "acquiredAt", "createdAt", "updatedAt"} :
         CellOf(B[field]) = Saying(field)
  BY <1>12, <1>13, <1>14, <1>15, <1>16, <1>17, <1>18, <1>19, <1>20, <1>21, <1>22
<1>25. \A field \in DOMAIN B : CellOf(B[field]) = Saying(field)
  BY <1>1, <1>23, <1>24
<1> QED BY <1>25 DEF IsFormat, B

\* Every format there is may be read by.
LEMMA FormatsTyped ==
    \A at \in DOMAIN FORMATS : IsFormat(FORMATS[at])
<1>1. DOMAIN FORMATS = {1, 2} /\ FORMATS[1] = MANABOX /\ FORMATS[2] = MANAWEB
  BY DEF FORMATS
<1> QED BY <1>1, ManaboxTyped, ManawebTyped

\* A grade read is a word.
LEMMA GradeType ==
    ASSUME NEW text
    PROVE  Grade(text) \in STRING
<1>1. CONDITIONS = {"mint", "nearMint", "excellent", "good", "lightPlayed", "played", "poor"}
  BY DEF CONDITIONS, Snake
<1>2. \A c \in CONDITIONS : c \in STRING
  BY <1>1, WordsAssumption
<1> DEFINE said == {c \in CONDITIONS : text \in {c, Snake[c]}}
<1>3. CASE said = {}
  BY <1>3, WordsAssumption DEF Grade
<1>4. CASE said # {}
  <2>1. Grade(text) = CHOOSE c \in said : TRUE
    BY <1>4 DEF Grade
  <2>2. Grade(text) \in said
    <3> HIDE DEF said
    <3> QED BY <1>4, <2>1
  <2> QED BY <1>2, <2>2
<1> QED BY <1>3, <1>4

\* So is a finish.
LEMMA FinishType ==
    ASSUME NEW text
    PROVE  Finish(text) \in STRING
<1>1. DOMAIN WRITTEN = {"nonfoil", "foil", "etched"}
  BY DEF WRITTEN
<1>2. \A x \in DOMAIN FINISHES : FINISHES[x] \in {"nonfoil", "foil", "etched"}
  BY <1>1 DEF FINISHES
<1> QED BY <1>2, WordsAssumption DEF Finish

\* A lot read is an acquisition.
LEMMA LotReadType ==
    ASSUME NEW quantity \in Int, NEW says \in [LOT -> STRING], NEW acquiredAt \in Int
    PROVE  LotRead(quantity, says, acquiredAt) \in Acquisition
<1>1. says["price"] \in STRING /\ says["currency"] \in STRING /\ says["marketValue"] \in STRING /\ says["marketCurrency"] \in STRING
  BY DEF LOT
<1> DEFINE lot == LotRead(quantity, says, acquiredAt)
<1>2. PICK p, c, v, m :
         /\ lot = [quantity |-> quantity, price |-> p, currency |-> c, marketValue |-> v, marketCurrency |-> m, at |-> When(acquiredAt)]
         /\ p \in {says["price"], ""} /\ c \in {says["currency"], ""} /\ v \in {says["marketValue"], ""} /\ m \in {says["marketCurrency"], ""}
  BY DEF LotRead
<1>3. When(acquiredAt) \in Int
  BY DEF When
<1>4. p \in STRING /\ c \in STRING /\ v \in STRING /\ m \in STRING
  BY <1>1, <1>2, WordsAssumption
<1> HIDE DEF lot
<1>5. lot \in Acquisition
  BY <1>2, <1>3, <1>4 DEF Acquisition
<1> QED BY <1>5 DEF lot

IsRow(row) == \A column \in DOMAIN row : row[column] \in CellOf(column)

FIELDS == {"scryfallId", "name", "setCode", "setName", "collectorNumber", "rarity", "language", "finish", "quantity",
           "condition", "altered", "misprint", "signed", "container", "proxy", "tags", "note", "price", "currency",
           "marketValue", "marketCurrency", "acquiredAt", "createdAt", "updatedAt"}

\* Tags read are paths of words.
LEMMA TagsReadType ==
    ASSUME NEW flags \in Seq(STRING), NEW labels \in Seq(STRING)
    PROVE  TagsRead(flags, labels) \in Seq(Seq(STRING))
<1> DEFINE said == flags \o labels
           some == {i \in DOMAIN said : \A j \in 1 .. i - 1 : said[j] # said[i]}
           first == Only([i \in DOMAIN said |-> i], some)
           most == Min({Len(first), TAGS})
<1>1. said \in Seq(STRING)
  OBVIOUS
<1>2. DOMAIN said = 1 .. Len(said) /\ Len(said) \in Nat /\ \A i \in 1 .. Len(said) : said[i] \in STRING
  BY <1>1, SeqParts
<1> HIDE DEF said
<1>3. [i \in DOMAIN said |-> i] \in Seq(DOMAIN said)
  BY <1>2
<1>4. first \in Seq(DOMAIN said)
  <2> HIDE DEF some
  <2> QED BY <1>3, OnlyType
<1> HIDE DEF first, some
<1>5. Len(first) \in Nat /\ \A k \in 1 .. Len(first) : first[k] \in DOMAIN said
  BY <1>4
<1>6. TAGS \in Nat
  BY CeilingsAssumption
<1>7. most \in Nat /\ most <= Len(first)
  BY <1>5, <1>6 DEF Min
<1> HIDE DEF most
<1>8. \A k \in 1 .. most : <<said[first[k]]>> \in Seq(STRING)
  <2> TAKE k \in 1 .. most
  <2>1. k \in 1 .. Len(first)
    BY <1>5, <1>7
  <2>2. said[first[k]] \in STRING
    BY <1>2, <1>5, <2>1
  <2> QED BY <2>2
<1>9. [k \in 1 .. most |-> <<said[first[k]]>>] \in Seq(Seq(STRING))
  BY <1>7, <1>8
<1> QED BY <1>9 DEF TagsRead, said, some, first, most

\* What a row says of a field, or what it says by leaving it out.
Tells(format, row, field, absent) ==
    IF Binds(format, field) /\ format.binding[field] \in DOMAIN row THEN row[format.binding[field]] ELSE absent

\* What a row tells of a field.
LEMMA TellsType ==
    ASSUME NEW format, IsFormat(format), NEW row, IsRow(row), NEW field, NEW absent \in Saying(field)
    PROVE  Tells(format, row, field, absent) \in Saying(field)
BY DEF Tells, IsFormat, IsRow, Binds

IsRead(r) == r.why = "" => r.one \in Owned /\ r.one.quantity <= COPIES /\ Len(r.one.acquisitions) <= LOTS

\* A sequence of three.
LEMMA Triple ==
    ASSUME NEW E, NEW a \in E, NEW b \in E, NEW c \in E
    PROVE  <<a, b, c>> \in Seq(E)
OBVIOUS

\* Flags read are numbers.
LEMMA FlagsType ==
    ASSUME NEW some
    PROVE  Only(<<"altered", "misprint", "signed">>, some) \in Seq(STRING)
<1> DEFINE list == <<"altered", "misprint", "signed">>
<1>1. "altered" \in STRING /\ "misprint" \in STRING /\ "signed" \in STRING
  BY WordsAssumption
<1>2. list \in Seq(STRING)
  BY <1>1, Triple
<1> HIDE DEF list
<1>3. Only(list, some) \in Seq(STRING)
  BY <1>2, OnlyType
<1> QED BY <1>3 DEF list

\* A row read is a stack or a loss.
LEMMA RowReadType ==
    ASSUME NEW format, IsFormat(format), NEW row, IsRow(row), NEW catalog
    PROVE  IsRead(RowRead(row, format, catalog))
<1> DEFINE Says(field, absent) == Tells(format, row, field, absent)
           print == Says("scryfallId", "")
           how == Finish(Says("finish", ""))
           quantity == Says("quantity", 0)
           lot == LotRead(quantity, [each \in LOT |-> Says(each, "")], Says("acquiredAt", 0))
           flags == Only(<<"altered", "misprint", "signed">>, {flag \in FLAGGED : Says(flag, FALSE)})
           made == IF When(Says("createdAt", 0)) = 0 THEN Now ELSE Says("createdAt", 0)
           changed == When(Says("updatedAt", 0))
           grade == Grade(Says("condition", ""))
           tags == TagsRead(flags, Says("tags", <<>>))
           note == Says("note", "")
           proxy == Says("proxy", FALSE)
           lots == IF Blank(lot.price) /\ Blank(lot.marketValue) /\ lot.at = 0 THEN <<>> ELSE <<lot>>
           one == [scryfallId |-> print, finish |-> how, quantity |-> quantity, createdAt |-> made, updatedAt |-> changed,
                   condition |-> grade, tags |-> tags, note |-> note, proxy |-> proxy, container |-> "", acquisitions |-> lots]
           r == RowRead(row, format, catalog)
<1>1. r = CASE print = "" -> [why |-> "no print"]
            [] print # "" /\ how = "unknown" -> [why |-> "unknown finish"]
            [] print # "" /\ how # "unknown" /\ quantity \notin 1 .. COPIES -> [why |-> "not a count"]
            [] print # "" /\ how # "unknown" /\ quantity \in 1 .. COPIES /\ catalog
                  /\ print \in DOMAIN Printing /\ how \notin Printing[print].finishes -> [why |-> "never made"]
            [] OTHER -> [why |-> "", one |-> one]
  BY DEF RowRead, Tells
<1>2. "" \in STRING
  BY WordsAssumption
<1>3. print \in STRING /\ note \in STRING
  BY <1>2, TellsType DEF Saying
<1>4. quantity \in Int /\ Says("acquiredAt", 0) \in Int /\ Says("createdAt", 0) \in Int /\ Says("updatedAt", 0) \in Int
  BY TellsType DEF Saying
<1>5. proxy \in BOOLEAN
  BY TellsType DEF Saying
<1>6. how \in STRING /\ grade \in STRING
  BY FinishType, GradeType
<1>7. made \in Int /\ changed \in Int
  BY <1>4, NowAssumption DEF When
<1>8. tags \in Seq(Seq(STRING))
  <2>1. Says("tags", <<>>) \in Seq(STRING)
    <3>1. <<>> \in Saying("tags") /\ Saying("tags") = Seq(STRING)
      BY DEF Saying
    <3> QED BY <3>1, TellsType
  <2>2. flags \in Seq(STRING)
    BY FlagsType
  <2> HIDE DEF flags, Says
  <2> QED BY <2>1, <2>2, TagsReadType
<1>9. lot \in Acquisition
  <2>1. \A each \in LOT : Says(each, "") \in STRING
    <3> TAKE each \in LOT
    <3>1. Saying(each) = STRING
      BY DEF LOT, Saying
    <3> QED BY <1>2, <3>1, TellsType
  <2>2. [each \in LOT |-> Says(each, "")] \in [LOT -> STRING]
    BY <2>1
  <2> HIDE DEF Says
  <2> QED BY <1>4, <2>2, LotReadType
<1>10. lots \in Seq(Acquisition) /\ Len(lots) <= 1 /\ Len(lots) \in Nat
  <2> HIDE DEF lot
  <2> QED BY <1>9
<1> HIDE DEF Says, print, how, quantity, lot, flags, made, changed, grade, tags, note, proxy, lots, r
<1>11. COPIES \in Nat /\ LOTS \in Nat /\ LOTS >= 1
  BY CeilingsAssumption
<1>12. r.why = "" => quantity \in 1 .. COPIES /\ r.one = one
  <2> HIDE DEF one
  <2>1. CASE print = ""
    BY <1>1, <2>1
  <2>2. CASE print # "" /\ how = "unknown"
    BY <1>1, <2>2
  <2>3. CASE print # "" /\ how # "unknown" /\ quantity \notin 1 .. COPIES
    BY <1>1, <2>3
  <2>4. CASE print # "" /\ how # "unknown" /\ quantity \in 1 .. COPIES
    BY <1>1, <2>4
  <2> QED BY <2>1, <2>2, <2>3, <2>4
<1>13. quantity \in 1 .. COPIES => one \in Owned /\ one.quantity = quantity /\ one.acquisitions = lots
  <2>1. quantity \in 1 .. COPIES => quantity \in Nat
    BY <1>11
  <2> QED BY <1>2, <1>3, <1>5, <1>6, <1>7, <1>8, <1>10, <2>1 DEF Owned
<1> HIDE DEF one
<1>16. quantity \in 1 .. COPIES => quantity <= COPIES
  <2>1. ASSUME NEW c \in Nat, NEW q PROVE q \in 1 .. c => q <= c
    OBVIOUS
  <2> QED BY <1>11, <2>1
<1>17. Len(lots) <= LOTS
  <2>1. ASSUME NEW c \in Nat, NEW q \in Nat, q <= 1, c >= 1 PROVE q <= c
    BY <2>1
  <2> QED BY <1>10, <1>11, <2>1
<1>14. r.why = "" => r.one \in Owned /\ r.one.quantity <= COPIES /\ Len(r.one.acquisitions) <= LOTS
  <2> SUFFICES ASSUME r.why = ""
               PROVE  r.one \in Owned /\ r.one.quantity <= COPIES /\ Len(r.one.acquisitions) <= LOTS
    OBVIOUS
  <2>1. quantity \in 1 .. COPIES /\ r.one = one
    BY <1>12
  <2>2. one \in Owned /\ one.quantity = quantity /\ one.acquisitions = lots
    BY <1>13, <2>1
  <2> QED BY <1>16, <1>17, <2>1, <2>2
<1>15. IsRead(r)
  BY <1>14 DEF IsRead
<1> QED BY <1>15 DEF r

Good(read) == Only(read, {r \in Range(read) : r.why = ""})
Told(read) == [i \in DOMAIN Good(read) |-> Good(read)[i].one]
AllRead(read) == read \in Seq(Range(read)) /\ \A i \in DOMAIN read : IsRead(read[i])

\* What a weight of records makes of the rows they were read from.
Reads(E, w) == [r \in E |-> IF r.why = "" THEN w[r.one] ELSE 0]

\* Those kept of a list are the ones of it that are meant.
LEMMA OnlyRange ==
    ASSUME NEW E, NEW list \in Seq(E), NEW some
    PROVE  Range(Only(list, some)) = Range(list) \cap some
<1> DEFINE z == [e \in E |-> 0]
<1>1. z \in [E -> Nat]
  OBVIOUS
<1> HIDE DEF z
<1> QED BY <1>1, OnlyFacts

IsGood(good, read, E) ==
    /\ read \in Seq(E) /\ good \in Seq(E)
    /\ DOMAIN good = 1 .. Len(good) /\ Len(good) \in Nat
    /\ \A i \in DOMAIN good : good[i] \in E /\ good[i].why = ""
    /\ \A r \in E : r.why = "" => \E i \in DOMAIN good : good[i] = r
    /\ \A r \in E : IsRead(r)
    /\ \A w \in [E -> Nat] : Weighed(good, w) = Weighed(read, [r \in E |-> IF r.why = "" THEN w[r] ELSE 0])
\* A good row is a stack under the ceilings.
LEMMA GoodFacts ==
    ASSUME NEW read, AllRead(read), NEW E, E = Range(read)
    PROVE  IsGood(Good(read), read, E)
<1> DEFINE some == {r \in Range(read) : r.why = ""}
           good == Good(read)
<1>2. read \in Seq(E)
  BY DEF AllRead
<1>3. good = Only(read, some)
  BY DEF Good
<1>4. some \subseteq E /\ \A r \in E : r \in some <=> r.why = ""
  OBVIOUS
<1> HIDE DEF some, good
<1>5. good \in Seq(E)
  BY <1>2, <1>3, OnlyType
<1>6. DOMAIN good = 1 .. Len(good) /\ Len(good) \in Nat
  BY <1>5
<1>8. Range(good) = E \cap some
  <2>1. Range(Only(read, some)) = Range(read) \cap some
    BY <1>2, OnlyRange
  <2> QED BY <1>3, <2>1
<1>9. \A i \in DOMAIN good : good[i] \in E /\ good[i].why = ""
  BY <1>4, <1>8 DEF Range
<1>10. \A r \in E : r.why = "" => \E i \in DOMAIN good : good[i] = r
  BY <1>4, <1>8 DEF Range
<1>11. \A r \in E : IsRead(r)
  BY DEF AllRead, Range
<1>12. ASSUME NEW w \in [E -> Nat]
       PROVE  Weighed(good, w) = Weighed(read, [r \in E |-> IF r.why = "" THEN w[r] ELSE 0])
  <2>1. Weighed(good, w) = Weighed(read, [r \in E |-> IF r \in some THEN w[r] ELSE 0])
    BY <1>2, <1>3, OnlyFacts
  <2>2. [r \in E |-> IF r \in some THEN w[r] ELSE 0] = [r \in E |-> IF r.why = "" THEN w[r] ELSE 0]
    BY <1>4
  <2> QED BY <2>1, <2>2
<1> QED BY <1>2, <1>5, <1>6, <1>9, <1>10, <1>11, <1>12 DEF good, IsGood

\* The rows told of are those that are good.
LEMMA ToldFacts ==
    ASSUME NEW read, AllRead(read), NEW E, E = Range(read)
    PROVE  /\ Told(read) \in Seq(Owned)
           /\ Ceiled(Told(read))
           /\ Identities(Told(read)) = {Stack(r.one) : r \in {x \in E : x.why = ""}}
           /\ \A w \in [Owned -> Nat] : Reads(E, w) \in [E -> Nat] /\ Weighed(Told(read), w) = Weighed(read, Reads(E, w))
<1> DEFINE good == Good(read)
           rows == Told(read)
<1>1. /\ good \in Seq(E)
      /\ DOMAIN good = 1 .. Len(good) /\ Len(good) \in Nat
      /\ \A i \in DOMAIN good : good[i] \in E /\ good[i].why = ""
      /\ \A r \in E : r.why = "" => \E i \in DOMAIN good : good[i] = r
      /\ \A r \in E : IsRead(r)
      /\ \A w \in [E -> Nat] : Weighed(good, w) = Weighed(read, [r \in E |-> IF r.why = "" THEN w[r] ELSE 0])
  <2>1. IsGood(good, read, E)
    BY GoodFacts
  <2> HIDE DEF good
  <2> QED BY <2>1 DEF IsGood
<1>2. rows = [i \in DOMAIN good |-> good[i].one]
  BY DEF Told
<1> HIDE DEF good, rows
<1>3. \A i \in DOMAIN good : good[i].one \in Owned /\ good[i].one.quantity <= COPIES /\ Len(good[i].one.acquisitions) <= LOTS
  BY <1>1 DEF IsRead
<1>4. rows \in Seq(Owned) /\ DOMAIN rows = DOMAIN good
  <2> DEFINE n == Len(good)
  <2>1. n \in Nat /\ DOMAIN good = 1 .. n
    BY <1>1
  <2> HIDE DEF n
  <2>2. rows \in [1 .. n -> Owned]
    BY <1>2, <1>3, <2>1
  <2> QED BY <2>1, <2>2
<1>5. Ceiled(rows)
  BY <1>2, <1>3 DEF Ceiled
<1>6. Identities(rows) = {Stack(r.one) : r \in {x \in E : x.why = ""}}
  <2>1. \A i \in DOMAIN rows : rows[i] = good[i].one
    BY <1>2
  <2>2. Identities(rows) = {Stack(good[i].one) : i \in DOMAIN good}
    BY <1>4, <2>1 DEF Identities
  <2> QED BY <1>1, <2>2
<1>7. ASSUME NEW w \in [Owned -> Nat]
      PROVE  Reads(E, w) \in [E -> Nat] /\ Weighed(rows, w) = Weighed(read, Reads(E, w))
  <2> DEFINE u == Reads(E, w)
  <2>1. u \in [E -> Nat] /\ \A r \in E : u[r] = IF r.why = "" THEN w[r.one] ELSE 0
    BY <1>1 DEF Reads, IsRead
  <2> HIDE DEF u
  <2>2. Weighed(good, u) = Weighed(read, [r \in E |-> IF r.why = "" THEN u[r] ELSE 0])
    BY <1>1, <2>1
  <2>3. [r \in E |-> IF r.why = "" THEN u[r] ELSE 0] = u
    BY <2>1
  <2>4. [i \in DOMAIN rows |-> w[rows[i]]] = [i \in DOMAIN good |-> u[good[i]]]
    <3>1. \A i \in DOMAIN good : w[rows[i]] = u[good[i]]
      BY <1>1, <1>2, <2>1
    <3> QED BY <1>4, <3>1
  <2>5. Weighed(rows, w) = Weighed(good, u)
    BY <2>4 DEF Weighed
  <2> QED BY <2>1, <2>2, <2>3, <2>5 DEF u
<1> QED BY <1>4, <1>5, <1>6, <1>7 DEF rows

\* What is read of a list read backwards.
LEMMA ToldAlike ==
    ASSUME NEW read, AllRead(read), NEW other, AllRead(other), NEW p, IsShuffle(other, read, p)
    PROVE  IsAlike(Told(other), Told(read))
<1> DEFINE E == Range(read)
<1>1. Range(other) = E
  BY DEF IsShuffle, Range
<1>2. read \in Seq(E) /\ other \in Seq(E)
  BY <1>1, GoodFacts DEF IsGood
<1>3. Identities(Told(other)) = Identities(Told(read))
  <2>1. Identities(Told(read)) = {Stack(r.one) : r \in {x \in E : x.why = ""}}
    BY ToldFacts
  <2>2. Identities(Told(other)) = {Stack(r.one) : r \in {x \in E : x.why = ""}}
    BY <1>1, ToldFacts
  <2> QED BY <2>1, <2>2
<1>4. ASSUME NEW w \in [Owned -> Nat]
      PROVE  Weighed(Told(other), w) = Weighed(Told(read), w)
  <2> DEFINE u == Reads(E, w)
  <2>1. u \in [E -> Nat] /\ Weighed(Told(read), w) = Weighed(read, u)
    BY ToldFacts
  <2>2. Weighed(Told(other), w) = Weighed(other, u)
    BY <1>1, ToldFacts
  <2> HIDE DEF u, E
  <2>3. Weighed(other, u) = Weighed(read, u)
    BY <1>2, <2>1, WeighedMoved
  <2> QED BY <2>1, <2>2, <2>3
<1> QED BY <1>3, <1>4 DEF IsAlike

Backwards(text) == [text EXCEPT !.rows = Reverse(@)]

\* A file read is stacks under the ceilings, and backwards the same ones.
LEMMA ReadFacts ==
    ASSUME NEW text, IsFile(text), NEW format, IsFormat(format)
    PROVE  /\ Read(text, format, TRUE).rows \in Seq(Owned)
           /\ Ceiled(Read(text, format, TRUE).rows)
           /\ Read(Backwards(text), format, TRUE).rows \in Seq(Owned)
           /\ IsAlike(Read(Backwards(text), format, TRUE).rows, Read(text, format, TRUE).rows)
<1> DEFINE lines == text.rows
           back == Backwards(text)
           read == [i \in DOMAIN lines |-> RowRead(lines[i], format, TRUE)]
           other == [i \in DOMAIN back.rows |-> RowRead(back.rows[i], format, TRUE)]
           lacks == \E field \in Needed(format.binding) : format.binding[field] \notin text.head
<1>1. back.rows = Reverse(lines) /\ back.head = text.head
  BY DEF Backwards, IsFile
<1>2. CASE lacks
  <2>1. Read(text, format, TRUE).rows = <<>> /\ Read(back, format, TRUE).rows = <<>>
    BY <1>1, <1>2 DEF Read
  <2>2. <<>> \in Seq(Owned) /\ Ceiled(<<>>)
    BY DEF Ceiled
  <2> HIDE DEF back
  <2>3. IsAlike(<<>>, <<>>)
    BY DEF IsAlike
  <2> QED BY <2>1, <2>2, <2>3 DEF back
<1>3. CASE ~lacks
  <2>1. Read(text, format, TRUE).rows = Told(read)
    BY <1>3 DEF Read, Told, Good
  <2>2. Read(back, format, TRUE).rows = Told(other)
    BY <1>1, <1>3 DEF Read, Told, Good
  <2> DEFINE F == Range(lines)
  <2>3. lines \in Seq(F) /\ DOMAIN lines = 1 .. Len(lines) /\ Len(lines) \in Nat
    BY DEF IsFile
  <2>4. \A i \in DOMAIN lines : IsRow(lines[i])
    BY DEF IsFile, IsRow
  <2> HIDE DEF lines, F
  <2>5. back.rows \in Seq(F) /\ Len(back.rows) = Len(lines) /\ \E p : IsShuffle(back.rows, lines, p)
    BY <1>1, <2>3, ReverseFacts
  <2> PICK p : IsShuffle(back.rows, lines, p)
    BY <2>5
  <2>6. DOMAIN back.rows = 1 .. Len(back.rows) /\ Len(back.rows) \in Nat
    BY <2>5
  <2>7. \A i \in DOMAIN back.rows : IsRow(back.rows[i])
    BY <2>4 DEF IsShuffle
  <2> HIDE DEF back
  <2>8. AllRead(read)
    <3>1. DOMAIN read = DOMAIN lines /\ Len(read) = Len(lines)
      BY <2>3
    <3>2. \A i \in DOMAIN lines : IsRead(read[i])
      BY <2>4, RowReadType
    <3>3. read \in Seq(Range(read))
      <4> DEFINE n == Len(lines)
      <4>1. n \in Nat /\ DOMAIN read = 1 .. n
        BY <2>3, <3>1
      <4> DEFINE R == Range(read)
      <4>2. \A i \in DOMAIN read : read[i] \in R
        BY DEF Range
      <4> HIDE DEF n, R
      <4>3. read \in [1 .. n -> R]
        BY <4>1, <4>2
      <4> HIDE DEF read
      <4>4. read \in Seq(R)
        BY <4>1, <4>3
      <4> QED BY <4>4 DEF R
    <3> QED BY <3>1, <3>2, <3>3 DEF AllRead
  <2>9. AllRead(other)
    <3>1. DOMAIN other = DOMAIN back.rows /\ Len(other) = Len(back.rows)
      BY <2>6
    <3>2. \A i \in DOMAIN back.rows : IsRead(other[i])
      BY <2>7, RowReadType
    <3>3. other \in Seq(Range(other))
      <4> DEFINE n == Len(back.rows)
      <4>1. n \in Nat /\ DOMAIN other = 1 .. n
        BY <2>6, <3>1
      <4> DEFINE R == Range(other)
      <4>2. \A i \in DOMAIN other : other[i] \in R
        BY DEF Range
      <4> HIDE DEF n, R
      <4>3. other \in [1 .. n -> R]
        BY <4>1, <4>2
      <4> HIDE DEF other
      <4>4. other \in Seq(R)
        BY <4>1, <4>3
      <4> QED BY <4>4 DEF R
    <3> QED BY <3>1, <3>2, <3>3 DEF AllRead
  <2>10. IsShuffle(other, read, p)
    <3>1. DOMAIN other = DOMAIN back.rows /\ DOMAIN read = DOMAIN lines
      OBVIOUS
    <3>2. \A i \in DOMAIN other : other[i] = read[p[i]]
      BY DEF IsShuffle
    <3> HIDE DEF other, read
    <3> QED BY <3>1, <3>2 DEF IsShuffle
  <2> HIDE DEF other, read
  <2>11. Told(read) \in Seq(Owned) /\ Ceiled(Told(read)) /\ Told(other) \in Seq(Owned)
    BY <2>8, <2>9, ToldFacts
  <2>12. IsAlike(Told(other), Told(read))
    BY <2>8, <2>9, <2>10, ToldAlike
  <2> QED BY <2>1, <2>2, <2>11, <2>12 DEF back
<1> QED BY <1>2, <1>3

-----------------------------------------------------------------------------
(* What is written.                                                        *)

\* A run of lists put one after another.
IsFlat(g, seqs, E) ==
    /\ g \in [1 .. Len(seqs) -> Seq(E)]
    /\ \A i \in 1 .. Len(seqs) : g[i] = IF i = 1 THEN seqs[i] ELSE g[i - 1] \o seqs[i]

FlatSome(h, m, seqs, E) ==
    h \in [1 .. m -> Seq(E)] /\ \A i \in 1 .. m : h[i] = IF i = 1 THEN seqs[i] ELSE h[i - 1] \o seqs[i]

\* A list of no lists.
LEMMA FlatNone ==
    ASSUME NEW seqs, NEW E
    PROVE  \E h : FlatSome(h, 0, seqs, E)
<1> DEFINE h == [i \in 1 .. 0 |-> <<>>]
<1>1. h \in [1 .. 0 -> Seq(E)]
  OBVIOUS
<1> HIDE DEF h
<1>2. FlatSome(h, 0, seqs, E)
  BY <1>1 DEF FlatSome
<1> QED BY <1>2

\* A list of lists and one more.
LEMMA FlatMore ==
    ASSUME NEW E, NEW seqs, NEW m \in Nat, NEW h, FlatSome(h, m, seqs, E), seqs[m + 1] \in Seq(E)
    PROVE  \E k : FlatSome(k, m + 1, seqs, E)
<1> DEFINE e == IF m = 0 THEN seqs[1] ELSE h[m] \o seqs[m + 1]
           k == [i \in 1 .. m + 1 |-> IF i = m + 1 THEN e ELSE h[i]]
<1>1. h \in [1 .. m -> Seq(E)] /\ \A i \in 1 .. m : h[i] = IF i = 1 THEN seqs[i] ELSE h[i - 1] \o seqs[i]
  BY DEF FlatSome
<1>2. e \in Seq(E)
  <2>1. CASE m = 0
    BY <2>1
  <2>2. CASE m # 0
    <3>1. h[m] \in Seq(E)
      BY <1>1, <2>2
    <3> QED BY <2>2, <3>1
  <2> QED BY <2>1, <2>2
<1>3. (m = 0 => e = seqs[1]) /\ (m # 0 => e = h[m] \o seqs[m + 1])
  OBVIOUS
<1> HIDE DEF e
<1>4. k \in [1 .. m + 1 -> Seq(E)] /\ k[m + 1] = e /\ \A i \in 1 .. m : k[i] = h[i]
  BY <1>1, <1>2
<1> HIDE DEF k
<1>5. ASSUME NEW i \in 1 .. m + 1
      PROVE  k[i] = IF i = 1 THEN seqs[i] ELSE k[i - 1] \o seqs[i]
  <2>1. CASE i = m + 1 /\ m = 0
    BY <1>3, <1>4, <2>1
  <2>2. CASE i = m + 1 /\ m # 0
    <3>1. k[m] = h[m] /\ i - 1 = m /\ i # 1
      BY <1>4, <2>2
    <3>2. k[i] = h[m] \o seqs[i]
      BY <1>3, <1>4, <2>2
    <3> QED BY <3>1, <3>2
  <2>3. CASE i # m + 1
    <3>1. i \in 1 .. m /\ (i # 1 => i - 1 \in 1 .. m)
      BY <2>3
    <3>2. h[i] = IF i = 1 THEN seqs[i] ELSE h[i - 1] \o seqs[i]
      BY <1>1, <3>1
    <3>3. k[i] = h[i] /\ (i # 1 => k[i - 1] = h[i - 1])
      BY <1>4, <3>1
    <3> QED BY <3>2, <3>3
  <2> QED BY <2>1, <2>2, <2>3
<1>6. FlatSome(k, m + 1, seqs, E)
  BY <1>4, <1>5 DEF FlatSome
<1> QED BY <1>6

\* Flattening, as the recursion it is.
LEMMA FlatThere ==
    ASSUME NEW E, NEW seqs \in Seq(Seq(E))
    PROVE  \E g : IsFlat(g, seqs, E)
<1> DEFINE n == Len(seqs)
           S == {m \in Nat : m <= n => \E h : FlatSome(h, m, seqs, E)}
<1>1. n \in Nat /\ \A i \in 1 .. n : seqs[i] \in Seq(E)
  BY SeqParts
<1> HIDE DEF n
<1>2. 0 \in S
  BY FlatNone
<1>3. ASSUME NEW m \in S
      PROVE  m + 1 \in S
  <2>1. m \in Nat
    OBVIOUS
  <2>2. ASSUME m + 1 <= n
        PROVE  \E h : FlatSome(h, m + 1, seqs, E)
    <3>1. m <= n /\ m + 1 \in 1 .. n
      BY <1>1, <2>1, <2>2
    <3>2. PICK h : FlatSome(h, m, seqs, E)
      BY <3>1
    <3>3. seqs[m + 1] \in Seq(E)
      BY <1>1, <3>1
    <3> QED BY <2>1, <3>2, <3>3, FlatMore
  <2> QED BY <2>1, <2>2
<1>4. n \in S
  <2>1. \A m \in Nat : m \in S
    <3>1. S \subseteq Nat
      BY DEF S
    <3> HIDE DEF S
    <3> QED BY <1>2, <1>3, <3>1, NatSetInduction
  <2> HIDE DEF S
  <2> QED BY <1>1, <2>1
<1>5. PICK h : FlatSome(h, n, seqs, E)
  BY <1>1, <1>4
<1>6. IsFlat(h, seqs, E)
  BY <1>5 DEF IsFlat, FlatSome, n
<1> QED BY <1>6

\* What FlattenSeq computes, list by list.
LEMMA FlattenFlat ==
    ASSUME NEW E, NEW seqs \in Seq(Seq(E)), Len(seqs) # 0
    PROVE  \E g : IsFlat(g, seqs, E) /\ FlattenSeq(seqs) = g[Len(seqs)]
<1> DEFINE n == Len(seqs)
           Made(f) == [i \in 1 .. Len(seqs) |-> IF i = 1 THEN seqs[i] ELSE f[i - 1] \o seqs[i]]
           flatten == CHOOSE f : f = Made(f)
<1>1. n \in Nat /\ \A i \in 1 .. n : seqs[i] \in Seq(E)
  BY SeqParts
<1>2. PICK h : IsFlat(h, seqs, E)
  BY FlatThere
<1>3. h = Made(h)
  BY <1>2 DEF IsFlat
<1>4. flatten = Made(flatten)
  <2> HIDE DEF Made
  <2> QED BY <1>3
<1>5. FlattenSeq(seqs) = flatten[n]
  BY DEF FlattenSeq
<1> HIDE DEF flatten
<1>6. DOMAIN flatten = 1 .. n /\ \A i \in 1 .. n : flatten[i] = IF i = 1 THEN seqs[i] ELSE flatten[i - 1] \o seqs[i]
  BY <1>4
<1> DEFINE S == {m \in Nat : m \in 1 .. n => flatten[m] \in Seq(E)}
<1> HIDE DEF n
<1>7. 0 \in S
  OBVIOUS
<1>8. ASSUME NEW m \in S
      PROVE  m + 1 \in S
  <2>1. m \in Nat
    OBVIOUS
  <2> SUFFICES ASSUME m + 1 \in 1 .. n
               PROVE  flatten[m + 1] \in Seq(E)
    BY <2>1
  <2> DEFINE i == m + 1
  <2>2. i \in 1 .. n /\ i - 1 = m /\ (i = 1 <=> m = 0)
    BY <2>1
  <2> HIDE DEF i
  <2>3. seqs[i] \in Seq(E) /\ flatten[i] = IF i = 1 THEN seqs[i] ELSE flatten[i - 1] \o seqs[i]
    BY <1>1, <1>6, <2>2
  <2>4. CASE m = 0
    BY <2>2, <2>3, <2>4 DEF i
  <2>5. CASE m # 0
    <3>1. m \in 1 .. n
      BY <1>1, <2>1, <2>5
    <3>2. flatten[m] \in Seq(E)
      BY <3>1
    <3>3. flatten[i] = flatten[m] \o seqs[i]
      BY <2>2, <2>3, <2>5
    <3>4. seqs[i] \in Seq(E)
      BY <2>3
    <3>5. flatten[m] \o seqs[i] \in Seq(E)
      BY <3>2, <3>4
    <3>6. flatten[i] \in Seq(E)
      BY <3>3, <3>5
    <3> QED BY <3>6 DEF i
  <2> QED BY <2>4, <2>5
<1>9. \A m \in Nat : m \in S
  <2>1. S \subseteq Nat
    OBVIOUS
  <2> HIDE DEF S
  <2> QED BY <1>7, <1>8, <2>1, NatSetInduction
<1>10. \A m \in 1 .. n : flatten[m] \in Seq(E)
  BY <1>1, <1>9
<1>11. flatten = [i \in 1 .. n |-> flatten[i]]
  BY <1>4 DEF n
<1>12. flatten \in [1 .. n -> Seq(E)]
  <2> HIDE DEF S
  <2> QED BY <1>10, <1>11
<1> QED BY <1>5, <1>6, <1>12 DEF IsFlat, n

\* Lists of one kind flatten to a list of it.
LEMMA FlattenType ==
    ASSUME NEW E, NEW seqs \in Seq(Seq(E))
    PROVE  FlattenSeq(seqs) \in Seq(E)
<1>1. CASE Len(seqs) = 0
  <2>1. FlattenSeq(seqs) = seqs /\ seqs = <<>>
    BY <1>1 DEF FlattenSeq
  <2> QED BY <2>1
<1>2. CASE Len(seqs) # 0
  <2>1. PICK g : IsFlat(g, seqs, E) /\ FlattenSeq(seqs) = g[Len(seqs)]
    BY <1>2, FlattenFlat
  <2>2. Len(seqs) \in 1 .. Len(seqs)
    BY <1>2, SeqParts
  <2> QED BY <2>1, <2>2 DEF IsFlat
<1> QED BY <1>1, <1>2

Kept == [value : Owned, waiting : Nat]
Records == [key : Nat, value : Owned]

\* An entry landed leaves a view of records.
LEMMA LandedType ==
    ASSUME NEW all \in Seq(Kept), NEW entry \in Owned
    PROVE  Landed(all, entry) \in Seq(Kept)
<1> DEFINE same == {i \in DOMAIN all : Stack(all[i].value) = Stack(entry)}
           m == Min(same)
           into == all[m]
           more == [into EXCEPT !.waiting = @ + entry.quantity]
           onto == [i \in DOMAIN all |-> IF i = m THEN more ELSE all[i]]
           last == [value |-> [entry EXCEPT !.quantity = 0], waiting |-> entry.quantity]
<1>1. Landed(all, entry) \in {onto, Append(all, last)}
  BY DEF Landed
<1>2. DOMAIN all = 1 .. Len(all) /\ Len(all) \in Nat /\ \A i \in 1 .. Len(all) : all[i] \in Kept
  BY SeqParts
<1>3. entry.quantity \in Nat
  BY DEF Owned
<1> HIDE DEF m
<1>4. onto \in Seq(Kept)
  <2>1. ASSUME NEW i \in DOMAIN all, i = m
        PROVE  more \in Kept
    <3>1. into \in Kept
      BY <1>2, <2>1
    <3> HIDE DEF into
    <3> QED BY <1>3, <3>1 DEF Kept
  <2> HIDE DEF more
  <2>2. \A i \in 1 .. Len(all) : (IF i = m THEN more ELSE all[i]) \in Kept
    BY <1>2, <2>1
  <2> QED BY <1>2, <2>2
<1>5. last \in Kept
  BY <1>3 DEF Kept, Owned
<1> HIDE DEF onto, last
<1> QED BY <1>1, <1>4, <1>5

\* So do all of them.
LEMMA LandingType ==
    ASSUME NEW records \in Seq(Records), NEW entries \in Seq(Owned)
    PROVE  Landing(records, entries) \in Seq(Kept)
<1>1. DOMAIN records = 1 .. Len(records) /\ Len(records) \in Nat /\ \A i \in 1 .. Len(records) : records[i] \in Records
  BY SeqParts
<1>2. Shelved(records) \in Seq(Kept)
  <2>1. \A i \in 1 .. Len(records) : [value |-> records[i].value, waiting |-> 0] \in Kept
    BY <1>1 DEF Records, Kept
  <2> QED BY <1>1, <2>1 DEF Shelved
<1>3. DOMAIN entries = 1 .. Len(entries) /\ Len(entries) \in Nat /\ \A i \in 1 .. Len(entries) : entries[i] \in Owned
  BY SeqParts
<1>4. \A a \in Seq(Kept), i \in DOMAIN entries : Landed(a, entries[i]) \in Seq(Kept)
  BY <1>3, LandedType
<1>5. LandingKeeps(records, entries, Seq(Kept))
  BY <1>2, <1>3, <1>4 DEF LandingKeeps
<1>6. PICK g : LandingAlong(g, records, entries, Seq(Kept))
  BY <1>5, LandingSteps
<1> QED BY <1>3, <1>6 DEF LandingAlong

\* What is in scope is of the view.
LEMMA WithinType ==
    ASSUME NEW stacks \in Seq(Kept), NEW scope
    PROVE  Within(stacks, scope) \in Seq(Kept)
BY OnlyType DEF Within

\* And so is that in the order it is written.
LEMMA SortedType ==
    ASSUME NEW stacks \in Seq(Kept)
    PROVE  Sorted(stacks) \in Seq(Kept)
<1> DEFINE order == Arranged(Len(stacks), {at \in (DOMAIN stacks) \X (DOMAIN stacks) : Before(stacks[at[1]], stacks[at[2]])})
<1>1. IsOrder(order, Len(stacks))
  BY SeqParts, ArrangedOrder
<1>2. Sorted(stacks) = Reordered(stacks, order)
  BY DEF Sorted, InOrder, Reordered
<1> HIDE DEF order
<1> QED BY <1>1, <1>2, ReorderedFacts

Spending == [lots : Seq(Acquisition), left : Int, unspent : Int]

\* A lot spent is a lot.
LEMMA SpendType ==
    ASSUME NEW acc \in Spending, NEW lot \in Acquisition, NEW format
    PROVE  Spend(acc, lot, format) \in Spending
<1> DEFINE q == Min({lot.quantity, acc.left})
           less == [acc EXCEPT !.lots = Append(@, [lot EXCEPT !.quantity = q]), !.left = @ - q]
           lost == [acc EXCEPT !.unspent = @ + IF Carried(lot, format) THEN 1 ELSE 0]
<1>1. Spend(acc, lot, format) \in {acc, lost, less}
  BY DEF Spend
<1>2. lot.quantity \in Int /\ acc.left \in Int
  BY DEF Acquisition, Spending
<1>3. q \in Int
  <2>1. \A a, b \in Int : Min({a, b}) \in Int
    <3> TAKE a, b \in Int
    <3>1. a <= b \/ b <= a
      OBVIOUS
    <3>2. \E x \in {a, b} : \A y \in {a, b} : x <= y
      BY <3>1
    <3> QED BY <3>2 DEF Min
  <2> QED BY <1>2, <2>1
<1> HIDE DEF q
<1>4. [lot EXCEPT !.quantity = q] \in Acquisition
  BY <1>3 DEF Acquisition
<1>5. less \in Spending
  <2> DEFINE one == [lot EXCEPT !.quantity = q]
  <2> HIDE DEF one
  <2>1. Append(acc.lots, one) \in Seq(Acquisition)
    <3>1. one \in Acquisition
      BY <1>4 DEF one
    <3>2. acc.lots \in Seq(Acquisition)
      BY DEF Spending
    <3> QED BY <3>1, <3>2
  <2>2. acc.left - q \in Int
    BY <1>2, <1>3
  <2>3. [acc EXCEPT !.lots = Append(@, one), !.left = @ - q] \in Spending
    BY <2>1, <2>2 DEF Spending
  <2> QED BY <2>3 DEF one
<1>6. lost \in Spending
  BY DEF Spending
<1> QED BY <1>1, <1>5, <1>6

\* The lot of a row.
LEMMA LotOf ==
    ASSUME NEW text \in STRING
    PROVE  [quantity |-> 0, price |-> text, currency |-> text, marketValue |-> text, marketCurrency |-> text, at |-> 0] \in Acquisition
BY DEF Acquisition

\* A stack splits into lots.
LEMMA SplitType ==
    ASSUME NEW count \in Int, NEW lots \in Seq(Acquisition), NEW format
    PROVE  Split(count, lots, format).lots \in Seq(Acquisition)
<1>1. DOMAIN lots = 1 .. Len(lots) /\ Len(lots) \in Nat /\ \A i \in 1 .. Len(lots) : lots[i] \in Acquisition
  BY SeqParts
<1>2. Unspent(count) \in Spending
  BY DEF Unspent, Spending
<1>3. \A a \in Spending, i \in DOMAIN lots : Spend(a, lots[i], format) \in Spending
  BY <1>1, SpendType
<1>4. SpentKeeps(count, lots, format, Spending)
  BY <1>1, <1>2, <1>3 DEF SpentKeeps
<1>5. PICK g : SpentAlong(g, count, lots, format, Spending)
  BY <1>4, SplitSteps
<1> DEFINE spent == Spent(count, lots, format)
<1>6. spent \in Spending
  BY <1>1, <1>5 DEF SpentAlong
<1>7. Split(count, lots, format) = IF spent.left > 0 THEN [spent EXCEPT !.lots = Append(@, [NoLot EXCEPT !.quantity = spent.left])] ELSE spent
  BY DEF Split
<1> HIDE DEF spent
<1>8. spent.lots \in Seq(Acquisition) /\ spent.left \in Int
  BY <1>6 DEF Spending
<1> DEFINE last == [NoLot EXCEPT !.quantity = spent.left]
<1>9. last \in Acquisition
  <2>1. "" \in STRING
    BY WordsAssumption
  <2>2. NoLot \in Acquisition
    BY <2>1, LotOf DEF NoLot
  <2> HIDE DEF NoLot
  <2>3. [NoLot EXCEPT !.quantity = spent.left] \in Acquisition
    BY <1>8, <2>2 DEF Acquisition
  <2> QED BY <2>3
<1> HIDE DEF last
<1>10. Append(spent.lots, last) \in Seq(Acquisition)
  BY <1>8, <1>9
<1>11. [spent EXCEPT !.lots = Append(@, last)].lots = Append(spent.lots, last)
  BY <1>6 DEF Spending
<1> QED BY <1>7, <1>8, <1>10, <1>11 DEF last

\* A grade written is a word.
LEMMA GradedType ==
    ASSUME NEW condition \in STRING
    PROVE  Graded(condition) \in STRING
<1>1. CONDITIONS = {"mint", "nearMint", "excellent", "good", "lightPlayed", "played", "poor"}
  BY DEF CONDITIONS, Snake
<1>2. /\ Snake["mint"] = "mint" /\ Snake["nearMint"] = "near_mint" /\ Snake["excellent"] = "excellent" /\ Snake["good"] = "good"
      /\ Snake["lightPlayed"] = "light_played" /\ Snake["played"] = "played" /\ Snake["poor"] = "poor"
  BY DEF Snake
<1>3. \A c \in CONDITIONS : Snake[c] \in {"mint", "near_mint", "excellent", "good", "light_played", "played", "poor"}
  BY <1>1, <1>2
<1>4. \A c \in CONDITIONS : Snake[c] \in STRING
  BY <1>3, WordsAssumption
<1> QED BY <1>4 DEF Graded

\* So is a finish.
LEMMA FoilType ==
    ASSUME NEW finish \in STRING
    PROVE  Foil(finish) \in STRING
<1>1. DOMAIN WRITTEN = {"nonfoil", "foil", "etched"}
  BY DEF WRITTEN
<1>2. WRITTEN["nonfoil"] = "normal" /\ WRITTEN["foil"] = "foil" /\ WRITTEN["etched"] = "etched"
  BY DEF WRITTEN
<1>3. \A c \in DOMAIN WRITTEN : WRITTEN[c] \in {"normal", "foil", "etched"}
  BY <1>1, <1>2
<1>4. \A c \in DOMAIN WRITTEN : WRITTEN[c] \in STRING
  BY <1>3, WordsAssumption
<1> QED BY <1>4 DEF Foil, Spelled

\* What an export writes of a field is what a read takes it for.
LEMMA CellType ==
    ASSUME NEW one \in Owned, NEW lot \in Acquisition, NEW lang \in STRING
    PROVE  \A field \in FIELDS : Cell(field, one, lot, Places, lang) \in Saying(field)
<1>1. /\ one.scryfallId \in STRING /\ one.finish \in STRING /\ one.condition \in STRING /\ one.note \in STRING
      /\ one.proxy \in BOOLEAN /\ one.tags \in Seq(Seq(STRING)) /\ one.createdAt \in Int /\ one.updatedAt \in Int
  BY DEF Owned
<1>2. /\ "" \in STRING
      /\ Named(one) => /\ About(one).name \in STRING /\ About(one).set \in STRING /\ About(one).number \in STRING
                       /\ About(one).rarity \in STRING
  BY WordsAssumption, PrintingAssumption DEF Named, About, Described
<1>3. /\ lot.quantity \in Int /\ lot.at \in Int /\ lot.price \in STRING /\ lot.currency \in STRING
      /\ lot.marketValue \in STRING /\ lot.marketCurrency \in STRING
  BY DEF Acquisition
<1>4. Cell("scryfallId", one, lot, Places, lang) \in Saying("scryfallId")
  BY <1>1 DEF Cell, Saying
<1>5. Cell("name", one, lot, Places, lang) \in Saying("name")
  BY <1>2 DEF Cell, Saying
<1>6. Cell("setCode", one, lot, Places, lang) \in Saying("setCode")
  BY <1>2 DEF Cell, Saying
<1>7. Cell("setName", one, lot, Places, lang) \in Saying("setName")
  BY <1>2 DEF Cell, Saying
<1>8. Cell("collectorNumber", one, lot, Places, lang) \in Saying("collectorNumber")
  BY <1>2 DEF Cell, Saying
<1>9. Cell("rarity", one, lot, Places, lang) \in Saying("rarity")
  BY <1>2 DEF Cell, Saying
<1>10. Cell("language", one, lot, Places, lang) \in Saying("language")
  BY DEF Cell, Saying
<1>11. Cell("finish", one, lot, Places, lang) \in Saying("finish")
  BY <1>1, FoilType DEF Cell, Saying
<1>12. Cell("quantity", one, lot, Places, lang) \in Saying("quantity")
  BY <1>3 DEF Cell, Saying
<1>13. Cell("condition", one, lot, Places, lang) \in Saying("condition")
  BY <1>1, GradedType DEF Cell, Saying
<1>14. Cell("container", one, lot, Places, lang) \in Saying("container")
  BY <1>2, PlacesAssumption DEF Cell, Saying
<1>15. Cell("altered", one, lot, Places, lang) \in Saying("altered")
  BY DEF Cell, Saying, Labeled
<1>16. Cell("misprint", one, lot, Places, lang) \in Saying("misprint")
  BY DEF Cell, Saying, Labeled
<1>17. Cell("signed", one, lot, Places, lang) \in Saying("signed")
  BY DEF Cell, Saying, Labeled
<1>18. Cell("tags", one, lot, Places, lang) \in Saying("tags")
  BY <1>1, FlattenType DEF Cell, Saying
<1>19. Cell("note", one, lot, Places, lang) \in Saying("note")
  BY <1>1 DEF Cell, Saying
<1>20. Cell("proxy", one, lot, Places, lang) \in Saying("proxy")
  BY <1>1 DEF Cell, Saying
<1>21. Cell("price", one, lot, Places, lang) \in Saying("price")
  BY <1>3 DEF Cell, Saying
<1>22. Cell("currency", one, lot, Places, lang) \in Saying("currency")
  BY <1>3 DEF Cell, Saying
<1>23. Cell("marketValue", one, lot, Places, lang) \in Saying("marketValue")
  BY <1>3 DEF Cell, Saying
<1>24. Cell("marketCurrency", one, lot, Places, lang) \in Saying("marketCurrency")
  BY <1>3 DEF Cell, Saying
<1>25. Cell("acquiredAt", one, lot, Places, lang) \in Saying("acquiredAt")
  BY <1>3 DEF Cell, Saying
<1>26. Cell("createdAt", one, lot, Places, lang) \in Saying("createdAt")
  BY <1>1 DEF Cell, Saying
<1>27. Cell("updatedAt", one, lot, Places, lang) \in Saying("updatedAt")
  BY <1>1 DEF Cell, Saying
<1>28. \A field \in {"scryfallId", "name", "setCode", "setName", "collectorNumber", "rarity", "language", "finish", "quantity", "condition", "container", "altered"} :
         Cell(field, one, lot, Places, lang) \in Saying(field)
  BY <1>4, <1>5, <1>6, <1>7, <1>8, <1>9, <1>10, <1>11, <1>12, <1>13, <1>14, <1>15
<1>29. \A field \in {"misprint", "signed", "tags", "note", "proxy", "price", "currency", "marketValue", "marketCurrency", "acquiredAt", "createdAt", "updatedAt"} :
         Cell(field, one, lot, Places, lang) \in Saying(field)
  BY <1>16, <1>17, <1>18, <1>19, <1>20, <1>21, <1>22, <1>23, <1>24, <1>25, <1>26, <1>27
<1> QED BY <1>28, <1>29 DEF FIELDS

\* A row an export writes.
LangOf(one) == IF Named(one) THEN About(one).lang ELSE ""
SaidOf(one, format, english) == IF LangOf(one) \in format.refuses /\ english THEN "en" ELSE LangOf(one)
FieldsOf(format) == [column \in Range(format.binding) |-> CHOOSE f \in DOMAIN format.binding : format.binding[f] = column]
RowOf(one, lot, format, english) ==
    [column \in Columns(format) |->
        IF column \in DOMAIN FieldsOf(format) THEN Cell(FieldsOf(format)[column], one, lot, Places, SaidOf(one, format, english)) ELSE ""]
SpentOf(out, format) == [i \in DOMAIN out |-> Split(Shown(out[i]), out[i].value.acquisitions, format)]
LotsOf(out, i, format) == SpentOf(out, format)[i].lots
IsWhole(E, format, english) == E = {RowOf(one, lot, format, english) : one \in Owned, lot \in Acquisition}
LinesOf(out, format, english) ==
    [i \in DOMAIN out |-> [j \in DOMAIN LotsOf(out, i, format) |-> RowOf(out[i].value, LotsOf(out, i, format)[j], format, english)]]

\* The rows of a file are those of its stacks.
LEMMA RowsAre ==
    ASSUME NEW stacks, NEW format, NEW english
    PROVE  /\ Rows(stacks, format, Places, english).rows =
                 FlattenSeq(LinesOf(Sorted(Only(stacks, {one \in Range(stacks) : Shown(one) >= 1})), format, english))
           /\ {"head", "rows"} \subseteq DOMAIN Rows(stacks, format, Places, english)
<1> DEFINE out == Sorted(Only(stacks, {one \in Range(stacks) : Shown(one) >= 1}))
<1>1. Rows(stacks, format, Places, english).rows = FlattenSeq(LinesOf(out, format, english))
  BY DEF Rows, LinesOf, LotsOf, SpentOf, RowOf, FieldsOf, SaidOf, LangOf
<1>2. {"head", "rows"} \subseteq DOMAIN Rows(stacks, format, Places, english)
  BY DEF Rows
<1> QED BY <1>1, <1>2

IsWritten(format) ==
    /\ IsFormat(format) /\ DOMAIN format.binding \subseteq FIELDS
    /\ \A column \in format.issued : CellOf(column) = STRING

\* Every format there is may be written.
LEMMA FormatsWritten ==
    \A at \in DOMAIN FORMATS : IsWritten(FORMATS[at])
<1>1. DOMAIN FORMATS = {1, 2} /\ FORMATS[1] = MANABOX /\ FORMATS[2] = MANAWEB
  BY DEF FORMATS
<1>2. IsWritten(MANABOX)
  <2>1. MANABOX.issued = {"ManaBox ID"} /\ CellOf("ManaBox ID") = STRING
    BY DEF MANABOX, CellOf
  <2>2. DOMAIN MANABOX.binding \subseteq FIELDS
    BY DEF MANABOX, FIELDS
  <2> QED BY <2>1, <2>2, FormatsTyped, <1>1 DEF IsWritten
<1>3. IsWritten(MANAWEB)
  <2>1. MANAWEB.issued = {}
    BY DEF MANAWEB
  <2>2. DOMAIN MANAWEB.binding \subseteq FIELDS
    BY DEF MANAWEB, FIELDS
  <2> QED BY <2>1, <2>2, FormatsTyped, <1>1 DEF IsWritten
<1> QED BY <1>1, <1>2, <1>3

\* What is said of a stack fits its column.
LEMMA SaidType ==
    ASSUME NEW one, NEW format, NEW english
    PROVE  SaidOf(one, format, english) \in STRING
<1>1. "" \in STRING /\ "en" \in STRING
  BY WordsAssumption
<1>2. LangOf(one) \in STRING
  BY <1>1, PrintingAssumption DEF LangOf, Named, About, Described
<1> QED BY <1>1, <1>2 DEF SaidOf

\* A row written fits its columns.
LEMMA RowOfType ==
    ASSUME NEW one \in Owned, NEW lot \in Acquisition, NEW format, IsWritten(format), NEW english
    PROVE  IsRow(RowOf(one, lot, format, english))
<1> DEFINE B == format.binding
           row == RowOf(one, lot, format, english)
           said == SaidOf(one, format, english)
           fields == FieldsOf(format)
<1>1. said \in STRING
  BY SaidType
<1>2. fields = [column \in Range(B) |-> CHOOSE f \in DOMAIN B : B[f] = column]
  BY DEF FieldsOf
<1>3. row = [column \in Columns(format) |-> IF column \in DOMAIN fields THEN Cell(fields[column], one, lot, Places, said) ELSE ""]
  BY DEF RowOf
<1>4. Columns(format) = Range(B) \cup format.issued
  BY DEF Columns
<1> HIDE DEF said, fields, row
<1>5. ASSUME NEW column \in DOMAIN row
      PROVE  row[column] \in CellOf(column)
  <2>1. CASE column \in Range(B)
    <3>1. \E f \in DOMAIN B : B[f] = column
      BY <2>1 DEF Range
    <3>2. fields[column] \in DOMAIN B /\ B[fields[column]] = column
      BY <1>2, <2>1, <3>1
    <3>3. row[column] = Cell(fields[column], one, lot, Places, said)
      BY <1>2, <1>3, <2>1
    <3>4. fields[column] \in FIELDS /\ CellOf(column) = Saying(fields[column])
      BY <3>2 DEF IsWritten, IsFormat
    <3>5. Cell(fields[column], one, lot, Places, said) \in Saying(fields[column])
      BY <1>1, <3>4, CellType
    <3> QED BY <3>3, <3>4, <3>5
  <2>2. CASE column \notin Range(B)
    <3>1. row[column] = "" /\ column \in format.issued
      BY <1>2, <1>3, <1>4, <2>2
    <3>2. CellOf(column) = STRING
      BY <3>1 DEF IsWritten
    <3> QED BY <3>1, <3>2, WordsAssumption
  <2> QED BY <2>1, <2>2
<1> QED BY <1>5 DEF IsRow, row

\* So do all rows of a stack.
LEMMA LinesType ==
    ASSUME NEW out \in Seq(Kept), NEW format, NEW english, NEW E, IsWhole(E, format, english)
    PROVE  LinesOf(out, format, english) \in Seq(Seq(E))
<1> DEFINE n == Len(out)
           Line(i) == [j \in DOMAIN LotsOf(out, i, format) |-> RowOf(out[i].value, LotsOf(out, i, format)[j], format, english)]
<1>1. DOMAIN out = 1 .. n /\ n \in Nat /\ \A i \in 1 .. n : out[i] \in Kept
  BY SeqParts
<1> HIDE DEF n
<1>2. ASSUME NEW i \in 1 .. n
      PROVE  Line(i) \in Seq(E)
  <2> DEFINE lots == LotsOf(out, i, format)
             one == out[i].value
  <2>1. one \in Owned /\ out[i].waiting \in Nat
    BY <1>1 DEF Kept
  <2>2. one.quantity \in Nat /\ one.acquisitions \in Seq(Acquisition)
    BY <2>1 DEF Owned
  <2>3. Shown(out[i]) \in Int
    BY <2>1, <2>2 DEF Shown
  <2>4. lots \in Seq(Acquisition)
    BY <1>1, <2>2, <2>3, SplitType DEF LotsOf, SpentOf
  <2>5. DOMAIN lots = 1 .. Len(lots) /\ Len(lots) \in Nat /\ \A j \in 1 .. Len(lots) : lots[j] \in Acquisition
    BY <2>4, SeqParts
  <2>6. Line(i) = [j \in DOMAIN lots |-> RowOf(one, lots[j], format, english)]
    OBVIOUS
  <2> HIDE DEF lots, one
  <2>7. \A j \in 1 .. Len(lots) : RowOf(one, lots[j], format, english) \in E
    BY <2>1, <2>5 DEF IsWhole
  <2> QED BY <2>5, <2>6, <2>7
<1>3. LinesOf(out, format, english) = [i \in 1 .. n |-> Line(i)]
  BY <1>1 DEF LinesOf
<1> HIDE DEF Line
<1> QED BY <1>1, <1>2, <1>3

\* What an export writes is a file a read may be given.
LEMMA RowsFile ==
    ASSUME NEW stacks \in Seq(Kept), NEW format, IsWritten(format), NEW english
    PROVE  IsFile(Rows(stacks, format, Places, english))
<1> DEFINE E == {RowOf(one, lot, format, english) : one \in Owned, lot \in Acquisition}
           out == Sorted(Only(stacks, {one \in Range(stacks) : Shown(one) >= 1}))
           lines == LinesOf(out, format, english)
           text == Rows(stacks, format, Places, english)
<1>1. out \in Seq(Kept)
  BY OnlyType, SortedType
<1>2. text.rows = FlattenSeq(lines) /\ {"head", "rows"} \subseteq DOMAIN text
  BY RowsAre
<1>3. \A row \in E : IsRow(row)
  BY RowOfType
<1>8. IsWhole(E, format, english)
  BY DEF IsWhole
<1> HIDE DEF out, E
<1>4. lines \in Seq(Seq(E))
  BY <1>1, <1>8, LinesType
<1> HIDE DEF lines, text
<1>5. text.rows \in Seq(E)
  BY <1>2, <1>4, FlattenType
<1>6. text.rows \in Seq(Range(text.rows)) /\ \A i \in DOMAIN text.rows : IsRow(text.rows[i])
  <2> DEFINE rows == text.rows
  <2> HIDE DEF rows
  <2>1. DOMAIN rows = 1 .. Len(rows) /\ Len(rows) \in Nat /\ \A i \in 1 .. Len(rows) : rows[i] \in E
    BY <1>5, SeqParts DEF rows
  <2> DEFINE R == Range(rows)
  <2>2. \A i \in 1 .. Len(rows) : rows[i] \in R
    BY <2>1 DEF Range
  <2> HIDE DEF R
  <2>3. rows \in Seq(R)
    <3>1. rows \in Seq(E)
      BY <1>5 DEF rows
    <3>2. rows = [i \in 1 .. Len(rows) |-> rows[i]]
      BY <2>1, <3>1
    <3>3. rows \in [1 .. Len(rows) -> R]
      BY <2>2, <3>2
    <3> QED BY <2>1, <3>3
  <2> QED BY <1>3, <2>1, <2>3 DEF R, rows
<1>7. IsFile(text)
  BY <1>2, <1>6 DEF IsFile, IsRow
<1> QED BY <1>7 DEF text

\* The other way a file's figures may be read.
LEMMA PaidTyped ==
    \A at \in DOMAIN FORMATS : IsFormat(AsPaid(FORMATS[at]))
<1> SUFFICES ASSUME NEW at \in DOMAIN FORMATS
             PROVE  IsFormat(AsPaid(FORMATS[at]))
  OBVIOUS
<1> DEFINE format == FORMATS[at]
           B == format.binding
<1>1. DOMAIN FORMATS = {1, 2} /\ FORMATS[1] = MANABOX /\ FORMATS[2] = MANAWEB
  BY DEF FORMATS
<1>2. IsFormat(format)
  BY FormatsTyped
<1>3. "binding" \in DOMAIN format /\ "marketValue" \in DOMAIN B /\ "marketCurrency" \in DOMAIN B
  <2>1. CASE at = 1
    <3>1. "binding" \in DOMAIN MANABOX /\ "marketValue" \in DOMAIN MANABOX.binding /\ "marketCurrency" \in DOMAIN MANABOX.binding
      BY DEF MANABOX
    <3> QED BY <1>1, <2>1, <3>1
  <2>2. CASE at = 2
    <3>1. "binding" \in DOMAIN MANAWEB /\ "marketValue" \in DOMAIN MANAWEB.binding /\ "marketCurrency" \in DOMAIN MANAWEB.binding
      BY DEF MANAWEB
    <3> QED BY <1>1, <2>2, <3>1
  <2> QED BY <1>1, <2>1, <2>2
<1> DEFINE Source(field) == CASE field = "price" -> "marketValue" [] field = "currency" -> "marketCurrency" [] OTHER -> field
           fields == (DOMAIN B \ {"marketValue", "marketCurrency"}) \cup {"price"}
                     \cup (IF Binds(format, "marketCurrency") THEN {"currency"} ELSE {})
           C == [field \in fields |-> B[Source(field)]]
<1>4. AsPaid(format) = [format EXCEPT !.binding = C]
  BY DEF AsPaid
<1>5. ASSUME NEW field \in fields
      PROVE  CellOf(B[Source(field)]) = Saying(field)
  <2>1. CASE field = "price"
    <3>1. Source(field) = "marketValue" /\ Saying("marketValue") = Saying("price")
      BY <2>1 DEF Saying
    <3> QED BY <1>2, <1>3, <2>1, <3>1 DEF IsFormat
  <2>2. CASE field = "currency"
    <3>1. Source(field) = "marketCurrency" /\ Saying("marketCurrency") = Saying("currency")
      BY <2>2 DEF Saying
    <3> QED BY <1>2, <1>3, <2>2, <3>1 DEF IsFormat
  <2>3. CASE field \notin {"price", "currency"}
    <3>1. Source(field) = field /\ field \in DOMAIN B
      BY <2>3
    <3> QED BY <1>2, <3>1 DEF IsFormat
  <2> QED BY <2>1, <2>2, <2>3
<1> HIDE DEF format, Source, fields
<1>6. AsPaid(format).binding = C
  BY <1>3, <1>4
<1>7. IsFormat(AsPaid(format))
  BY <1>5, <1>6 DEF IsFormat
<1> QED BY <1>7 DEF format

-----------------------------------------------------------------------------
(* Records by their keys.                                                  *)

PutOne(x, key, value) == IF x.key = key THEN [x EXCEPT !.value = value] ELSE x
Put(list, key, value) == [i \in DOMAIN list |-> IF list[i].key = key THEN [list[i] EXCEPT !.value = value] ELSE list[i]]

KeysApart(list) == \A a, b \in Range(list) : a.key = b.key => a = b
Under(list, n) == \A a \in Range(list) : a.key <= n

IsPutting(other, list, key, value) == list \in Seq(Records) /\ value \in Owned /\ other = Put(list, key, value)

\* A record written leaves records, each under its key.
LEMMA PuttingType ==
    ASSUME NEW other, NEW list, NEW key, NEW value, IsPutting(other, list, key, value)
    PROVE  /\ other \in Seq(Records) /\ DOMAIN other = DOMAIN list /\ Len(other) = Len(list)
           /\ DOMAIN list = 1 .. Len(list) /\ Len(list) \in Nat
           /\ \A i \in DOMAIN list : other[i] = PutOne(list[i], key, value) /\ other[i].key = list[i].key
                                     /\ other[i].value = IF list[i].key = key THEN value ELSE list[i].value
<1>1. DOMAIN list = 1 .. Len(list) /\ Len(list) \in Nat /\ \A i \in 1 .. Len(list) : list[i] \in Records
  BY SeqParts DEF IsPutting
<1>2. ASSUME NEW x \in Records
      PROVE  /\ PutOne(x, key, value) \in Records /\ PutOne(x, key, value).key = x.key
             /\ PutOne(x, key, value).value = IF x.key = key THEN value ELSE x.value
  BY DEF IsPutting, Records, PutOne
<1>3. other = [i \in 1 .. Len(list) |-> PutOne(list[i], key, value)]
  BY <1>1 DEF IsPutting, Put, PutOne
<1>4. \A i \in 1 .. Len(list) : PutOne(list[i], key, value) \in Records
  BY <1>1, <1>2
<1>5. other \in Seq(Records) /\ DOMAIN other = DOMAIN list /\ Len(other) = Len(list)
  BY <1>1, <1>3, <1>4
<1>6. \A i \in DOMAIN list : other[i] = PutOne(list[i], key, value) /\ other[i].key = list[i].key
                             /\ other[i].value = IF list[i].key = key THEN value ELSE list[i].value
  BY <1>1, <1>2, <1>3
<1> QED BY <1>1, <1>5, <1>6

\* Each record is itself or what was written of it.
LEMMA PuttingRange ==
    ASSUME NEW other, NEW list, NEW key, NEW value, IsPutting(other, list, key, value)
    PROVE  Range(other) = {PutOne(x, key, value) : x \in Range(list)}
<1>1. DOMAIN other = DOMAIN list /\ \A i \in DOMAIN list : other[i] = PutOne(list[i], key, value)
  BY PuttingType
<1> QED BY <1>1 DEF Range

\* No key is written twice.
LEMMA PuttingKeys ==
    ASSUME NEW other, NEW list, NEW key, NEW value, IsPutting(other, list, key, value), Injective(list), KeysApart(list)
    PROVE  /\ Injective(other) /\ KeysApart(other)
           /\ \A n : Under(list, n) => Under(other, n)
<1>1. DOMAIN other = DOMAIN list /\ \A i \in DOMAIN list : other[i].key = list[i].key
  BY PuttingType
<1>2. \A i, j \in DOMAIN list : list[i].key = list[j].key => i = j
  BY DEF Injective, KeysApart, Range
<1>3. \A i, j \in DOMAIN other : other[i].key = other[j].key => i = j
  BY <1>1, <1>2
<1>4. Injective(other)
  BY <1>3 DEF Injective
<1>5. KeysApart(other)
  BY <1>3 DEF KeysApart, Range
<1>6. \A n : Under(list, n) => Under(other, n)
  BY <1>1 DEF Under, Range
<1> QED BY <1>4, <1>5, <1>6

\* The record put first among those of a key is the only one.
LEMMA PuttingValues ==
    ASSUME NEW other, NEW list, NEW key, NEW value, IsPutting(other, list, key, value), Injective(list), KeysApart(list),
           NEW at \in DOMAIN list, list[at].key = key
    PROVE  Values(other) = [Values(list) EXCEPT ![at] = value]
<1>1. DOMAIN other = DOMAIN list /\ \A i \in DOMAIN list : other[i].value = IF list[i].key = key THEN value ELSE list[i].value
  BY PuttingType
<1>2. \A i \in DOMAIN list : list[i].key = key => i = at
  BY DEF Injective, KeysApart, Range
<1>3. Values(other) = [i \in DOMAIN list |-> IF i = at THEN value ELSE list[i].value]
  BY <1>1, <1>2 DEF Values
<1> QED BY <1>3 DEF Values

NewRecord(key, value) == [key |-> key, value |-> value]
IsAdding(other, list, key, value) ==
    list \in Seq(Records) /\ value \in Owned /\ key \in Nat /\ other = Append(list, NewRecord(key, value))

\* A record added leaves the keys apart.
LEMMA AddingFacts ==
    ASSUME NEW other, NEW list, NEW key, NEW value, IsAdding(other, list, key, value)
    PROVE  /\ other \in Seq(Records)
           /\ Range(other) = Range(list) \cup {NewRecord(key, value)}
           /\ Values(other) = Append(Values(list), value)
           /\ \A n \in Nat : n < key /\ Under(list, n) /\ Injective(list) /\ KeysApart(list) =>
                 Injective(other) /\ KeysApart(other) /\ Under(other, key)
<1> DEFINE x == NewRecord(key, value)
<1>1. x \in Records /\ x.key = key /\ x.value = value
  BY DEF IsAdding, Records, NewRecord
<1>2. list \in Seq(Records) /\ other = Append(list, x)
  BY DEF IsAdding
<1>3. DOMAIN list = 1 .. Len(list) /\ Len(list) \in Nat /\ \A i \in 1 .. Len(list) : list[i] \in Records
  BY <1>2, SeqParts
<1> HIDE DEF x
<1>4. /\ other \in Seq(Records) /\ DOMAIN other = 1 .. Len(list) + 1
      /\ other[Len(list) + 1] = x /\ \A i \in DOMAIN list : other[i] = list[i]
      /\ Range(other) = Range(list) \cup {x}
      /\ Injective(list) /\ x \notin Range(list) => Injective(other)
  <2> DEFINE l == Append(list, x)
  <2>1. /\ l \in Seq(Records) /\ DOMAIN l = 1 .. Len(list) + 1
        /\ l[Len(list) + 1] = x /\ \A i \in DOMAIN list : l[i] = list[i]
        /\ Range(l) = Range(list) \cup {x}
        /\ Injective(list) /\ x \notin Range(list) => Injective(l)
    BY <1>1, <1>2, AppendRange
  <2> QED BY <1>2, <2>1
<1>5. Values(other) = Append(Values(list), value)
  <2>1. DOMAIN Values(list) = 1 .. Len(list) /\ Len(Values(list)) = Len(list) /\ Values(list) = [i \in 1 .. Len(list) |-> list[i].value]
    BY <1>3 DEF Values
  <2> DEFINE v == Values(list)
  <2> HIDE DEF v
  <2>2. Append(v, value) = [i \in 1 .. Len(list) + 1 |-> IF i = Len(list) + 1 THEN value ELSE v[i]]
    BY <1>3, <2>1 DEF v
  <2>3. \A i \in 1 .. Len(list) + 1 : other[i].value = IF i = Len(list) + 1 THEN value ELSE v[i]
    <3> TAKE i \in 1 .. Len(list) + 1
    <3>1. CASE i = Len(list) + 1
      BY <1>1, <1>4, <3>1
    <3>2. CASE i # Len(list) + 1
      <4>1. i \in 1 .. Len(list)
        BY <1>3, <3>2
      <4>2. other[i] = list[i] /\ v[i] = list[i].value
        BY <1>3, <1>4, <2>1, <4>1 DEF v
      <4> QED BY <3>2, <4>2
    <3> QED BY <3>1, <3>2
  <2>4. Values(other) = [i \in 1 .. Len(list) + 1 |-> other[i].value]
    BY <1>4 DEF Values
  <2> QED BY <2>2, <2>3, <2>4 DEF v
<1>6. ASSUME NEW n \in Nat, n < key, Under(list, n), Injective(list), KeysApart(list)
      PROVE  Injective(other) /\ KeysApart(other) /\ Under(other, key)
  <2>1. key \in Nat
    BY DEF IsAdding
  <2>2. \A a \in Range(list) : a.key \in Nat
    BY <1>3 DEF Range, Records
  <2>3. \A a \in Range(list) : a.key < key
    BY <1>6, <2>1, <2>2 DEF Under
  <2>4. x \notin Range(list)
    BY <1>1, <2>1, <2>3
  <2>5. Injective(other)
    BY <1>4, <1>6, <2>4
  <2>6. KeysApart(other)
    <3>1. \A a, b \in Range(list) : a.key = b.key => a = b
      BY <1>6 DEF KeysApart
    <3>2. \A a \in Range(list) : a.key # x.key
      BY <1>1, <2>1, <2>2, <2>3
    <3> QED BY <1>4, <3>1, <3>2 DEF KeysApart
  <2>7. Under(other, key)
    BY <1>1, <1>4, <2>1, <2>2, <2>3 DEF Under
  <2> QED BY <2>5, <2>6, <2>7
<1> QED BY <1>4, <1>5, <1>6 DEF x

IsAdded(other, list, key, value) ==
    /\ other \in Seq(Records) /\ Range(other) = Range(list) \cup {NewRecord(key, value)}
    /\ Values(other) = Append(Values(list), value)

\* A record added.
LEMMA Added1 ==
    ASSUME NEW other, NEW list, NEW key, NEW value, IsAdding(other, list, key, value)
    PROVE  IsAdded(other, list, key, value)
BY AddingFacts DEF IsAdded

-----------------------------------------------------------------------------
(* What an import was promised to come to.                                 *)

IsPromise(V, rest, after, records) ==
    /\ CopiesOf(V) + CopiesOf(rest) = after
    /\ Distinct(V) /\ Fitting(V, rest) => records = Cardinality(Identities(V) \cup Identities(rest))

\* The identities of a list are those of its head and its tail.
LEMMA IdentitiesTail ==
    ASSUME NEW list \in Seq(Owned), list # <<>>
    PROVE  /\ Identities(list) = {Stack(Head(list))} \cup Identities(Tail(list))
           /\ Head(list) \in Owned /\ Tail(list) \in Seq(Owned)
<1> DEFINE rest == Tail(list)
<1>1. DOMAIN list = 1 .. Len(list) /\ Len(list) \in Nat /\ Len(list) >= 1
  OBVIOUS
<1>2. Head(list) = list[1] /\ list[1] \in Owned
  BY <1>1
<1>3. rest \in Seq(Owned) /\ DOMAIN rest = 1 .. Len(list) - 1 /\ \A i \in 1 .. Len(list) - 1 : rest[i] = list[i + 1]
  BY <1>1
<1> HIDE DEF rest
<1>4. Identities(list) \subseteq {Stack(list[1])} \cup Identities(rest)
  <2> SUFFICES ASSUME NEW i \in DOMAIN list
               PROVE  Stack(list[i]) \in {Stack(list[1])} \cup Identities(rest)
    BY DEF Identities
  <2>1. CASE i = 1
    BY <2>1
  <2>2. CASE i # 1
    <3> DEFINE j == i - 1
    <3>1. j \in 1 .. Len(list) - 1 /\ j + 1 = i
      BY <1>1, <2>2
    <3> HIDE DEF j
    <3>2. rest[j] = list[i] /\ j \in DOMAIN rest
      BY <1>3, <3>1
    <3> QED BY <3>2 DEF Identities
  <2> QED BY <2>1, <2>2
<1>5. {Stack(list[1])} \cup Identities(rest) \subseteq Identities(list)
  <2>1. Stack(list[1]) \in Identities(list)
    BY <1>1 DEF Identities
  <2>2. \A j \in DOMAIN rest : j + 1 \in DOMAIN list /\ rest[j] = list[j + 1]
    BY <1>1, <1>3
  <2>3. Identities(rest) \subseteq Identities(list)
    BY <2>2 DEF Identities
  <2> QED BY <2>1, <2>3
<1> QED BY <1>2, <1>3, <1>4, <1>5 DEF rest

\* What there was to be of one identity, before and after one is taken in.
Fits2(k, ones, copies, lots) == ones >= 2 => copies <= COPIES /\ lots <= LOTS

\* How many of an identity there are, before and after one is taken in.
LEMMA GrowsTotals ==
    ASSUME NEW a \in Seq(Owned), NEW e \in Owned, NEW b, Grows(a, b, e), Distinct(b)
    PROVE  /\ Distinct(a)
           /\ \A k : \/ Weighed(b, Ones({k})) = Weighed(a, Ones({k})) + Ones({k})[e]
                     \/ /\ k = Stack(e) /\ Weighed(b, Ones({k})) = 1
                        /\ Weighed(b, CopiesOn({k})) <= COPIES /\ Weighed(b, LotsOn({k})) <= LOTS
<1>1. CASE b = Append(a, e)
  <2>1. Distinct(a)
    BY <1>1, DistinctAppend
  <2>2. \A k : Weighed(b, Ones({k})) = Weighed(a, Ones({k})) + Ones({k})[e]
    BY <1>1, WeighedAppend, Additives
  <2> QED BY <2>1, <2>2
<1>2. CASE \E i \in DOMAIN a, at \in Nat : Joins(a[i], e) /\ b = [a EXCEPT ![i] = Merge(a[i], e, at)]
  <2>1. PICK i \in DOMAIN a, at \in Nat : Joins(a[i], e) /\ b = [a EXCEPT ![i] = Merge(a[i], e, at)]
    BY <1>2
  <2> DEFINE one == Merge(a[i], e, at)
  <2>2. a[i] \in Owned
    BY SeqParts
  <2>3. /\ one \in Owned /\ one.quantity = a[i].quantity + e.quantity
        /\ Len(one.acquisitions) = Len(a[i].acquisitions) + Len(e.acquisitions) /\ Stack(one) = Stack(a[i])
    BY <2>2, MergeFacts
  <2> HIDE DEF one
  <2>4. IsPut(a, i, one, b)
    BY <2>1, <2>3 DEF IsPut, one
  <2>5. /\ b \in Seq(Owned) /\ DOMAIN b = DOMAIN a /\ b[i] = one /\ (Distinct(b) <=> Distinct(a))
        /\ \A w \in [Owned -> Nat] : Weighed(b, w) + w[a[i]] = Weighed(a, w) + w[one]
    BY <2>4, PutFacts
  <2>6. Stack(e) = Stack(one) /\ one.quantity <= COPIES /\ Len(one.acquisitions) <= LOTS
    BY <2>1, <2>3 DEF Joins
  <2>7. ASSUME NEW k
        PROVE  \/ Weighed(b, Ones({k})) = Weighed(a, Ones({k})) + Ones({k})[e]
               \/ /\ k = Stack(e) /\ Weighed(b, Ones({k})) = 1
                  /\ Weighed(b, CopiesOn({k})) <= COPIES /\ Weighed(b, LotsOn({k})) <= LOTS
    <3>1. CASE k = Stack(e)
      <4>1. Weighed(b, CopiesOn({k})) = b[i].quantity /\ Weighed(b, LotsOn({k})) = Len(b[i].acquisitions)
        BY <2>5, <2>6, <3>1, OnesFacts
      <4>2. Weighed(b, Ones({k})) = 1
        <5> DEFINE w == Ones({k})
        <5>1. w \in [Owned -> Nat]
          BY DEF Ones
        <5>2. w[b[i]] = 1 /\ \A j \in DOMAIN b \ {i} : w[b[j]] = 0
          <6>1. \A j \in DOMAIN b : b[j] \in Owned
            BY <2>5, SeqParts
          <6>2. \A j \in DOMAIN b \ {i} : Stack(b[j]) # k
            BY <2>5, <2>6, <3>1 DEF Distinct
          <6> QED BY <2>3, <2>5, <2>6, <3>1, <6>1, <6>2 DEF Ones
        <5> HIDE DEF w
        <5>3. Weighable(Owned, b, w)
          BY <2>5, <5>1 DEF Weighable
        <5>4. Weighed(b, w) = 1
          BY <2>5, <5>2, <5>3, WeighedLone
        <5> QED BY <5>4 DEF w
      <4> QED BY <2>5, <2>6, <3>1, <4>1, <4>2
    <3>2. CASE k # Stack(e)
      <4> DEFINE w == Ones({k})
      <4>1. w \in [Owned -> Nat] /\ w[e] = 0 /\ w[one] = 0 /\ w[a[i]] = 0
        BY <2>2, <2>3, <2>6, <3>2 DEF Ones
      <4> HIDE DEF w
      <4>2. Weighed(b, w) + w[a[i]] = Weighed(a, w) + w[one]
        BY <2>5, <4>1
      <4>3. Weighed(b, w) \in Nat /\ Weighed(a, w) \in Nat
        BY <2>5, <4>1, WeighedType
      <4>4. Weighed(b, w) = Weighed(a, w) + w[e]
        BY <4>1, <4>2, <4>3
      <4> QED BY <4>4 DEF w
    <3> QED BY <3>1, <3>2
  <2> QED BY <2>5, <2>7
<1> QED BY <1>1, <1>2 DEF Grows

\* Landing the next entry leaves the promise standing.
LEMMA PromiseGrows ==
    ASSUME NEW a \in Seq(Owned), NEW rest \in Seq(Owned), rest # <<>>, NEW b, Grows(a, b, Head(rest)),
           NEW after, NEW records, IsPromise(a, rest, after, records)
    PROVE  b \in Seq(Owned) /\ IsPromise(b, Tail(rest), after, records)
<1> DEFINE e == Head(rest)
           more == Tail(rest)
<1>1. e \in Owned /\ more \in Seq(Owned) /\ Identities(rest) = {Stack(e)} \cup Identities(more)
  BY IdentitiesTail
<1>2. \A w \in [Owned -> Nat] : Weighed(rest, w) = w[e] + Weighed(more, w) /\ w[e] \in Nat /\ Weighed(more, w) \in Nat
  <2> TAKE w \in [Owned -> Nat]
  <2>1. Weighed(rest, w) = w[e] + Weighed(more, w)
    BY WeighedTail
  <2> QED BY <1>1, <2>1, WeighedType
<1> HIDE DEF e, more
<1>3. Grows(a, b, e)
  BY DEF e
<1>4. /\ b \in Seq(Owned)
      /\ \A w : IsAdditive(w) => Weighed(b, w) = Weighed(a, w) + w[e]
      /\ Identities(b) = Identities(a) \cup {Stack(e)}
  BY <1>1, <1>3, GrowsFacts
<1>5. \A w : IsAdditive(w) => Weighed(b, w) + Weighed(more, w) = Weighed(a, w) + Weighed(rest, w)
  <2> SUFFICES ASSUME NEW w, IsAdditive(w)
               PROVE  Weighed(b, w) + Weighed(more, w) = Weighed(a, w) + Weighed(rest, w)
    OBVIOUS
  <2>1. w \in [Owned -> Nat]
    BY DEF IsAdditive
  <2>2. Weighed(a, w) \in Nat
    BY <2>1, WeighedType
  <2>3. Weighed(b, w) = Weighed(a, w) + w[e]
    BY <1>4
  <2>4. Weighed(rest, w) = w[e] + Weighed(more, w) /\ w[e] \in Nat /\ Weighed(more, w) \in Nat
    BY <1>2, <2>1
  <2> QED BY <2>2, <2>3, <2>4
<1>6. CopiesOf(b) + CopiesOf(more) = CopiesOf(a) + CopiesOf(rest)
  <2>1. IsAdditive(Copies)
    BY Additives
  <2> QED BY <1>1, <1>4, <1>5, <2>1, CopiesWeighed
<1>7. Identities(b) \cup Identities(more) = Identities(a) \cup Identities(rest)
  BY <1>1, <1>4
<1>8. ASSUME Distinct(b), Fitting(b, more)
      PROVE  Distinct(a) /\ Fitting(a, rest)
  <2>1. Distinct(a)
    BY <1>1, <1>3, <1>8, GrowsTotals
  <2>3. \A k : \/ Weighed(b, Ones({k})) = Weighed(a, Ones({k})) + Ones({k})[e]
               \/ /\ k = Stack(e) /\ Weighed(b, Ones({k})) = 1
                  /\ Weighed(b, CopiesOn({k})) <= COPIES /\ Weighed(b, LotsOn({k})) <= LOTS
    BY <1>1, <1>3, <1>8, GrowsTotals
  <2>2. ASSUME NEW k \in Identities(a) \cup Identities(rest), Weighed(a, Ones({k})) + Weighed(rest, Ones({k})) >= 2
        PROVE  /\ Weighed(a, CopiesOn({k})) + Weighed(rest, CopiesOn({k})) <= COPIES
               /\ Weighed(a, LotsOn({k})) + Weighed(rest, LotsOn({k})) <= LOTS
    <3> DEFINE oneB == Weighed(b, Ones({k})) oneM == Weighed(more, Ones({k})) oneA == Weighed(a, Ones({k})) oneR == Weighed(rest, Ones({k}))
               copB == Weighed(b, CopiesOn({k})) copM == Weighed(more, CopiesOn({k}))
               copA == Weighed(a, CopiesOn({k})) copR == Weighed(rest, CopiesOn({k}))
               lotB == Weighed(b, LotsOn({k})) lotM == Weighed(more, LotsOn({k}))
               lotA == Weighed(a, LotsOn({k})) lotR == Weighed(rest, LotsOn({k}))
               x == Ones({k})[e]
    <3>1. copB + copM = copA + copR /\ lotB + lotM = lotA + lotR
      BY <1>5, Additives
    <3>2. oneR = x + oneM /\ x \in Nat /\ oneM \in Nat
      BY <1>2, Additives
    <3>3. oneA \in Nat /\ oneB \in Nat /\ copB \in Nat /\ lotB \in Nat /\ copM \in Nat /\ lotM \in Nat
      BY <1>1, <1>4, OnesFacts
    <3>4. \/ oneB = oneA + x
          \/ k = Stack(e) /\ oneB = 1 /\ copB <= COPIES /\ lotB <= LOTS
      BY <2>3
    <3>5. oneB + oneM >= 2 => copB + copM <= COPIES /\ lotB + lotM <= LOTS
      BY <1>7, <1>8 DEF Fitting
    <3>6. oneM = 0 => copM = 0 /\ lotM = 0
      <4>1. k \in Identities(more) => oneM >= 1
        BY <1>1, OnesFacts
      <4>2. k \notin Identities(more) => copM = 0 /\ lotM = 0
        BY <1>1, OnesFacts
      <4> HIDE DEF oneM, copM, lotM
      <4> QED BY <3>2, <4>1, <4>2
    <3>7. oneA + oneR >= 2
      BY <2>2
    <3> HIDE DEF oneA, oneB, oneM, oneR, copA, copB, copM, copR, lotA, lotB, lotM, lotR, x
    <3>8. CASE oneB + oneM >= 2
      BY <3>1, <3>5, <3>8 DEF copA, copR, lotA, lotR
    <3>9. CASE ~(oneB + oneM >= 2)
      <4>1. oneB # oneA + x
        BY <3>2, <3>3, <3>7, <3>9
      <4>2. oneB = 1 /\ copB <= COPIES /\ lotB <= LOTS
        BY <3>4, <4>1
      <4>3. oneM = 0
        BY <3>2, <3>9, <4>2
      <4>4. copB + copM <= COPIES /\ lotB + lotM <= LOTS
        BY <3>3, <3>6, <4>2, <4>3
      <4> QED BY <3>1, <4>4 DEF copA, copR, lotA, lotR
    <3> QED BY <3>8, <3>9
  <2> QED BY <2>1, <2>2 DEF Fitting
<1>9. IsPromise(b, more, after, records)
  BY <1>6, <1>7, <1>8 DEF IsPromise
<1> QED BY <1>4, <1>9 DEF more

\* With nothing left to land, a promise is what the repository holds.
LEMMA PromiseKept ==
    ASSUME NEW a \in Seq(Owned), NEW after, NEW records, IsPromise(a, <<>>, after, records)
    PROVE  CopiesOf(a) = after /\ (Distinct(a) => Len(a) = records)
<1> DEFINE none == <<>>
<1>1. none \in Seq(Owned) /\ Identities(none) = {}
  BY DEF Identities
<1>2. CopiesOf(none) = 0
  BY <1>1, CopiesWeighed, WeighedNone
<1>3. CopiesOf(a) \in Nat
  BY CopiesWeighed
<1>4. CopiesOf(a) = after
  BY <1>2, <1>3 DEF IsPromise
<1>5. ASSUME Distinct(a)
      PROVE  Fitting(a, none)
  <2>1. ASSUME NEW k \in Identities(a)
        PROVE  Weighed(a, Ones({k})) = 1
    <3>1. PICK i \in DOMAIN a : Stack(a[i]) = k
      BY DEF Identities
    <3> DEFINE w == Ones({k})
    <3>2. w \in [Owned -> Nat]
      BY DEF Ones
    <3>3. \A j \in DOMAIN a : a[j] \in Owned
      BY SeqParts
    <3>4. w[a[i]] = 1 /\ \A j \in DOMAIN a \ {i} : w[a[j]] = 0
      <4>1. \A j \in DOMAIN a \ {i} : Stack(a[j]) # k
        BY <1>5, <3>1 DEF Distinct
      <4> QED BY <3>1, <3>3, <4>1 DEF Ones
    <3> HIDE DEF w
    <3>5. Weighable(Owned, a, w)
      BY <3>2 DEF Weighable
    <3>6. Weighed(a, w) = 1
      BY <3>4, <3>5, WeighedLone
    <3> QED BY <3>6 DEF w
  <2>2. \A k : Weighed(none, Ones({k})) = 0
    BY WeighedNone
  <2> HIDE DEF none
  <2>3. \A k \in Identities(a) \cup Identities(none) : ~(Weighed(a, Ones({k})) + Weighed(none, Ones({k})) >= 2)
    <3> TAKE k \in Identities(a) \cup Identities(none)
    <3>1. Weighed(a, Ones({k})) = 1 /\ Weighed(none, Ones({k})) = 0
      BY <1>1, <2>1, <2>2
    <3> QED BY <3>1
  <2> QED BY <2>3 DEF Fitting
<1>6. Distinct(a) => Len(a) = records
  <2> SUFFICES ASSUME Distinct(a)
               PROVE  Len(a) = records
    OBVIOUS
  <2>1. records = Cardinality(Identities(a) \cup Identities(none))
    BY <1>5 DEF IsPromise
  <2>2. Identities(a) \cup Identities(none) = Identities(a)
    BY <1>1
  <2>3. Cardinality(Identities(a)) = Len(a)
    BY DistinctCount
  <2> QED BY <2>1, <2>2, <2>3
<1> QED BY <1>4, <1>6

\* Two lists of the same records, each of them once.
IsPaired(one, other) ==
    one \in Seq(Records) /\ other \in Seq(Records) /\ Injective(one) /\ Injective(other) /\ Range(one) = Range(other)

\* Lists that hold the same, once each, are shuffles of each other.
LEMMA PairedShuffle ==
    ASSUME NEW one, NEW other, IsPaired(one, other)
    PROVE  \E p : IsShuffle(one, other, p)
<1> DEFINE p == [i \in DOMAIN one |-> CHOOSE j \in DOMAIN other : other[j] = one[i]]
<1>1. ASSUME NEW i \in DOMAIN one
      PROVE  p[i] \in DOMAIN other /\ other[p[i]] = one[i]
  <2>1. \E j \in DOMAIN other : other[j] = one[i]
    BY DEF IsPaired, Range
  <2> QED BY <2>1
<1>2. p \in [DOMAIN one -> DOMAIN other]
  BY <1>1
<1> HIDE DEF p
<1>3. \A a, c \in DOMAIN one : p[a] = p[c] => a = c
  BY <1>1 DEF IsPaired, Injective
<1>4. \A b \in DOMAIN other : \E a \in DOMAIN one : p[a] = b
  <2> TAKE b \in DOMAIN other
  <2>1. PICK a \in DOMAIN one : one[a] = other[b]
    BY DEF IsPaired, Range
  <2>2. other[p[a]] = other[b] /\ p[a] \in DOMAIN other
    BY <1>1, <2>1
  <2>3. p[a] = b
    BY <2>2 DEF IsPaired, Injective
  <2> QED BY <2>3
<1>5. IsShuffle(one, other, p)
  BY <1>1, <1>2, <1>3, <1>4 DEF IsShuffle
<1> QED BY <1>5

\* And as long.
LEMMA ShuffleLength ==
    ASSUME NEW E, NEW one \in Seq(E), NEW other \in Seq(E), NEW p, IsShuffle(one, other, p)
    PROVE  Len(one) = Len(other)
<1> DEFINE m == Len(one) n == Len(other)
<1>1. DOMAIN one = 1 .. m /\ DOMAIN other = 1 .. n /\ m \in Nat /\ n \in Nat
  BY SeqParts
<1> HIDE DEF m, n
<1>2. p \in Surjection(1 .. m, 1 .. n) /\ p \in Injection(1 .. m, 1 .. n)
  BY <1>1 DEF IsShuffle, Surjection, Injection, IsInjective
<1>3. IsFiniteSet(1 .. m) /\ Cardinality(1 .. m) = m /\ Cardinality(1 .. n) = n
  BY <1>1, FS_Interval
<1>4. Cardinality(1 .. n) = Cardinality(1 .. m)
  BY <1>2, <1>3, FS_Surjection
<1> QED BY <1>3, <1>4 DEF m, n

\* What records hold is stacks.
LEMMA RecordValues ==
    ASSUME NEW list \in Seq(Records)
    PROVE  /\ Values(list) \in Seq(Owned) /\ Len(Values(list)) = Len(list) /\ DOMAIN Values(list) = DOMAIN list
           /\ \A i \in DOMAIN list : Values(list)[i] = list[i].value
           /\ IsHolding(list, Len(list))
<1>1. DOMAIN list = 1 .. Len(list) /\ Len(list) \in Nat /\ \A i \in 1 .. Len(list) : list[i] \in Records
  BY SeqParts
<1>2. \A i \in 1 .. Len(list) : list[i].value \in Owned
  BY <1>1 DEF Records
<1>3. IsHolding(list, Len(list))
  BY <1>1, <1>2 DEF IsHolding
<1> DEFINE n == Len(list)
<1>4. IsHolding(list, n)
  BY <1>3
<1> HIDE DEF n
<1>5. Values(list) \in Seq(Owned) /\ Len(Values(list)) = n /\ DOMAIN Values(list) = 1 .. n /\ \A i \in 1 .. n : Values(list)[i] = list[i].value
  BY <1>4, HoldingValues
<1> QED BY <1>1, <1>3, <1>5 DEF n

\* Lists that hold the same weigh the same.
LEMMA PairedFacts ==
    ASSUME NEW one, NEW other, IsPaired(one, other)
    PROVE  /\ Len(one) = Len(other)
           /\ Identities(Values(one)) = Identities(Values(other))
           /\ \A w \in [Owned -> Nat] : Weighed(Values(one), w) = Weighed(Values(other), w)
<1>1. PICK p : IsShuffle(one, other, p)
  BY PairedShuffle
<1>2. one \in Seq(Records) /\ other \in Seq(Records)
  BY DEF IsPaired
<1>3. Len(one) = Len(other)
  BY <1>1, <1>2, ShuffleLength
<1> DEFINE v == Values(one) u == Values(other)
<1>4. /\ v \in Seq(Owned) /\ DOMAIN v = DOMAIN one /\ (\A i \in DOMAIN one : v[i] = one[i].value)
      /\ u \in Seq(Owned) /\ DOMAIN u = DOMAIN other /\ (\A i \in DOMAIN other : u[i] = other[i].value)
  BY <1>2, RecordValues
<1> HIDE DEF v, u
<1>5. IsShuffle(v, u, p)
  <2>1. \A i \in DOMAIN v : v[i] = u[p[i]]
    <3> TAKE i \in DOMAIN v
    <3>1. i \in DOMAIN one /\ p[i] \in DOMAIN other /\ one[i] = other[p[i]]
      BY <1>1, <1>4 DEF IsShuffle
    <3>2. v[i] = one[i].value /\ u[p[i]] = other[p[i]].value
      BY <1>4, <3>1
    <3> QED BY <3>1, <3>2
  <2>2. /\ p \in [DOMAIN v -> DOMAIN u] /\ \A a, c \in DOMAIN v : p[a] = p[c] => a = c
        /\ \A b \in DOMAIN u : \E a \in DOMAIN v : p[a] = b
    BY <1>1, <1>4 DEF IsShuffle
  <2> QED BY <2>1, <2>2 DEF IsShuffle
<1>6. \A w \in [Owned -> Nat] : Weighed(v, w) = Weighed(u, w)
  BY <1>4, <1>5, WeighedMoved
<1>7. Identities(v) = Identities(u)
  BY <1>5 DEF Identities, IsShuffle
<1> QED BY <1>3, <1>6, <1>7 DEF v, u

PlanSays(weight, size, n, v, imported) ==
    /\ weight.after = CopiesOf(v) + CopiesOf(imported)
    /\ size \in Nat /\ weight.records - weight.joined = size - n
    /\ weight.records \in Nat /\ weight.joined \in Nat
    /\ Distinct(v) /\ Fitting(v, imported) => size = Cardinality(Identities(v) \cup Identities(imported))

\* What a plan is weighed at.
LEMMA PlanSaid ==
    ASSUME NEW imported \in Seq(Owned), NEW kept, NEW n, IsHolding(kept, n), NEW at \in Nat
    PROVE  PlanSays(Weigh(Plan(imported, kept, at), kept), Len(Plan(imported, kept, at)), n, Values(kept), imported)
BY PlanFacts DEF PlanSays

\* What is promised of a plan made against the records, as another list shows them.
LEMMA PromiseStarts ==
    ASSUME NEW kept, NEW there, IsPaired(kept, there), NEW imported \in Seq(Owned), NEW at \in Nat,
           NEW weight, weight = Weigh(Plan(imported, Shelved(kept), at), Shelved(kept))
    PROVE  IsPromise(Values(there), imported, weight.after, Len(there) + weight.records - weight.joined)
<1> DEFINE shelf == Shelved(kept)
           n == Len(kept)
           size == Len(Plan(imported, shelf, at))
           u == Values(there)
           v == Values(kept)
<1>1. kept \in Seq(Records) /\ there \in Seq(Records)
  BY DEF IsPaired
<1>2. u \in Seq(Owned) /\ v \in Seq(Owned) /\ n \in Nat /\ DOMAIN kept = 1 .. n /\ Len(u) = Len(there) /\ Len(v) = n
  BY <1>1, RecordValues, SeqParts
<1>3. IsHolding(shelf, n) /\ Values(shelf) = v
  <2>1. shelf = [i \in 1 .. n |-> [value |-> kept[i].value, waiting |-> 0]]
    BY <1>2 DEF Shelved
  <2>2. \A i \in 1 .. n : kept[i].value \in Owned
    BY <1>1, RecordValues DEF IsHolding
  <2> HIDE DEF n, shelf
  <2>3. DOMAIN shelf = 1 .. n /\ Len(shelf) = n /\ \A i \in 1 .. n : shelf[i].value = kept[i].value
    BY <1>2, <2>1
  <2>4. IsHolding(shelf, n)
    BY <1>2, <2>2, <2>3 DEF IsHolding
  <2>5. Values(shelf) = Values(kept)
    BY <1>2, <2>3 DEF Values
  <2> QED BY <2>4, <2>5
<1>4. /\ n = Len(there) /\ Identities(v) = Identities(u) /\ \A w \in [Owned -> Nat] : Weighed(v, w) = Weighed(u, w)
  BY PairedFacts
<1>5. weight = Weigh(Plan(imported, shelf, at), shelf)
  OBVIOUS
<1> HIDE DEF shelf, n, size, u, v
<1>6. /\ weight.after = CopiesOf(v) + CopiesOf(imported)
      /\ size \in Nat /\ weight.records - weight.joined = size - n
      /\ weight.records \in Nat /\ weight.joined \in Nat
      /\ Distinct(v) /\ Fitting(v, imported) => size = Cardinality(Identities(v) \cup Identities(imported))
  <2>1. PlanSays(weight, size, n, Values(shelf), imported)
    BY <1>3, <1>5, PlanSaid DEF size
  <2>2. PlanSays(weight, size, n, v, imported)
    BY <1>3, <2>1
  <2> QED BY <2>2 DEF PlanSays
<1>7. Len(there) + weight.records - weight.joined = size
  BY <1>2, <1>4, <1>6
<1>8. CopiesOf(v) = CopiesOf(u)
  <2>1. Copies \in [Owned -> Nat]
    BY DEF Copies, Owned
  <2> QED BY <1>2, <1>4, <2>1, CopiesWeighed
<1>9. Distinct(u) => Distinct(v)
  <2>1. Distinct(u) <=> Cardinality(Identities(u)) = Len(u)
    BY <1>2, DistinctCount
  <2>2. Distinct(v) <=> Cardinality(Identities(v)) = Len(v)
    BY <1>2, DistinctCount
  <2> QED BY <1>2, <1>4, <2>1, <2>2
<1>10. Fitting(u, imported) => Fitting(v, imported)
  <2>1. \A k : /\ Weighed(v, Ones({k})) = Weighed(u, Ones({k}))
               /\ Weighed(v, CopiesOn({k})) = Weighed(u, CopiesOn({k}))
               /\ Weighed(v, LotsOn({k})) = Weighed(u, LotsOn({k}))
    BY <1>4, Additives DEF IsAdditive
  <2> QED BY <1>4, <2>1 DEF Fitting
<1>11. CopiesOf(u) + CopiesOf(imported) = weight.after
  BY <1>6, <1>8
<1>12. Distinct(u) /\ Fitting(u, imported) => size = Cardinality(Identities(u) \cup Identities(imported))
  BY <1>4, <1>6, <1>9, <1>10
<1>13. IsPromise(u, imported, weight.after, Len(there) + weight.records - weight.joined)
  BY <1>7, <1>11, <1>12 DEF IsPromise
<1> QED BY <1>13 DEF u

\* Records removed leave the rest as they were.
LEMMA RemovedFacts ==
    ASSUME NEW list \in Seq(Records), NEW some
    PROVE  /\ Only(list, some) \in Seq(Records)
           /\ Range(Only(list, some)) = Range(list) \cap some
           /\ Injective(list) => Injective(Only(list, some))
           /\ KeysApart(list) => KeysApart(Only(list, some))
           /\ \A n : Under(list, n) => Under(Only(list, some), n)
<1> DEFINE z == [e \in Records |-> 0]
<1>1. z \in [Records -> Nat]
  OBVIOUS
<1> HIDE DEF z
<1>2. Range(Only(list, some)) = Range(list) \cap some /\ (Injective(list) => Injective(Only(list, some)))
  BY <1>1, OnlyFacts
<1>3. Only(list, some) \in Seq(Records)
  BY OnlyType
<1> QED BY <1>2, <1>3 DEF KeysApart, Under

\* Records in the other order.
LEMMA ReversedFacts ==
    ASSUME NEW list \in Seq(Records)
    PROVE  /\ Reverse(list) \in Seq(Records)
           /\ Range(Reverse(list)) = Range(list)
           /\ Injective(list) => Injective(Reverse(list))
<1> DEFINE other == Reverse(list)
<1>1. other \in Seq(Records) /\ \E p : IsShuffle(other, list, p)
  BY ReverseFacts
<1> HIDE DEF other
<1>2. PICK p : IsShuffle(other, list, p)
  BY <1>1
<1>3. Range(other) = Range(list) /\ (Injective(list) => Injective(other))
  BY <1>2 DEF IsShuffle, Range, Injective
<1> QED BY <1>1, <1>3 DEF other

-----------------------------------------------------------------------------
(* The rows of a stack, and of a list of them.                             *)

\* A lot on a row of its own is a copy of the stack or more.
Lots == {lot \in Acquisition : lot.quantity \in Nat \ {0}}
Quantity == [lot \in Lots |-> lot.quantity]

Spendings(count) ==
    {acc \in [lots : Seq(Lots), left : Nat, unspent : Int] : Weighed(acc.lots, Quantity) + acc.left = count}

\* What a lot spends of a stack is what the stack has less.
LEMMA SpendCounts ==
    ASSUME NEW count \in Nat, NEW acc \in Spendings(count), NEW lot \in Acquisition, NEW format
    PROVE  Spend(acc, lot, format) \in Spendings(count)
<1> DEFINE q == Min({lot.quantity, acc.left})
           part == [lot EXCEPT !.quantity = q]
           less == [acc EXCEPT !.lots = Append(@, part), !.left = @ - q]
           lost == [acc EXCEPT !.unspent = @ + IF Carried(lot, format) THEN 1 ELSE 0]
           lots == acc.lots
           left == acc.left
<1>1. Spend(acc, lot, format) \in {acc, lost} \/ (lot.quantity >= 1 /\ acc.left >= 1 /\ Spend(acc, lot, format) = less)
  <2>1. lot.quantity \in Int /\ acc.left \in Nat
    BY DEF Acquisition, Spendings
  <2> QED BY <2>1 DEF Spend
<1>2. /\ acc \in [lots : Seq(Lots), left : Nat, unspent : Int] /\ lots \in Seq(Lots) /\ left \in Nat
      /\ Weighed(lots, Quantity) + left = count
  BY DEF Spendings
<1>3. lost \in Spendings(count)
  <2>1. lost \in [lots : Seq(Lots), left : Nat, unspent : Int] /\ lost.lots = lots /\ lost.left = left
    BY <1>2
  <2> HIDE DEF lost, lots, left
  <2> QED BY <1>2, <2>1 DEF Spendings
<1>4. ASSUME lot.quantity >= 1, left >= 1
      PROVE  less \in Spendings(count)
  <2>1. lot.quantity \in Nat
    BY <1>4 DEF Acquisition
  <2>2. q \in {lot.quantity, left} /\ q <= left
    <3>1. {lot.quantity, left} \in SUBSET Nat /\ {lot.quantity, left} # {}
      BY <1>2, <2>1
    <3> QED BY <3>1, Least
  <2>3. q \in Nat \ {0} /\ q <= left
    BY <1>2, <1>4, <2>1, <2>2
  <2> HIDE DEF q
  <2>4. part \in Lots /\ part.quantity = q
    BY <2>3 DEF Lots, Acquisition
  <2> DEFINE more == Append(lots, part)
             rest == left - q
  <2>5. less \in [lots : Seq(Lots), left : Nat, unspent : Int] /\ less.lots = more /\ less.left = rest
    <3> HIDE DEF part
    <3>1. more \in Seq(Lots) /\ rest \in Nat
      BY <1>2, <2>3, <2>4
    <3>2. less = [acc EXCEPT !.lots = more, !.left = rest]
      BY <1>2
    <3> HIDE DEF more, rest
    <3> QED BY <1>2, <3>1, <3>2
  <2>6. Weighed(more, Quantity) = Weighed(lots, Quantity) + q
    <3>1. Quantity \in [Lots -> Nat] /\ Quantity[part] = q
      BY <2>4 DEF Quantity, Lots
    <3> HIDE DEF part, lots
    <3> QED BY <1>2, <2>4, <3>1, WeighedAppend
  <2>7. Weighed(lots, Quantity) \in Nat
    <3>1. Quantity \in [Lots -> Nat]
      BY DEF Quantity, Lots
    <3> QED BY <1>2, <3>1, WeighedType
  <2>8. Weighed(more, Quantity) + rest = count
    BY <1>2, <2>3, <2>6, <2>7
  <2> HIDE DEF more, rest, less
  <2> QED BY <2>5, <2>8 DEF Spendings
<1> QED BY <1>1, <1>3, <1>4

\* The rows of a stack say as many copies as there are of it, a copy or more each.
LEMMA SplitCounts ==
    ASSUME NEW count \in Nat, NEW lots \in Seq(Acquisition), NEW format
    PROVE  /\ Split(count, lots, format).lots \in Seq(Lots)
           /\ Weighed(Split(count, lots, format).lots, Quantity) = count
<1>1. DOMAIN lots = 1 .. Len(lots) /\ Len(lots) \in Nat /\ \A i \in 1 .. Len(lots) : lots[i] \in Acquisition
  BY SeqParts
<1>2. Unspent(count) \in Spendings(count)
  <2>1. Weighed(<<>>, Quantity) = 0
    BY WeighedNone
  <2> QED BY <2>1 DEF Unspent, Spendings
<1>3. \A a \in Spendings(count), i \in DOMAIN lots : Spend(a, lots[i], format) \in Spendings(count)
  BY <1>1, SpendCounts
<1>4. SpentKeeps(count, lots, format, Spendings(count))
  BY <1>1, <1>2, <1>3 DEF SpentKeeps
<1>5. PICK g : SpentAlong(g, count, lots, format, Spendings(count))
  BY <1>4, SplitSteps
<1> DEFINE spent == Spent(count, lots, format)
<1>6. spent \in Spendings(count)
  BY <1>1, <1>5 DEF SpentAlong
<1>7. Split(count, lots, format) = IF spent.left > 0 THEN [spent EXCEPT !.lots = Append(@, [NoLot EXCEPT !.quantity = spent.left])] ELSE spent
  BY DEF Split
<1> HIDE DEF spent
<1> DEFINE some == spent.lots
           left == spent.left
<1>8. some \in Seq(Lots) /\ left \in Nat /\ Weighed(some, Quantity) + left = count
  BY <1>6 DEF Spendings
<1>13. Quantity \in [Lots -> Nat] /\ \A lot \in Lots : Quantity[lot] = lot.quantity
  BY DEF Quantity, Lots
<1>14. Weighed(some, Quantity) \in Nat
  BY <1>8, <1>13, WeighedType
<1>9. CASE left > 0
  <2> DEFINE last == [NoLot EXCEPT !.quantity = left]
  <2>1. last \in Lots /\ last.quantity = left
    <3>1. "" \in STRING
      BY WordsAssumption
    <3>2. NoLot \in Acquisition
      BY <3>1, LotOf DEF NoLot
    <3> HIDE DEF NoLot, left
    <3>3. left \in Nat \ {0} /\ left \in Int
      BY <1>8, <1>9
    <3>4. last \in Acquisition /\ last.quantity = left
      BY <3>2, <3>3 DEF Acquisition
    <3> HIDE DEF last
    <3> QED BY <3>3, <3>4 DEF Lots
  <2>2. Split(count, lots, format).lots = Append(some, last)
    <3>1. Split(count, lots, format) = [spent EXCEPT !.lots = Append(@, last)]
      BY <1>7, <1>9
    <3> HIDE DEF last
    <3> QED BY <1>6, <3>1 DEF Spendings
  <2> HIDE DEF last, some, left
  <2>3. Append(some, last) \in Seq(Lots)
    BY <1>8, <2>1
  <2>4. Weighed(Append(some, last), Quantity) = Weighed(some, Quantity) + left
    BY <1>8, <1>13, <2>1, WeighedAppend
  <2> QED BY <1>8, <2>2, <2>3, <2>4
<1>10. CASE ~(left > 0)
  <2>1. Split(count, lots, format).lots = some /\ left = 0
    BY <1>7, <1>8, <1>10
  <2> QED BY <1>8, <1>14, <2>1
<1> QED BY <1>9, <1>10

\* Lists flattened weigh what they do together.
LEMMA WeighedFlat ==
    ASSUME NEW E, NEW seqs \in Seq(Seq(E)), NEW w \in [E -> Nat]
    PROVE  Weighed(FlattenSeq(seqs), w) = Weighed(seqs, [one \in Seq(E) |-> Weighed(one, w)])
<1> DEFINE W == [one \in Seq(E) |-> Weighed(one, w)]
<1>1. W \in [Seq(E) -> Nat]
  BY WeighedType
<1>2. CASE Len(seqs) = 0
  <2>1. FlattenSeq(seqs) = seqs /\ seqs = <<>>
    BY <1>2 DEF FlattenSeq
  <2> QED BY <2>1, WeighedNone
<1>3. CASE Len(seqs) # 0
  <2> DEFINE m == Len(seqs)
  <2>1. PICK g : IsFlat(g, seqs, E) /\ FlattenSeq(seqs) = g[m]
    BY <1>3, FlattenFlat
  <2>2. m \in Nat \ {0} /\ \A i \in 1 .. m : seqs[i] \in Seq(E)
    BY <1>3, SeqParts
  <2>3. g \in [1 .. m -> Seq(E)] /\ \A i \in 1 .. m : g[i] = IF i = 1 THEN seqs[i] ELSE g[i - 1] \o seqs[i]
    BY <2>1 DEF IsFlat
  <2>4. /\ SubSeq(seqs, 1, 0) = <<>> /\ SubSeq(seqs, 1, m) = seqs
        /\ \A n \in 0 .. m : SubSeq(seqs, 1, n) \in Seq(Seq(E))
        /\ \A n \in 0 .. m - 1 : SubSeq(seqs, 1, n + 1) = Append(SubSeq(seqs, 1, n), seqs[n + 1])
    BY FirstOnes
  <2>10. 1 \in 1 .. m /\ 0 \in 0 .. m - 1
    BY <2>2
  <2> HIDE DEF m, W
  <2> DEFINE T == {n \in Nat : n + 1 <= m => Weighed(g[n + 1], w) = Weighed(SubSeq(seqs, 1, n + 1), W)}
  <2>8. \A one \in Seq(E) : W[one] = Weighed(one, w)
    BY DEF W
  <2>5. 0 \in T
    <3> DEFINE e == seqs[1]
    <3>1. g[1] = e /\ e \in Seq(E)
      <4>1. g[1] = seqs[1]
        BY <2>3, <2>10
      <4> QED BY <2>2, <2>10, <4>1
    <3>3. SubSeq(seqs, 1, 1) = Append(<<>>, e)
      <4>1. SubSeq(seqs, 1, 0 + 1) = Append(SubSeq(seqs, 1, 0), seqs[0 + 1])
        BY <2>4, <2>10
      <4>2. 0 + 1 = 1
        OBVIOUS
      <4> QED BY <2>4, <4>1, <4>2
    <3> HIDE DEF e
    <3>4. Weighed(Append(<<>>, e), W) = Weighed(<<>>, W) + W[e]
      <4>1. <<>> \in Seq(Seq(E))
        OBVIOUS
      <4> QED BY <1>1, <3>1, <4>1, WeighedAppend
    <3>5. Weighed(<<>>, W) = 0 /\ W[e] \in Nat
      BY <1>1, <3>1, WeighedNone
    <3>6. Weighed(g[1], w) = Weighed(SubSeq(seqs, 1, 1), W)
      <4> DEFINE x == W[e] y == Weighed(Append(<<>>, e), W) z == Weighed(<<>>, W)
      <4>1. y = z + x /\ z = 0 /\ x \in Nat
        BY <3>4, <3>5
      <4> HIDE DEF x, y, z
      <4>2. y = x
        BY <4>1
      <4>3. x = Weighed(e, w)
        BY <2>8, <3>1 DEF x
      <4>4. Weighed(SubSeq(seqs, 1, 1), W) = y
        BY <3>3 DEF y
      <4> QED BY <3>1, <4>2, <4>3, <4>4
    <3>7. 0 + 1 = 1
      OBVIOUS
    <3> QED BY <3>6, <3>7
  <2>6. \A n \in Nat : n \in T => n + 1 \in T
    <3> SUFFICES ASSUME NEW n \in Nat, n \in T, n + 2 <= m
                 PROVE  Weighed(g[n + 2], w) = Weighed(SubSeq(seqs, 1, n + 2), W)
      OBVIOUS
    <3>1. n + 2 \in 1 .. m /\ n + 1 \in 1 .. m /\ n + 2 # 1 /\ n + 2 - 1 = n + 1 /\ n + 1 \in 0 .. m - 1 /\ n + 1 \in 0 .. m
          /\ n + 1 + 1 = n + 2
      BY <2>2
    <3> DEFINE k == n + 1 l == n + 2
    <3> HIDE DEF k, l
    <3>10. l \in 1 .. m /\ k \in 1 .. m /\ l # 1 /\ l - 1 = k /\ k \in 0 .. m - 1 /\ k \in 0 .. m /\ k + 1 = l
      BY <3>1 DEF k, l
    <3>2. g[l] = g[k] \o seqs[l]
      BY <2>3, <3>10
    <3>3. g[k] \in Seq(E) /\ seqs[l] \in Seq(E)
      BY <2>2, <2>3, <3>10
    <3>4. Weighed(g[l], w) = Weighed(g[k], w) + Weighed(seqs[l], w)
      BY <3>2, <3>3, WeighedConcat
    <3>5. SubSeq(seqs, 1, l) = Append(SubSeq(seqs, 1, k), seqs[l]) /\ SubSeq(seqs, 1, k) \in Seq(Seq(E))
      BY <2>4, <3>10
    <3>6. Weighed(SubSeq(seqs, 1, l), W) = Weighed(SubSeq(seqs, 1, k), W) + W[seqs[l]]
      <4> DEFINE a == SubSeq(seqs, 1, k) e == seqs[l]
      <4>1. a \in Seq(Seq(E)) /\ e \in Seq(E) /\ SubSeq(seqs, 1, l) = Append(a, e)
        BY <3>3, <3>5
      <4> HIDE DEF a, e
      <4>2. Weighed(Append(a, e), W) = Weighed(a, W) + W[e]
        BY <1>1, <4>1, WeighedAppend
      <4> QED BY <4>1, <4>2 DEF a, e
    <3>7. Weighed(g[k], w) = Weighed(SubSeq(seqs, 1, k), W)
      <4>1. n + 1 <= m
        BY <2>2
      <4> QED BY <4>1 DEF k
    <3> QED BY <2>8, <3>3, <3>4, <3>6, <3>7 DEF l
  <2>7. m - 1 \in T /\ m - 1 + 1 = m
    <3> HIDE DEF T
    <3>1. \A n \in Nat : n \in T
      BY <2>5, <2>6, NatSetInduction
    <3> QED BY <2>2, <3>1
  <2>9. Weighed(g[m], w) = Weighed(SubSeq(seqs, 1, m), W)
    <3>1. \A n \in T : n + 1 <= m => Weighed(g[n + 1], w) = Weighed(SubSeq(seqs, 1, n + 1), W)
      OBVIOUS
    <3> HIDE DEF T
    <3> DEFINE p == m - 1
    <3>3. p \in T /\ p + 1 = m /\ m <= m
      BY <2>2, <2>7
    <3> HIDE DEF p
    <3> QED BY <3>1, <3>3
  <2> QED BY <2>1, <2>4, <2>9 DEF W
<1> QED BY <1>2, <1>3

\* Copies by what k says of each of a list, q of each.
On(E, k, q, key) == [e \in E |-> IF k[e] = key THEN q[e] ELSE 0]
Tally(list, k, q) ==
    [key \in {k[list[i]] : i \in DOMAIN list} |-> SumFunction([i \in DOMAIN list |-> IF k[list[i]] = key THEN q[list[i]] ELSE 0])]
IsTold(E, list, k, q) == list \in Seq(E) /\ q \in [E -> Nat \ {0}]

IsTally(E, list, k, q) ==
    /\ \A key : Weighed(list, On(E, k, q, key)) \in Nat
    /\ Tally(list, k, q) = [key \in {k[list[i]] : i \in DOMAIN list} |-> Weighed(list, On(E, k, q, key))]
    /\ \A key : key \in {k[list[i]] : i \in DOMAIN list} <=> Weighed(list, On(E, k, q, key)) # 0

\* A tally is of what the list weighs by each key it has.
LEMMA TallyWeighs ==
    ASSUME NEW E, NEW list, NEW k, NEW q, IsTold(E, list, k, q)
    PROVE  IsTally(E, list, k, q)
<1>1. list \in Seq(E) /\ q \in [E -> Nat \ {0}] /\ DOMAIN list = 1 .. Len(list) /\ \A i \in DOMAIN list : list[i] \in E
  BY SeqParts DEF IsTold
<1>2. ASSUME NEW key
      PROVE  /\ On(E, k, q, key) \in [E -> Nat] /\ Weighed(list, On(E, k, q, key)) \in Nat
             /\ Weighed(list, On(E, k, q, key)) = SumFunction([i \in DOMAIN list |-> IF k[list[i]] = key THEN q[list[i]] ELSE 0])
             /\ key \in {k[list[i]] : i \in DOMAIN list} <=> Weighed(list, On(E, k, q, key)) # 0
  <2> DEFINE w == On(E, k, q, key)
  <2>1. w \in [E -> Nat] /\ \A e \in E : w[e] = IF k[e] = key THEN q[e] ELSE 0
    BY <1>1 DEF On
  <2> HIDE DEF w
  <2>2. Weighed(list, w) \in Nat /\ Weighable(E, list, w)
    BY <1>1, <2>1, WeighedType DEF Weighable
  <2>3. [i \in DOMAIN list |-> w[list[i]]] = [i \in DOMAIN list |-> IF k[list[i]] = key THEN q[list[i]] ELSE 0]
    BY <1>1, <2>1
  <2>4. Weighed(list, w) = SumFunction([i \in DOMAIN list |-> IF k[list[i]] = key THEN q[list[i]] ELSE 0])
    BY <2>3 DEF Weighed
  <2>5. ASSUME key \in {k[list[i]] : i \in DOMAIN list} PROVE Weighed(list, w) # 0
    <3>1. PICK i \in DOMAIN list : k[list[i]] = key
      BY <2>5
    <3>2. w[list[i]] \in Nat \ {0}
      BY <1>1, <2>1, <3>1
    <3>3. Weighed(list, w) >= w[list[i]]
      BY <2>2, WeighedLone
    <3> QED BY <2>2, <3>2, <3>3
  <2>6. ASSUME key \notin {k[list[i]] : i \in DOMAIN list} PROVE Weighed(list, w) = 0
    <3>1. \A i \in DOMAIN list : w[list[i]] = 0
      BY <1>1, <2>1, <2>6
    <3> QED BY <2>2, <3>1, WeighedLone
  <2>7. On(E, k, q, key) = w
    BY DEF w
  <2> QED BY <2>1, <2>2, <2>4, <2>5, <2>6, <2>7
<1>3. Tally(list, k, q) = [key \in {k[list[i]] : i \in DOMAIN list} |-> Weighed(list, On(E, k, q, key))]
  BY <1>2 DEF Tally
<1> QED BY <1>2, <1>3 DEF IsTally

\* Two lists that say as many copies of everything tally the same.
LEMMA TallyAlike ==
    ASSUME NEW E, NEW list, NEW k, NEW q, IsTold(E, list, k, q),
           NEW D, NEW other, NEW h, NEW p, IsTold(D, other, h, p),
           \A key : Weighed(list, On(E, k, q, key)) = Weighed(other, On(D, h, p, key))
    PROVE  Tally(list, k, q) = Tally(other, h, p)
<1> DEFINE K == {k[list[i]] : i \in DOMAIN list}
           L == {h[other[i]] : i \in DOMAIN other}
           V == [key \in K |-> Weighed(list, On(E, k, q, key))]
           U == [key \in L |-> Weighed(other, On(D, h, p, key))]
<1>1. (\A key : key \in K <=> Weighed(list, On(E, k, q, key)) # 0) /\ Tally(list, k, q) = [key \in K |-> Weighed(list, On(E, k, q, key))]
  <2>1. IsTally(E, list, k, q)
    BY TallyWeighs
  <2> QED BY <2>1 DEF IsTally
<1>2. (\A key : key \in L <=> Weighed(other, On(D, h, p, key)) # 0) /\ Tally(other, h, p) = [key \in L |-> Weighed(other, On(D, h, p, key))]
  <2>1. IsTally(D, other, h, p)
    BY TallyWeighs
  <2> QED BY <2>1 DEF IsTally
<1> HIDE DEF K, L
<1>4. \A key : key \in K <=> key \in L
  BY <1>1, <1>2
<1>5. K = L
  BY <1>4
<1>6. V = U
  BY <1>5
<1> QED BY <1>1, <1>2, <1>6

-----------------------------------------------------------------------------
(* What a view shows.                                                      *)

\* Lists whose places weigh the same weigh the same.
LEMMA WeighedSame ==
    ASSUME NEW a, NEW v, NEW b, NEW w, DOMAIN a = DOMAIN b, \A i \in DOMAIN a : v[a[i]] = w[b[i]]
    PROVE  Weighed(a, v) = Weighed(b, w)
<1>1. [i \in DOMAIN a |-> v[a[i]]] = [i \in DOMAIN b |-> w[b[i]]]
  OBVIOUS
<1> QED BY <1>1 DEF Weighed

\* What a view shows of some identities.
ShownOn(P) == [one \in Kept |-> IF Stack(one.value) \in P THEN Shown(one) ELSE 0]

\* What a view shows of a stack is a count.
LEMMA ShownType ==
    /\ \A one \in Kept : one.value \in Owned /\ one.value.quantity \in Nat /\ one.waiting \in Nat /\ Shown(one) \in Nat
                         /\ Shown(one) = one.value.quantity + one.waiting
    /\ \A P : ShownOn(P) \in [Kept -> Nat] /\ \A one \in Kept : ShownOn(P)[one] = IF Stack(one.value) \in P THEN Shown(one) ELSE 0
<1>1. \A one \in Kept : one.value \in Owned /\ one.value.quantity \in Nat /\ one.waiting \in Nat
  BY DEF Kept, Owned
<1>2. \A one \in Kept : Shown(one) \in Nat /\ Shown(one) = one.value.quantity + one.waiting
  BY <1>1 DEF Shown
<1>3. \A P : ShownOn(P) \in [Kept -> Nat] /\ \A one \in Kept : ShownOn(P)[one] = IF Stack(one.value) \in P THEN Shown(one) ELSE 0
  BY <1>2 DEF ShownOn
<1> QED BY <1>1, <1>2, <1>3

\* An entry landed shows its copies, whichever record takes them.
LEMMA LandedWeighs ==
    ASSUME NEW all \in Seq(Kept), NEW entry \in Owned, NEW P
    PROVE  Weighed(Landed(all, entry), ShownOn(P)) = Weighed(all, ShownOn(P)) + CopiesOn(P)[entry]
<1> DEFINE same == {i \in DOMAIN all : Stack(all[i].value) = Stack(entry)}
           m == Min(same)
           into == all[m]
           more == [into EXCEPT !.waiting = @ + entry.quantity]
           onto == [i \in DOMAIN all |-> IF i = m THEN more ELSE all[i]]
           none == [entry EXCEPT !.quantity = 0]
           last == [value |-> none, waiting |-> entry.quantity]
           w == ShownOn(P)
<1>1. (Landed(all, entry) = onto /\ same # {}) \/ Landed(all, entry) = Append(all, last)
  BY DEF Landed
<1>2. DOMAIN all = 1 .. Len(all) /\ Len(all) \in Nat /\ \A i \in 1 .. Len(all) : all[i] \in Kept
  BY SeqParts
<1>3. entry.quantity \in Nat /\ CopiesOn(P)[entry] = IF Stack(entry) \in P THEN entry.quantity ELSE 0
  BY DEF Owned, CopiesOn
<1>4. w \in [Kept -> Nat] /\ \A one \in Kept : w[one] = IF Stack(one.value) \in P THEN Shown(one) ELSE 0
  BY ShownType
<1> HIDE DEF w
<1>5. Weighed(all, w) \in Nat
  BY <1>4, WeighedType
<1>6. CASE Landed(all, entry) = onto /\ same # {}
  <2>1. m \in DOMAIN all /\ Stack(into.value) = Stack(entry)
    <3>1. same \in SUBSET Nat /\ same # {}
      BY <1>2, <1>6
    <3>2. m \in same
      <4> HIDE DEF same
      <4> QED BY <3>1, Least
    <3> HIDE DEF m
    <3> QED BY <3>2
  <2> HIDE DEF m
  <2>2. into \in Kept
    BY <1>2, <2>1
  <2> HIDE DEF into
  <2>3. more \in Kept /\ more.value = into.value /\ more.waiting = into.waiting + entry.quantity
    <3>1. into.waiting \in Nat
      BY <2>2 DEF Kept
    <3> DEFINE q == into.waiting + entry.quantity
    <3>2. q \in Nat /\ more = [into EXCEPT !.waiting = q]
      BY <1>3, <3>1
    <3> HIDE DEF q
    <3> QED BY <2>2, <3>2 DEF Kept, q
  <2> HIDE DEF more
  <2>4. Shown(more) = Shown(into) + entry.quantity /\ Shown(into) \in Nat
    <3>1. into.value.quantity \in Nat /\ into.waiting \in Nat
      BY <2>2, ShownType
    <3> QED BY <1>3, <2>3, <3>1 DEF Shown
  <2>5. w[more] = w[into] + CopiesOn(P)[entry] /\ w[into] \in Nat
    BY <1>3, <1>4, <2>1, <2>2, <2>3, <2>4
  <2>6. onto \in Seq(Kept) /\ DOMAIN onto = DOMAIN all /\ onto[m] = more /\ \A i \in DOMAIN all \ {m} : onto[i] = all[i]
    <3>1. \A i \in 1 .. Len(all) : (IF i = m THEN more ELSE all[i]) \in Kept
      BY <1>2, <2>3
    <3> QED BY <1>2, <2>1, <3>1
  <2> HIDE DEF onto
  <2>7. IsSwap(onto, all, m, Kept)
    BY <2>1, <2>6 DEF IsSwap
  <2>8. Weighed(onto, w) + w[all[m]] = Weighed(all, w) + w[onto[m]]
    BY <1>4, <2>7, WeighedSwap
  <2>9. Weighed(onto, w) + w[into] = Weighed(all, w) + w[more]
    BY <2>6, <2>8 DEF into
  <2>10. Weighed(onto, w) \in Nat
    BY <1>4, <2>6, WeighedType
  <2> DEFINE x == w[into] y == w[more] z == Weighed(onto, w) u == Weighed(all, w) c == CopiesOn(P)[entry]
  <2>11. y = x + c /\ x \in Nat /\ z + x = u + y /\ z \in Nat /\ u \in Nat /\ c \in Nat
    BY <1>3, <1>5, <2>5, <2>9, <2>10
  <2> HIDE DEF x, y, z, u, c
  <2>12. z = u + c
    BY <2>11
  <2> QED BY <1>6, <2>12 DEF z, u, c, w
<1>7. CASE Landed(all, entry) = Append(all, last)
  <2>1. none \in Owned /\ Stack(none) = Stack(entry) /\ none.quantity = 0
    BY DEF Owned, Stack
  <2> HIDE DEF none
  <2>2. last \in Kept /\ last.value = none /\ last.waiting = entry.quantity
    BY <1>3, <2>1 DEF Kept
  <2> HIDE DEF last
  <2>3. Shown(last) = entry.quantity
    BY <1>3, <2>1, <2>2 DEF Shown
  <2>4. w[last] = CopiesOn(P)[entry]
    BY <1>3, <1>4, <2>1, <2>2, <2>3
  <2>5. Weighed(Append(all, last), w) = Weighed(all, w) + w[last]
    BY <1>4, <2>2, WeighedAppend
  <2> QED BY <1>7, <2>4, <2>5 DEF w
<1> QED BY <1>1, <1>6, <1>7

\* What is shown is what the records hold and what is waiting.
LEMMA LandingWeighs ==
    ASSUME NEW records \in Seq(Records), NEW entries \in Seq(Owned), NEW P
    PROVE  Weighed(Landing(records, entries), ShownOn(P)) = Weighed(Values(records), CopiesOn(P)) + Weighed(entries, CopiesOn(P))
<1> DEFINE m == Len(entries)
           v == ShownOn(P)
           w == CopiesOn(P)
           base == Weighed(Values(records), w)
<1>1. m \in Nat /\ DOMAIN entries = 1 .. m /\ \A i \in 1 .. m : entries[i] \in Owned
  BY SeqParts
<1>2. Shelved(records) \in Seq(Kept) /\ Weighed(Shelved(records), v) = base
  <2> DEFINE shelf == Shelved(records)
             n == Len(records)
             u == Values(records)
  <2>1. n \in Nat /\ DOMAIN records = 1 .. n /\ \A i \in 1 .. n : records[i].value \in Owned
    <3>1. DOMAIN records = 1 .. n /\ n \in Nat /\ \A i \in 1 .. n : records[i] \in Records
      BY SeqParts
    <3> QED BY <3>1 DEF Records
  <2>2. shelf = [i \in 1 .. n |-> [value |-> records[i].value, waiting |-> 0]] /\ u = [i \in 1 .. n |-> records[i].value]
    BY <2>1 DEF Shelved, Values
  <2> HIDE DEF shelf, n, u
  <2>3. shelf \in Seq(Kept)
    <3>1. \A i \in 1 .. n : [value |-> records[i].value, waiting |-> 0] \in Kept
      BY <2>1 DEF Kept
    <3> QED BY <2>1, <2>2, <3>1
  <2>4. \A i \in 1 .. n : v[shelf[i]] = w[u[i]]
    <3> TAKE i \in 1 .. n
    <3> DEFINE one == records[i].value
    <3>1. one \in Owned /\ shelf[i] = [value |-> one, waiting |-> 0] /\ u[i] = one
      BY <2>1, <2>2
    <3> HIDE DEF one
    <3>2. one.quantity \in Nat
      BY <3>1 DEF Owned
    <3>3. shelf[i] \in Kept /\ shelf[i].value = one /\ Shown(shelf[i]) = one.quantity
      BY <3>1, <3>2 DEF Shown, Kept
    <3>4. v[shelf[i]] = IF Stack(one) \in P THEN one.quantity ELSE 0
      BY <3>3, ShownType
    <3>5. w[one] = IF Stack(one) \in P THEN one.quantity ELSE 0
      BY <3>1 DEF CopiesOn
    <3> QED BY <3>1, <3>4, <3>5
  <2>5. DOMAIN shelf = 1 .. n /\ DOMAIN u = 1 .. n
    BY <2>2
  <2> HIDE DEF v, w
  <2>6. Weighed(shelf, v) = Weighed(u, w)
    <3>1. DOMAIN shelf = DOMAIN u /\ \A i \in DOMAIN shelf : v[shelf[i]] = w[u[i]]
      BY <2>4, <2>5
    <3> QED BY <3>1, WeighedSame
  <2> QED BY <2>3, <2>6 DEF shelf, u
<1>3. \A a \in Seq(Kept), i \in DOMAIN entries : Landed(a, entries[i]) \in Seq(Kept)
  BY <1>1, LandedType
<1>4. LandingKeeps(records, entries, Seq(Kept))
  BY <1>1, <1>2, <1>3 DEF LandingKeeps
<1>5. PICK g : LandingAlong(g, records, entries, Seq(Kept))
  BY <1>4, LandingSteps
<1>6. /\ \A n \in 0 .. m : g[n] \in Seq(Kept)
      /\ g[0] = Shelved(records)
      /\ \A n \in 0 .. m - 1 : g[n + 1] = Landed(g[n], entries[n + 1])
      /\ Landing(records, entries) = g[m]
  BY <1>5 DEF LandingAlong
<1>7. /\ SubSeq(entries, 1, 0) = <<>> /\ SubSeq(entries, 1, m) = entries
      /\ \A n \in 0 .. m : SubSeq(entries, 1, n) \in Seq(Owned)
      /\ \A n \in 0 .. m - 1 : SubSeq(entries, 1, n + 1) = Append(SubSeq(entries, 1, n), entries[n + 1])
  BY FirstOnes
<1>8. w \in [Owned -> Nat]
  BY Additives DEF IsAdditive
<1>9. base \in Nat
  <2>1. Values(records) \in Seq(Owned)
    BY RecordValues
  <2> HIDE DEF w
  <2> QED BY <1>8, <2>1, WeighedType
<1>14. \A n \in 0 .. m - 1 : Weighed(g[n + 1], v) = Weighed(g[n], v) + w[entries[n + 1]] /\ entries[n + 1] \in Owned
  <2> TAKE n \in 0 .. m - 1
  <2> DEFINE a == g[n] e == entries[n + 1] b == g[n + 1]
  <2>1. a \in Seq(Kept) /\ e \in Owned /\ b = Landed(a, e)
    <3>1. n \in 0 .. m /\ n + 1 \in 1 .. m
      BY <1>1
    <3> QED BY <1>1, <1>6, <3>1
  <2> HIDE DEF a, b, e
  <2>2. Weighed(b, v) = Weighed(a, v) + w[e]
    BY <2>1, LandedWeighs
  <2> QED BY <2>1, <2>2 DEF a, b, e
<1> HIDE DEF m, v, w, base
<1> DEFINE T == {n \in Nat : n <= m => Weighed(g[n], v) = base + Weighed(SubSeq(entries, 1, n), w)}
<1>10. 0 \in T
  <2>1. Weighed(<<>>, w) = 0
    BY WeighedNone
  <2>2. Weighed(g[0], v) = base
    BY <1>2, <1>6
  <2>3. Weighed(SubSeq(entries, 1, 0), w) = 0
    BY <1>7, <2>1
  <2>4. Weighed(g[0], v) = base + Weighed(SubSeq(entries, 1, 0), w)
    BY <1>9, <2>2, <2>3
  <2> QED BY <2>4
<1>11. \A n \in Nat : n \in T => n + 1 \in T
  <2> SUFFICES ASSUME NEW n \in Nat, n \in T, n + 1 <= m
               PROVE  Weighed(g[n + 1], v) = base + Weighed(SubSeq(entries, 1, n + 1), w)
    OBVIOUS
  <2>1. n \in 0 .. m - 1 /\ n \in 0 .. m /\ n <= m
    BY <1>1
  <2> DEFINE some == SubSeq(entries, 1, n) e == entries[n + 1] all == SubSeq(entries, 1, n + 1)
  <2>2. some \in Seq(Owned) /\ all = Append(some, e) /\ e \in Owned
    BY <1>7, <1>14, <2>1
  <2>3. Weighed(g[n], v) = base + Weighed(some, w)
    BY <2>1
  <2>4. Weighed(g[n + 1], v) = Weighed(g[n], v) + w[e]
    BY <1>14, <2>1
  <2> HIDE DEF some, e, all
  <2>5. Weighed(all, w) = Weighed(some, w) + w[e]
    BY <1>8, <2>2, WeighedAppend
  <2>6. Weighed(some, w) \in Nat /\ w[e] \in Nat
    BY <1>8, <2>2, WeighedType
  <2>7. Weighed(g[n + 1], v) = base + Weighed(all, w)
    BY <1>9, <2>3, <2>4, <2>5, <2>6
  <2> QED BY <2>7 DEF all
<1>12. m \in T
  <2> HIDE DEF T
  <2> QED BY <1>1, <1>10, <1>11, NatSetInduction
<1>13. Weighed(g[m], v) = base + Weighed(entries, w)
  <2>1. m <= m
    BY <1>1
  <2>2. Weighed(g[m], v) = base + Weighed(SubSeq(entries, 1, m), w)
    BY <1>12, <2>1
  <2>3. SubSeq(entries, 1, m) = entries
    BY <1>7
  <2> QED BY <2>2, <2>3
<1> QED BY <1>6, <1>13 DEF v, w, base

\* Two views show as much of everything.
AlikeShown(a, b) == a \in Seq(Kept) /\ b \in Seq(Kept) /\ \A P : Weighed(a, ShownOn(P)) = Weighed(b, ShownOn(P))

\* Whatever order the records are seen in, as much is shown of everything.
LEMMA LandingAlike ==
    ASSUME NEW one, NEW other, IsPaired(one, other), NEW entries \in Seq(Owned)
    PROVE  AlikeShown(Landing(one, entries), Landing(other, entries))
<1>1. one \in Seq(Records) /\ other \in Seq(Records)
  BY DEF IsPaired
<1>2. Landing(one, entries) \in Seq(Kept) /\ Landing(other, entries) \in Seq(Kept)
  BY <1>1, LandingType
<1>3. ASSUME NEW P
      PROVE  Weighed(Landing(one, entries), ShownOn(P)) = Weighed(Landing(other, entries), ShownOn(P))
  <2>1. CopiesOn(P) \in [Owned -> Nat]
    BY Additives DEF IsAdditive
  <2>2. Weighed(Values(one), CopiesOn(P)) = Weighed(Values(other), CopiesOn(P))
    BY <2>1, PairedFacts
  <2>3. Weighed(Landing(one, entries), ShownOn(P)) = Weighed(Values(one), CopiesOn(P)) + Weighed(entries, CopiesOn(P))
    BY <1>1, LandingWeighs
  <2>4. Weighed(Landing(other, entries), ShownOn(P)) = Weighed(Values(other), CopiesOn(P)) + Weighed(entries, CopiesOn(P))
    BY <1>1, LandingWeighs
  <2> QED BY <2>2, <2>3, <2>4
<1> QED BY <1>2, <1>3 DEF AlikeShown

\* Those identities of P a place holds.
HeldBy(P, place) == {s \in P : s[4] = place}

\* What one place holds shows what the identities it holds do.
LEMMA PlaceWeighs ==
    ASSUME NEW list \in Seq(Kept), NEW place, NEW P
    PROVE  Weighed(Only(list, {one \in Range(list) : one.value.container = place}), ShownOn(P)) = Weighed(list, ShownOn(HeldBy(P, place)))
<1> DEFINE some == {one \in Range(list) : one.value.container = place}
           v == ShownOn(P)
           w == [one \in Kept |-> IF one \in some THEN v[one] ELSE 0]
           u == ShownOn(HeldBy(P, place))
<1>1. v \in [Kept -> Nat]
  BY ShownType
<1>2. DOMAIN list = 1 .. Len(list) /\ \A i \in DOMAIN list : list[i] \in Kept /\ list[i] \in Range(list)
  BY SeqParts DEF Range
<1>3. ASSUME NEW i \in DOMAIN list
      PROVE  w[list[i]] = u[list[i]]
  <2> DEFINE one == list[i]
  <2>1. one \in Kept /\ (one \in some <=> one.value.container = place)
    BY <1>2
  <2>2. w[one] = IF one \in some THEN v[one] ELSE 0
    BY <2>1
  <2> HIDE DEF one, some, w
  <2>3. v[one] = IF Stack(one.value) \in P THEN Shown(one) ELSE 0
    BY <2>1, ShownType
  <2>4. u[one] = IF Stack(one.value) \in HeldBy(P, place) THEN Shown(one) ELSE 0
    BY <2>1, ShownType
  <2> HIDE DEF u, v
  <2>5. Stack(one.value)[4] = one.value.container
    BY DEF Stack
  <2>6. Stack(one.value) \in HeldBy(P, place) <=> Stack(one.value) \in P /\ one \in some
    BY <2>1, <2>5 DEF HeldBy
  <2>7. w[one] = u[one]
    BY <2>2, <2>3, <2>4, <2>6
  <2> QED BY <2>7 DEF one
<1> HIDE DEF some, u, v
<1>4. Weighed(Only(list, some), v) = Weighed(list, w)
  BY <1>1, OnlyFacts
<1> HIDE DEF w
<1>5. Weighed(list, w) = Weighed(list, u)
  BY <1>3, WeighedSame
<1> QED BY <1>4, <1>5 DEF some, u, v

\* And in any scope of the page.
LEMMA WithinAlike ==
    ASSUME NEW a, NEW b, AlikeShown(a, b), NEW scope
    PROVE  AlikeShown(Within(a, scope), Within(b, scope))
<1> DEFINE place == IF scope = UNFILED THEN "" ELSE scope
           x == Only(a, {one \in Range(a) : one.value.container = place})
           y == Only(b, {one \in Range(b) : one.value.container = place})
<1>1. a \in Seq(Kept) /\ b \in Seq(Kept) /\ \A P : Weighed(a, ShownOn(P)) = Weighed(b, ShownOn(P))
  BY DEF AlikeShown
<1>2. CASE scope = ALL
  BY <1>2 DEF Within
<1>3. CASE scope # ALL
  <2>1. Within(a, scope) = x /\ Within(b, scope) = y
    BY <1>3 DEF Within
  <2>2. x \in Seq(Kept) /\ y \in Seq(Kept)
    <3>1. Within(a, scope) \in Seq(Kept) /\ Within(b, scope) \in Seq(Kept)
      BY <1>1, WithinType
    <3> QED BY <2>1, <3>1
  <2>3. ASSUME NEW P
        PROVE  Weighed(x, ShownOn(P)) = Weighed(y, ShownOn(P))
    <3> HIDE DEF place
    <3>1. Weighed(x, ShownOn(P)) = Weighed(a, ShownOn(HeldBy(P, place)))
      BY <1>1, PlaceWeighs
    <3>2. Weighed(y, ShownOn(P)) = Weighed(b, ShownOn(HeldBy(P, place)))
      BY <1>1, PlaceWeighs
    <3> QED BY <1>1, <3>1, <3>2
  <2> HIDE DEF x, y
  <2> QED BY <2>1, <2>2, <2>3 DEF AlikeShown
<1> QED BY <1>2, <1>3

-----------------------------------------------------------------------------
(* What a file counts.                                                     *)

COUNTED == {"scryfallId", "finish", "quantity"}

\* In each format the columns of the printing, the finish and the count are their own.
LEMMA ManaboxColumns ==
    \A field \in COUNTED : /\ field \in DOMAIN MANABOX.binding
                           /\ \A f \in DOMAIN MANABOX.binding : MANABOX.binding[f] = MANABOX.binding[field] => f = field
<1> DEFINE B == MANABOX.binding
<1>1. DOMAIN B = {"scryfallId", "name", "setCode", "setName", "collectorNumber", "rarity", "language", "finish", "quantity", "condition", "altered", "misprint", "signed", "proxy", "marketValue", "marketCurrency", "createdAt"}
  BY DEF MANABOX
<1>2. B["scryfallId"] = "Scryfall ID"
  BY DEF MANABOX
<1>3. B["name"] = "Name"
  BY DEF MANABOX
<1>4. B["setCode"] = "Set code"
  BY DEF MANABOX
<1>5. B["setName"] = "Set name"
  BY DEF MANABOX
<1>6. B["collectorNumber"] = "Collector number"
  BY DEF MANABOX
<1>7. B["rarity"] = "Rarity"
  BY DEF MANABOX
<1>8. B["language"] = "Language"
  BY DEF MANABOX
<1>9. B["finish"] = "Foil"
  BY DEF MANABOX
<1>10. B["quantity"] = "Quantity"
  BY DEF MANABOX
<1>11. B["condition"] = "Condition"
  BY DEF MANABOX
<1>12. B["altered"] = "Altered"
  BY DEF MANABOX
<1>13. B["misprint"] = "Misprint"
  BY DEF MANABOX
<1>14. B["signed"] = "Signed"
  BY DEF MANABOX
<1>15. B["proxy"] = "Proxy"
  BY DEF MANABOX
<1>16. B["marketValue"] = "Purchase price"
  BY DEF MANABOX
<1>17. B["marketCurrency"] = "Purchase price currency"
  BY DEF MANABOX
<1>18. B["createdAt"] = "Added"
  BY DEF MANABOX
<1> HIDE DEF B
<1>19. "scryfallId" \in DOMAIN B /\ \A f \in DOMAIN B : B[f] = B["scryfallId"] => f = "scryfallId"
  BY <1>1, <1>2, <1>3, <1>4, <1>5, <1>6, <1>7, <1>8, <1>9, <1>10, <1>11, <1>12, <1>13, <1>14, <1>15, <1>16, <1>17, <1>18
<1>20. "finish" \in DOMAIN B /\ \A f \in DOMAIN B : B[f] = B["finish"] => f = "finish"
  BY <1>1, <1>2, <1>3, <1>4, <1>5, <1>6, <1>7, <1>8, <1>9, <1>10, <1>11, <1>12, <1>13, <1>14, <1>15, <1>16, <1>17, <1>18
<1>21. "quantity" \in DOMAIN B /\ \A f \in DOMAIN B : B[f] = B["quantity"] => f = "quantity"
  BY <1>1, <1>2, <1>3, <1>4, <1>5, <1>6, <1>7, <1>8, <1>9, <1>10, <1>11, <1>12, <1>13, <1>14, <1>15, <1>16, <1>17, <1>18
<1> QED BY <1>19, <1>20, <1>21 DEF COUNTED, B

\* And in the other.
LEMMA ManawebColumns ==
    \A field \in COUNTED : /\ field \in DOMAIN MANAWEB.binding
                           /\ \A f \in DOMAIN MANAWEB.binding : MANAWEB.binding[f] = MANAWEB.binding[field] => f = field
<1> DEFINE B == MANAWEB.binding
<1>1. DOMAIN B = {"scryfallId", "name", "setCode", "setName", "collectorNumber", "rarity", "language", "finish", "quantity", "condition", "container", "proxy", "tags", "note", "price", "currency", "marketValue", "marketCurrency", "acquiredAt", "createdAt", "updatedAt"}
  BY DEF MANAWEB
<1>2. B["scryfallId"] = "Scryfall ID"
  BY DEF MANAWEB
<1>3. B["name"] = "Name"
  BY DEF MANAWEB
<1>4. B["setCode"] = "Set code"
  BY DEF MANAWEB
<1>5. B["setName"] = "Set name"
  BY DEF MANAWEB
<1>6. B["collectorNumber"] = "Collector number"
  BY DEF MANAWEB
<1>7. B["rarity"] = "Rarity"
  BY DEF MANAWEB
<1>8. B["language"] = "Language"
  BY DEF MANAWEB
<1>9. B["finish"] = "Finish"
  BY DEF MANAWEB
<1>10. B["quantity"] = "Quantity"
  BY DEF MANAWEB
<1>11. B["condition"] = "Condition"
  BY DEF MANAWEB
<1>12. B["container"] = "Container"
  BY DEF MANAWEB
<1>13. B["proxy"] = "Proxy"
  BY DEF MANAWEB
<1>14. B["tags"] = "Tags"
  BY DEF MANAWEB
<1>15. B["note"] = "Note"
  BY DEF MANAWEB
<1>16. B["price"] = "Price"
  BY DEF MANAWEB
<1>17. B["currency"] = "Price currency"
  BY DEF MANAWEB
<1>18. B["marketValue"] = "Market value"
  BY DEF MANAWEB
<1>19. B["marketCurrency"] = "Market value currency"
  BY DEF MANAWEB
<1>20. B["acquiredAt"] = "Acquired"
  BY DEF MANAWEB
<1>21. B["createdAt"] = "Added"
  BY DEF MANAWEB
<1>22. B["updatedAt"] = "Updated"
  BY DEF MANAWEB
<1> HIDE DEF B
<1>23. "scryfallId" \in DOMAIN B /\ \A f \in DOMAIN B : B[f] = B["scryfallId"] => f = "scryfallId"
  BY <1>1, <1>2, <1>3, <1>4, <1>5, <1>6, <1>7, <1>8, <1>9, <1>10, <1>11, <1>12, <1>13, <1>14, <1>15, <1>16, <1>17, <1>18, <1>19, <1>20, <1>21, <1>22
<1>24. "finish" \in DOMAIN B /\ \A f \in DOMAIN B : B[f] = B["finish"] => f = "finish"
  BY <1>1, <1>2, <1>3, <1>4, <1>5, <1>6, <1>7, <1>8, <1>9, <1>10, <1>11, <1>12, <1>13, <1>14, <1>15, <1>16, <1>17, <1>18, <1>19, <1>20, <1>21, <1>22
<1>25. "quantity" \in DOMAIN B /\ \A f \in DOMAIN B : B[f] = B["quantity"] => f = "quantity"
  BY <1>1, <1>2, <1>3, <1>4, <1>5, <1>6, <1>7, <1>8, <1>9, <1>10, <1>11, <1>12, <1>13, <1>14, <1>15, <1>16, <1>17, <1>18, <1>19, <1>20, <1>21, <1>22
<1> QED BY <1>23, <1>24, <1>25 DEF COUNTED, B

\* The columns of the printing, the finish and the count are told apart.
LEMMA CountedColumns ==
    ASSUME NEW at \in DOMAIN FORMATS, NEW field \in COUNTED
    PROVE  LET column == FORMATS[at].binding[field]
           IN  column \in Columns(FORMATS[at]) /\ column \in DOMAIN FieldsOf(FORMATS[at]) /\ FieldsOf(FORMATS[at])[column] = field
<1> DEFINE B == FORMATS[at].binding
           column == B[field]
<1>1. FORMATS[at] \in {MANABOX, MANAWEB}
  BY DEF FORMATS
<1>2. field \in DOMAIN B /\ \A f \in DOMAIN B : B[f] = column => f = field
  <2>1. CASE FORMATS[at] = MANABOX
    BY <2>1, ManaboxColumns
  <2>2. CASE FORMATS[at] = MANAWEB
    BY <2>2, ManawebColumns
  <2> QED BY <1>1, <2>1, <2>2
<1>3. column \in Range(B)
  BY <1>2 DEF Range
<1>4. FieldsOf(FORMATS[at]) = [each \in Range(B) |-> CHOOSE f \in DOMAIN B : B[f] = each]
  BY DEF FieldsOf
<1>5. Columns(FORMATS[at]) = Range(B) \cup FORMATS[at].issued
  BY DEF Columns
<1> HIDE DEF B
<1>6. FieldsOf(FORMATS[at])[column] = CHOOSE f \in DOMAIN B : B[f] = column
  BY <1>3, <1>4
<1>7. (CHOOSE f \in DOMAIN B : B[f] = column) = field
  BY <1>2
<1>8. column \in Columns(FORMATS[at]) /\ column \in DOMAIN FieldsOf(FORMATS[at]) /\ FieldsOf(FORMATS[at])[column] = field
  BY <1>3, <1>4, <1>5, <1>6, <1>7
<1> QED BY <1>8 DEF B

\* The printing and finish a row of a stack says.
Printed(one) == <<one.scryfallId, Foil(one.finish)>>
PrintOn(at, row) == <<row[FORMATS[at].binding["scryfallId"]], row[FORMATS[at].binding["finish"]]>>
CountOn(at, row) == row[FORMATS[at].binding["quantity"]]

\* A row says the printing and finish of its stack and the copies of its lot.
LEMMA RowSays ==
    ASSUME NEW at \in DOMAIN FORMATS, NEW one, NEW lot, NEW english
    PROVE  /\ PrintOn(at, RowOf(one, lot, FORMATS[at], english)) = Printed(one)
           /\ CountOn(at, RowOf(one, lot, FORMATS[at], english)) = lot.quantity
<1> DEFINE format == FORMATS[at]
           B == format.binding
           row == RowOf(one, lot, format, english)
           said == SaidOf(one, format, english)
<1>1. \A field \in COUNTED : row[B[field]] = Cell(field, one, lot, Places, said)
  <2> TAKE field \in COUNTED
  <2> DEFINE column == B[field]
  <2>1. column \in Columns(format) /\ column \in DOMAIN FieldsOf(format) /\ FieldsOf(format)[column] = field
    BY CountedColumns
  <2>2. row = [each \in Columns(format) |->
                  IF each \in DOMAIN FieldsOf(format) THEN Cell(FieldsOf(format)[each], one, lot, Places, said) ELSE ""]
    BY DEF RowOf
  <2> HIDE DEF column, said, row, format
  <2>3. row[column] = Cell(field, one, lot, Places, said)
    BY <2>1, <2>2
  <2> QED BY <2>3 DEF column
<1> HIDE DEF said, row
<1>2. row[B["scryfallId"]] = one.scryfallId
  <2>1. Cell("scryfallId", one, lot, Places, said) = one.scryfallId
    BY DEF Cell
  <2> QED BY <1>1, <2>1 DEF COUNTED
<1>3. row[B["finish"]] = Foil(one.finish)
  <2>1. Cell("finish", one, lot, Places, said) = Foil(one.finish)
    BY DEF Cell
  <2> QED BY <1>1, <2>1 DEF COUNTED
<1>4. row[B["quantity"]] = lot.quantity
  <2>1. Cell("quantity", one, lot, Places, said) = lot.quantity
    BY DEF Cell
  <2> QED BY <1>1, <2>1 DEF COUNTED
<1> QED BY <1>2, <1>3, <1>4 DEF PrintOn, CountOn, Printed, row

\* The identities of a printing and finish.
PrintsOf(key) == {Stack(one) : one \in {each \in Owned : Printed(each) = key}}

\* A stack is among those of a printing and finish when that is its own.
LEMMA PrintsFacts ==
    ASSUME NEW one \in Owned, NEW key
    PROVE  Stack(one) \in PrintsOf(key) <=> Printed(one) = key
<1>1. ASSUME NEW each \in Owned, Stack(each) = Stack(one)
      PROVE  Printed(each) = Printed(one)
  <2>1. Stack(each)[1] = each.scryfallId /\ Stack(one)[1] = one.scryfallId
    BY DEF Stack
  <2>2. Stack(each)[2] = each.finish /\ Stack(one)[2] = one.finish
    BY DEF Stack
  <2>3. each.scryfallId = one.scryfallId /\ each.finish = one.finish
    BY <1>1, <2>1, <2>2
  <2> QED BY <2>3 DEF Printed
<1>2. ASSUME Printed(one) = key PROVE Stack(one) \in PrintsOf(key)
  BY <1>2 DEF PrintsOf
<1>3. ASSUME Stack(one) \in PrintsOf(key) PROVE Printed(one) = key
  <2>1. PICK each \in Owned : Printed(each) = key /\ Stack(each) = Stack(one)
    BY <1>3 DEF PrintsOf
  <2> QED BY <1>1, <2>1
<1> QED BY <1>2, <1>3

\* The rows an export may write, and what is counted of each.
IsSaid(E, at, english) == E = {RowOf(one, lot, FORMATS[at], english) : one \in Owned, lot \in Lots}
Prints(E, at) == [row \in E |-> PrintOn(at, row)]
Counts(E, at) == [row \in E |-> CountOn(at, row)]

\* What is counted of a row is a copy or more.
LEMMA CountsType ==
    ASSUME NEW at \in DOMAIN FORMATS, NEW english, NEW E, IsSaid(E, at, english)
    PROVE  Counts(E, at) \in [E -> Nat \ {0}] /\ \A key : On(E, Prints(E, at), Counts(E, at), key) \in [E -> Nat]
<1>1. \A row \in E : CountOn(at, row) \in Nat \ {0}
  <2> TAKE row \in E
  <2>1. PICK one \in Owned, lot \in Lots : row = RowOf(one, lot, FORMATS[at], english)
    BY DEF IsSaid
  <2>2. CountOn(at, row) = lot.quantity
    BY <2>1, RowSays
  <2> QED BY <2>2 DEF Lots
<1>2. Counts(E, at) \in [E -> Nat \ {0}]
  BY <1>1 DEF Counts
<1> DEFINE q == Counts(E, at)
           k == Prints(E, at)
<1> HIDE DEF q, k
<1>3. \A key : On(E, k, q, key) \in [E -> Nat]
  <2>1. \A e \in E : q[e] \in Nat
    BY <1>2 DEF q
  <2> QED BY <2>1 DEF On
<1> QED BY <1>2, <1>3 DEF q, k

\* The rows of a stack count as many copies as the page shows of it.
LEMMA LineWeighs ==
    ASSUME NEW at \in DOMAIN FORMATS, NEW english, NEW E, IsSaid(E, at, english),
           NEW out \in Seq(Kept), NEW i \in DOMAIN out, NEW key
    PROVE  /\ LinesOf(out, FORMATS[at], english)[i] \in Seq(E)
           /\ Weighed(LinesOf(out, FORMATS[at], english)[i], On(E, Prints(E, at), Counts(E, at), key)) = ShownOn(PrintsOf(key))[out[i]]
<1> DEFINE format == FORMATS[at]
           one == out[i].value
           count == Shown(out[i])
           lots == LotsOf(out, i, format)
           line == LinesOf(out, format, english)[i]
           w == On(E, Prints(E, at), Counts(E, at), key)
<1>1. out[i] \in Kept
  BY SeqParts
<1>2. one \in Owned /\ count \in Nat
  BY <1>1, ShownType
<1>3. one.acquisitions \in Seq(Acquisition)
  BY <1>2 DEF Owned
<1>4. lots = Split(count, one.acquisitions, format).lots
  BY DEF LotsOf, SpentOf
<1>5. line = [j \in DOMAIN lots |-> RowOf(one, lots[j], format, english)]
  BY DEF LinesOf
<1>6. ShownOn(PrintsOf(key))[out[i]] = IF Stack(one) \in PrintsOf(key) THEN count ELSE 0
  BY <1>1, ShownType
<1>7. Stack(one) \in PrintsOf(key) <=> Printed(one) = key
  BY <1>2, PrintsFacts
<1> HIDE DEF count, lots, line, one
<1>8. lots \in Seq(Lots) /\ Weighed(lots, Quantity) = count
  BY <1>2, <1>3, <1>4, SplitCounts
<1>9. DOMAIN lots = 1 .. Len(lots) /\ Len(lots) \in Nat /\ \A j \in 1 .. Len(lots) : lots[j] \in Lots
  BY <1>8, SeqParts
<1>10. ASSUME NEW j \in DOMAIN lots
       PROVE  line[j] \in E /\ w[line[j]] = IF Printed(one) = key THEN Quantity[lots[j]] ELSE 0
  <2>1. line[j] = RowOf(one, lots[j], format, english) /\ lots[j] \in Lots
    BY <1>5, <1>9
  <2>2. line[j] \in E
    BY <1>2, <2>1 DEF IsSaid
  <2>3. PrintOn(at, line[j]) = Printed(one) /\ CountOn(at, line[j]) = lots[j].quantity
    BY <2>1, RowSays
  <2>4. Quantity[lots[j]] = lots[j].quantity
    BY <2>1 DEF Quantity
  <2>5. w[line[j]] = IF PrintOn(at, line[j]) = key THEN CountOn(at, line[j]) ELSE 0
    <3> DEFINE row == line[j]
    <3> HIDE DEF row
    <3>1. row \in E
      BY <2>2 DEF row
    <3>2. w[row] = IF PrintOn(at, row) = key THEN CountOn(at, row) ELSE 0
      BY <3>1 DEF On, Prints, Counts
    <3> QED BY <3>2 DEF row
  <2> QED BY <2>2, <2>3, <2>4, <2>5
<1>11. DOMAIN line = DOMAIN lots
  BY <1>5
<1>12. line \in Seq(E)
  <2>1. line = [j \in 1 .. Len(lots) |-> line[j]]
    BY <1>5, <1>9
  <2> QED BY <1>9, <1>10, <2>1
<1>13. w \in [E -> Nat]
  BY CountsType
<1> HIDE DEF w
<1>14. CASE Printed(one) = key
  <2>1. \A j \in DOMAIN line : w[line[j]] = Quantity[lots[j]]
    BY <1>10, <1>11, <1>14
  <2>2. Weighed(line, w) = Weighed(lots, Quantity)
    BY <1>11, <2>1, WeighedSame
  <2>3. Weighed(line, w) = ShownOn(PrintsOf(key))[out[i]]
    BY <1>6, <1>7, <1>8, <1>14, <2>2
  <2> QED BY <1>12, <2>3 DEF line, w
<1>15. CASE Printed(one) # key
  <2>1. \A j \in DOMAIN line : w[line[j]] = 0
    BY <1>10, <1>11, <1>15
  <2>2. Weighable(E, line, w)
    BY <1>12, <1>13 DEF Weighable
  <2>3. Weighed(line, w) = 0
    BY <2>1, <2>2, WeighedLone
  <2>4. Weighed(line, w) = ShownOn(PrintsOf(key))[out[i]]
    BY <1>6, <1>7, <1>15, <2>3
  <2> QED BY <1>12, <2>4 DEF line, w
<1> QED BY <1>14, <1>15

\* A list in the order of a file weighs what it did.
LEMMA SortedWeighs ==
    ASSUME NEW list \in Seq(Kept), NEW w \in [Kept -> Nat]
    PROVE  Weighed(Sorted(list), w) = Weighed(list, w)
<1> DEFINE order == Arranged(Len(list), {at \in (DOMAIN list) \X (DOMAIN list) : Before(list[at[1]], list[at[2]])})
<1>1. IsOrder(order, Len(list))
  BY SeqParts, ArrangedOrder
<1>2. Sorted(list) = Reordered(list, order)
  BY DEF Sorted, InOrder, Reordered
<1> HIDE DEF order
<1>3. Reordered(list, order) \in Seq(Kept) /\ \E p : IsShuffle(Reordered(list, order), list, p)
  BY <1>1, ReorderedFacts
<1>4. PICK p : IsShuffle(Reordered(list, order), list, p)
  BY <1>3
<1> DEFINE other == Reordered(list, order)
<1> HIDE DEF other
<1>5. other \in Seq(Kept) /\ IsShuffle(other, list, p)
  BY <1>3, <1>4 DEF other
<1>6. Weighed(other, w) = Weighed(list, w)
  BY <1>5, WeighedMoved
<1> QED BY <1>2, <1>6 DEF other

\* The rows of a file count of each printing and finish what the page shows.
LEMMA RowsWeigh ==
    ASSUME NEW at \in DOMAIN FORMATS, NEW english, NEW E, IsSaid(E, at, english), NEW of \in Seq(Kept)
    PROVE  LET rows == Rows(of, FORMATS[at], Places, english).rows
           IN  /\ rows \in Seq(E)
               /\ \A key : Weighed(rows, On(E, Prints(E, at), Counts(E, at), key)) = Weighed(of, ShownOn(PrintsOf(key)))
<1> DEFINE some == {one \in Range(of) : Shown(one) >= 1}
           kept == Only(of, some)
           out == Sorted(kept)
           lines == LinesOf(out, FORMATS[at], english)
           rows == Rows(of, FORMATS[at], Places, english).rows
<1>1. rows = FlattenSeq(lines)
  BY RowsAre
<1>2. kept \in Seq(Kept)
  BY OnlyType
<1> HIDE DEF kept
<1>3. out \in Seq(Kept)
  BY <1>2, SortedType
<1>4. DOMAIN lines = DOMAIN out
  BY DEF LinesOf
<1> HIDE DEF out
<1>5. \A i \in DOMAIN out : lines[i] \in Seq(E)
                            /\ \A key : Weighed(lines[i], On(E, Prints(E, at), Counts(E, at), key)) = ShownOn(PrintsOf(key))[out[i]]
  BY <1>3, LineWeighs
<1> HIDE DEF lines, rows
<1>6. lines \in Seq(Seq(E))
  <2>1. DOMAIN out = 1 .. Len(out) /\ Len(out) \in Nat
    BY <1>3, SeqParts
  <2>2. lines = [i \in 1 .. Len(out) |-> lines[i]]
    <3>1. lines = [i \in DOMAIN lines |-> lines[i]]
      BY DEF lines, LinesOf
    <3> QED BY <1>4, <2>1, <3>1
  <2> QED BY <1>5, <2>1, <2>2
<1>7. rows \in Seq(E)
  BY <1>1, <1>6, FlattenType
<1>8. ASSUME NEW key
      PROVE  Weighed(rows, On(E, Prints(E, at), Counts(E, at), key)) = Weighed(of, ShownOn(PrintsOf(key)))
  <2> DEFINE w == On(E, Prints(E, at), Counts(E, at), key)
             v == ShownOn(PrintsOf(key))
             W == [one \in Seq(E) |-> Weighed(one, w)]
             u == [one \in Kept |-> IF one \in some THEN v[one] ELSE 0]
  <2>1. w \in [E -> Nat]
    BY CountsType
  <2>2. v \in [Kept -> Nat]
    BY ShownType
  <2>3. \A i \in DOMAIN out : lines[i] \in Seq(E) /\ Weighed(lines[i], w) = v[out[i]]
    BY <1>5
  <2> HIDE DEF w
  <2>4. Weighed(rows, w) = Weighed(lines, W)
    BY <1>1, <1>6, <2>1, WeighedFlat
  <2>5. \A i \in DOMAIN out : W[lines[i]] = v[out[i]]
    BY <2>3
  <2> HIDE DEF v, W
  <2>6. Weighed(lines, W) = Weighed(out, v)
    BY <1>4, <2>5, WeighedSame
  <2>7. Weighed(out, v) = Weighed(kept, v)
    BY <1>2, <2>2, SortedWeighs DEF out
  <2>8. Weighed(kept, v) = Weighed(of, u)
    BY <2>2, OnlyFacts DEF kept
  <2>9. \A i \in DOMAIN of : u[of[i]] = v[of[i]]
    <3> TAKE i \in DOMAIN of
    <3> DEFINE one == of[i]
    <3>1. one \in Kept /\ one \in Range(of)
      BY SeqParts DEF Range
    <3> HIDE DEF one
    <3>2. v[one] = (IF Stack(one.value) \in PrintsOf(key) THEN Shown(one) ELSE 0) /\ Shown(one) \in Nat
      BY <3>1, ShownType DEF v
    <3>3. one \notin some => Shown(one) = 0
      BY <3>1, <3>2
    <3>4. u[one] = IF one \in some THEN v[one] ELSE 0
      BY <3>1
    <3> HIDE DEF some, u
    <3>5. u[one] = v[one]
      BY <3>2, <3>3, <3>4
    <3> QED BY <3>5 DEF one
  <2> HIDE DEF u
  <2>10. Weighed(of, u) = Weighed(of, v)
    BY <2>9, WeighedSame
  <2> QED BY <2>4, <2>6, <2>7, <2>8, <2>10 DEF w, v
<1> QED BY <1>7, <1>8 DEF rows

\* The stacks there are copies of, and what is counted of each.
Counting == {one \in Owned : one.quantity \in Nat \ {0}}
PrintedOf == [one \in Counting |-> Printed(one)]
CopiesHeld == [one \in Counting |-> one.quantity]

\* Each stack as a page shows it, with the copies still waiting.
LEMMA WholeFacts ==
    ASSUME NEW truth \in Seq(Kept)
    PROVE  /\ Whole(truth) \in Seq(Owned) /\ DOMAIN Whole(truth) = DOMAIN truth
           /\ \A i \in DOMAIN truth : /\ Whole(truth)[i].quantity = Shown(truth[i])
                                      /\ Stack(Whole(truth)[i]) = Stack(truth[i].value)
<1> DEFINE whole == Whole(truth)
<1>1. DOMAIN truth = 1 .. Len(truth) /\ Len(truth) \in Nat /\ \A i \in DOMAIN truth : truth[i] \in Kept
  BY SeqParts
<1>2. whole = [i \in DOMAIN truth |-> [truth[i].value EXCEPT !.quantity = Shown(truth[i])]]
  BY DEF Whole
<1> HIDE DEF whole
<1>3. ASSUME NEW i \in DOMAIN truth
      PROVE  whole[i] \in Owned /\ whole[i].quantity = Shown(truth[i]) /\ Stack(whole[i]) = Stack(truth[i].value)
  <2> DEFINE value == truth[i].value
             count == Shown(truth[i])
             more == [value EXCEPT !.quantity = count]
  <2>1. whole[i] = more
    BY <1>2
  <2>2. value \in Owned /\ count \in Nat
    BY <1>1, ShownType
  <2> HIDE DEF value, count
  <2>3. more \in Owned /\ more.quantity = count
    BY <2>2 DEF Owned
  <2>4. Stack(more) = Stack(value)
    BY <2>2 DEF Owned, Stack
  <2> HIDE DEF more
  <2> QED BY <2>1, <2>3, <2>4 DEF value, count
<1>4. whole \in Seq(Owned)
  <2>1. whole = [i \in 1 .. Len(truth) |-> whole[i]]
    BY <1>1, <1>2
  <2> QED BY <1>1, <1>3, <2>1
<1> QED BY <1>2, <1>3, <1>4 DEF whole

\* And so do the stacks counted.
LEMMA CountedWeighs ==
    ASSUME NEW truth \in Seq(Kept)
    PROVE  /\ Counted(truth) \in Seq(Counting)
           /\ \A key : Weighed(Counted(truth), On(Counting, PrintedOf, CopiesHeld, key)) = Weighed(truth, ShownOn(PrintsOf(key)))
<1> DEFINE whole == Whole(truth)
           some == {each \in Range(whole) : each.quantity > 0}
           counted == Counted(truth)
<1>1. counted = Only(whole, some)
  BY DEF Counted
<1>2. /\ whole \in Seq(Owned) /\ DOMAIN whole = DOMAIN truth
      /\ \A i \in DOMAIN truth : whole[i].quantity = Shown(truth[i]) /\ Stack(whole[i]) = Stack(truth[i].value)
  BY WholeFacts
<1> HIDE DEF whole, counted
<1>3. counted \in Seq(Owned)
  BY <1>1, <1>2, OnlyType
<1>4. DOMAIN counted = 1 .. Len(counted) /\ Len(counted) \in Nat /\ \A i \in 1 .. Len(counted) : counted[i] \in Owned
  BY <1>3, SeqParts
<1>5. Copies \in [Owned -> Nat]
  BY Additives DEF IsAdditive
<1>6. Range(counted) = Range(whole) \cap some
  BY <1>1, <1>2, <1>5, OnlyFacts
<1>7. \A i \in DOMAIN counted : counted[i] \in Counting
  <2> TAKE i \in DOMAIN counted
  <2> DEFINE one == counted[i]
  <2>1. one \in Range(counted) /\ one \in Owned
    BY <1>4 DEF Range
  <2> HIDE DEF one
  <2>2. one.quantity > 0
    BY <1>6, <2>1
  <2>3. one.quantity \in Nat
    BY <2>1 DEF Owned
  <2>4. one \in Counting
    BY <2>1, <2>2, <2>3 DEF Counting
  <2> QED BY <2>4 DEF one
<1>8. counted \in Seq(Counting)
  <2>1. counted = [i \in 1 .. Len(counted) |-> counted[i]]
    BY <1>3
  <2> QED BY <1>4, <1>7, <2>1
<1>9. ASSUME NEW key
      PROVE  Weighed(counted, On(Counting, PrintedOf, CopiesHeld, key)) = Weighed(truth, ShownOn(PrintsOf(key)))
  <2> DEFINE v == On(Counting, PrintedOf, CopiesHeld, key)
             w == [one \in Owned |-> IF Printed(one) = key THEN one.quantity ELSE 0]
             x == [one \in Owned |-> IF one \in some THEN w[one] ELSE 0]
             u == ShownOn(PrintsOf(key))
  <2>1. w \in [Owned -> Nat]
    BY DEF Owned
  <2>2. \A i \in DOMAIN counted : v[counted[i]] = w[counted[i]]
    <3> TAKE i \in DOMAIN counted
    <3> DEFINE one == counted[i]
    <3>1. one \in Counting /\ one \in Owned
      BY <1>7 DEF Counting
    <3> HIDE DEF one
    <3>2. v[one] = IF Printed(one) = key THEN one.quantity ELSE 0
      BY <3>1 DEF On, PrintedOf, CopiesHeld
    <3>3. w[one] = IF Printed(one) = key THEN one.quantity ELSE 0
      BY <3>1
    <3> HIDE DEF v, w
    <3> QED BY <3>2, <3>3 DEF one
  <2> HIDE DEF v
  <2>3. Weighed(counted, v) = Weighed(counted, w)
    <3> HIDE DEF w
    <3> QED BY <2>2, WeighedSame
  <2>4. Weighed(counted, w) = Weighed(whole, x)
    <3> HIDE DEF w, some
    <3> QED BY <1>1, <1>2, <2>1, OnlyFacts
  <2>5. \A i \in DOMAIN whole : x[whole[i]] = u[truth[i]]
    <3> TAKE i \in DOMAIN whole
    <3> DEFINE one == whole[i]
               as == truth[i]
    <3>1. one \in Owned /\ one \in Range(whole) /\ as \in Kept
      BY <1>2, SeqParts DEF Range
    <3>2. one.quantity = Shown(as) /\ Stack(one) = Stack(as.value)
      BY <1>2
    <3> HIDE DEF one, as
    <3>3. Shown(as) \in Nat /\ u[as] = IF Stack(as.value) \in PrintsOf(key) THEN Shown(as) ELSE 0
      BY <3>1, ShownType
    <3>4. Stack(one) \in PrintsOf(key) <=> Printed(one) = key
      BY <3>1, PrintsFacts
    <3>5. one \in some <=> one.quantity > 0
      BY <3>1
    <3>6. w[one] = IF Printed(one) = key THEN one.quantity ELSE 0
      BY <3>1
    <3>7. x[one] = IF one \in some THEN w[one] ELSE 0
      BY <3>1
    <3> HIDE DEF some, w, x, u
    <3>8. x[one] = u[as]
      <4> DEFINE n == Shown(as)
      <4> HIDE DEF n
      <4>1. n \in Nat /\ one.quantity = n
        BY <3>2, <3>3 DEF n
      <4>2. u[as] = IF Printed(one) = key THEN n ELSE 0
        BY <3>2, <3>3, <3>4 DEF n
      <4>3. CASE one \in some
        BY <3>6, <3>7, <4>1, <4>2, <4>3
      <4>4. CASE one \notin some
        <5>1. n = 0
          BY <3>5, <4>1, <4>4
        <5> QED BY <3>7, <4>2, <4>4, <5>1
      <4> QED BY <4>3, <4>4
    <3> QED BY <3>8 DEF one, as
  <2> HIDE DEF x, u
  <2>6. Weighed(whole, x) = Weighed(truth, u)
    BY <1>2, <2>5, WeighedSame
  <2> QED BY <2>3, <2>4, <2>6 DEF v, u
<1> QED BY <1>8, <1>9 DEF counted

\* Copies by what is said of each place of a list, as CopiesBy has them.
LEMMA TallyIs ==
    ASSUME NEW E, NEW list, NEW k, NEW q, IsTold(E, list, k, q), NEW said, NEW rows,
           DOMAIN said = DOMAIN list, DOMAIN rows = DOMAIN list,
           \A i \in DOMAIN list : said[i] = k[list[i]] /\ rows[i].quantity = q[list[i]]
    PROVE  [key \in Range(said) |-> SumFunction([i \in DOMAIN rows |-> IF said[i] = key THEN rows[i].quantity ELSE 0])] = Tally(list, k, q)
<1> DEFINE K == {k[list[i]] : i \in DOMAIN list}
<1>1. Range(said) = K
  BY DEF Range
<1>2. \A key : [i \in DOMAIN rows |-> IF said[i] = key THEN rows[i].quantity ELSE 0]
               = [i \in DOMAIN list |-> IF k[list[i]] = key THEN q[list[i]] ELSE 0]
  OBVIOUS
<1>3. \A key : SumFunction([i \in DOMAIN rows |-> IF said[i] = key THEN rows[i].quantity ELSE 0])
               = SumFunction([i \in DOMAIN list |-> IF k[list[i]] = key THEN q[list[i]] ELSE 0])
  BY <1>2
<1> QED BY <1>1, <1>3 DEF Tally

\* What NeverShort says of a file.
CountsAll(at, text, truth) ==
    LET binding == FORMATS[at].binding
        rows == [i \in DOMAIN text.rows |->
                [one |-> text.rows[i], quantity |-> text.rows[i][binding["quantity"]]]]
    IN  CopiesBy(rows, LAMBDA row : <<row.one[binding["scryfallId"]], row.one[binding["finish"]]>>)
        = CopiesBy(Counted(truth), LAMBDA each : <<each.scryfallId, Foil(each.finish)>>)

\* A file of what is shown counts what there is to count.
LEMMA FileTally ==
    ASSUME NEW at \in DOMAIN FORMATS, NEW english, NEW of \in Seq(Kept), NEW truth, AlikeShown(of, truth),
           NEW text, text = Rows(of, FORMATS[at], Places, english)
    PROVE  CountsAll(at, text, truth)
<1> DEFINE E == {RowOf(one, lot, FORMATS[at], english) : one \in Owned, lot \in Lots}
           k == Prints(E, at)
           q == Counts(E, at)
           list == text.rows
           other == Counted(truth)
           binding == FORMATS[at].binding
           rows == [i \in DOMAIN list |-> [one |-> list[i], quantity |-> list[i][binding["quantity"]]]]
           said == [i \in DOMAIN rows |-> <<rows[i].one[binding["scryfallId"]], rows[i].one[binding["finish"]]>>]
           named == [i \in DOMAIN other |-> <<other[i].scryfallId, Foil(other[i].finish)>>]
<1>0. of \in Seq(Kept) /\ truth \in Seq(Kept) /\ \A key : Weighed(of, ShownOn(PrintsOf(key))) = Weighed(truth, ShownOn(PrintsOf(key)))
  BY DEF AlikeShown
<1>1. IsSaid(E, at, english)
  BY DEF IsSaid
<1> HIDE DEF E
<1>2. list \in Seq(E) /\ \A key : Weighed(list, On(E, k, q, key)) = Weighed(of, ShownOn(PrintsOf(key)))
  BY <1>0, <1>1, RowsWeigh
<1>3. other \in Seq(Counting)
      /\ \A key : Weighed(other, On(Counting, PrintedOf, CopiesHeld, key)) = Weighed(truth, ShownOn(PrintsOf(key)))
  BY <1>0, CountedWeighs
<1>4. IsTold(E, list, k, q)
  BY <1>1, <1>2, CountsType DEF IsTold
<1>5. IsTold(Counting, other, PrintedOf, CopiesHeld)
  BY <1>3 DEF IsTold, CopiesHeld, Counting
<1>6. \A i \in DOMAIN list : list[i] \in E
  BY <1>2, SeqParts
<1>7. \A i \in DOMAIN other : other[i] \in Counting
  BY <1>3, SeqParts
<1> HIDE DEF list, other, binding
<1>8. \A i \in DOMAIN list : rows[i].quantity = q[list[i]] /\ said[i] = k[list[i]]
  <2> TAKE i \in DOMAIN list
  <2>1. rows[i].one = list[i] /\ rows[i].quantity = list[i][binding["quantity"]]
    OBVIOUS
  <2>2. said[i] = <<list[i][binding["scryfallId"]], list[i][binding["finish"]]>>
    BY <2>1
  <2> HIDE DEF rows, said
  <2>3. k[list[i]] = PrintOn(at, list[i]) /\ q[list[i]] = CountOn(at, list[i])
    BY <1>6 DEF Prints, Counts
  <2> QED BY <2>1, <2>2, <2>3 DEF PrintOn, CountOn, binding
<1>9. DOMAIN rows = DOMAIN list /\ DOMAIN said = DOMAIN list
  OBVIOUS
<1>10. CopiesBy(rows, LAMBDA row : <<row.one[binding["scryfallId"]], row.one[binding["finish"]]>>)
       = [key \in Range(said) |-> SumFunction([i \in DOMAIN rows |-> IF said[i] = key THEN rows[i].quantity ELSE 0])]
  BY DEF CopiesBy
<1>11. \A i \in DOMAIN other : named[i] = PrintedOf[other[i]] /\ other[i].quantity = CopiesHeld[other[i]]
  BY <1>7 DEF PrintedOf, Printed, CopiesHeld
<1>12. DOMAIN named = DOMAIN other
  OBVIOUS
<1>13. CopiesBy(other, LAMBDA each : <<each.scryfallId, Foil(each.finish)>>)
       = [key \in Range(named) |-> SumFunction([i \in DOMAIN other |-> IF named[i] = key THEN other[i].quantity ELSE 0])]
  BY DEF CopiesBy
<1> HIDE DEF rows, said, named, k, q
<1>14. [key \in Range(said) |-> SumFunction([i \in DOMAIN rows |-> IF said[i] = key THEN rows[i].quantity ELSE 0])] = Tally(list, k, q)
  BY <1>4, <1>8, <1>9, TallyIs
<1>15. [key \in Range(named) |-> SumFunction([i \in DOMAIN other |-> IF named[i] = key THEN other[i].quantity ELSE 0])]
       = Tally(other, PrintedOf, CopiesHeld)
  BY <1>5, <1>11, <1>12, TallyIs
<1>16. \A key : Weighed(list, On(E, k, q, key)) = Weighed(other, On(Counting, PrintedOf, CopiesHeld, key))
  BY <1>0, <1>2, <1>3 DEF list, other, k, q
<1>17. Tally(list, k, q) = Tally(other, PrintedOf, CopiesHeld)
  BY <1>4, <1>5, <1>16, TallyAlike
<1>18. CopiesBy(rows, LAMBDA row : <<row.one[binding["scryfallId"]], row.one[binding["finish"]]>>)
       = CopiesBy(other, LAMBDA each : <<each.scryfallId, Foil(each.finish)>>)
  BY <1>10, <1>13, <1>14, <1>15, <1>17
<1> QED BY <1>18 DEF rows, list, other, binding, CountsAll

=============================================================================
