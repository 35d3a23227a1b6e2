----------------------------- MODULE FoldFacts -----------------------------
(***************************************************************************)
(* What the folds of the community modules compute, as facts a proof can   *)
(* cite.  A fold is a function defined by itself on the subsets of a set:  *)
(* that there is one has to be proved before anything is known of it.      *)
(***************************************************************************)
EXTENDS Integers, FiniteSetsExt, Functions, FiniteSetTheorems, SequenceTheorems, WellFoundedInduction, TLAPS

\* Induction over the numbers, for a set of them.
LEMMA NatSetInduction ==
    ASSUME NEW T, 0 \in T, \A n \in Nat : n \in T => n + 1 \in T
    PROVE  \A n \in Nat : n \in T
<1>1. SUFFICES ASSUME NEW n \in Nat, n \notin T PROVE FALSE
  OBVIOUS
<1> DEFINE Bad == {m \in Nat : m \notin T}
<1>2. PICK m \in Bad : \A k \in Bad : ~(<<k, m>> \in OpToRel(<, Nat))
  <2>1. Bad \subseteq Nat /\ Bad # {}
    BY <1>1
  <2> HIDE DEF Bad
  <2> QED BY <2>1, WFMin, NatLessThanWellFounded
<1>3. m \in Nat /\ m \notin T /\ m # 0 /\ \A k \in Nat : k \notin T => ~(k < m)
  BY <1>2 DEF OpToRel
<1>4. m - 1 \in Nat /\ m - 1 < m /\ m - 1 + 1 = m
  BY <1>3
<1>5. m - 1 \in T
  BY <1>3, <1>4
<1> QED BY <1>3, <1>4, <1>5

\* A set of numbers up to m has a greatest.
LEMMA Greatest ==
    ASSUME NEW m \in Nat, NEW s \in SUBSET (1 .. m), s # {}
    PROVE  Max(s) \in s /\ \A n \in s : Max(s) >= n
<1> DEFINE Below == {k \in Nat : m - k \in s}
<1>1. Below \subseteq Nat /\ Below # {}
  <2>1. PICK n \in s : TRUE
    OBVIOUS
  <2>2. m - n \in Nat /\ m - (m - n) = n
    BY <2>1
  <2> QED BY <2>1, <2>2
<1>2. PICK k \in Below : \A j \in Below : ~(<<j, k>> \in OpToRel(<, Nat))
  <2> HIDE DEF Below
  <2> QED BY <1>1, WFMin, NatLessThanWellFounded
<1>3. m - k \in s /\ \A j \in Nat : m - j \in s => ~(j < k)
  BY <1>2 DEF OpToRel
<1>4. \A n \in s : m - k >= n
  <2> TAKE n \in s
  <2>1. m - n \in Nat /\ m - (m - n) = n /\ k \in Nat /\ n \in Nat
    OBVIOUS
  <2>2. ~(m - n < k)
    BY <1>3, <2>1
  <2> QED BY <2>1, <2>2
<1> QED BY <1>3, <1>4 DEF Max

\* And a least.
LEMMA Least ==
    ASSUME NEW s \in SUBSET Nat, s # {}
    PROVE  Min(s) \in s /\ \A n \in s : Min(s) <= n
<1>1. PICK k \in s : \A j \in s : ~(<<j, k>> \in OpToRel(<, Nat))
  BY WFMin, NatLessThanWellFounded
<1>2. \A j \in s : ~(j < k)
  BY <1>1 DEF OpToRel
<1>3. \A n \in s : k <= n
  BY <1>2
<1> QED BY <1>3 DEF Min

\* The table of a fold: G of what is left once an element is picked, and of it.
IsTable(f, S, base, G, pick) ==
    \A s \in SUBSET S : f[s] = IF s = {} THEN base ELSE G[f[s \ {pick[s]}]][pick[s]]

\* Over a finite set there is such a table, whatever G is and whichever element
\* is picked.
LEMMA FoldTable ==
    ASSUME NEW S, IsFiniteSet(S), NEW K, NEW base \in K, NEW G \in [K -> [S -> K]],
           NEW pick, \A s \in SUBSET S : s # {} => pick[s] \in s
    PROVE  \E f \in [SUBSET S -> K] : IsTable(f, S, base, G, pick)
<1> DEFINE Small(n) == {s \in SUBSET S : Cardinality(s) <= n}
           Solves(f, n) == f \in [Small(n) -> K] /\
               \A s \in Small(n) : f[s] = IF s = {} THEN base ELSE G[f[s \ {pick[s]}]][pick[s]]
           T == {n \in Nat : \E f : Solves(f, n)}
<1>0. \A s \in SUBSET S : IsFiniteSet(s) /\ Cardinality(s) \in Nat /\ Cardinality(s) <= Cardinality(S)
                          /\ (Cardinality(s) = 0 <=> s = {})
  BY FS_Subset, FS_CardinalityType, FS_EmptySet
<1>1. 0 \in T
  <2>1. \A s \in Small(0) : s = {}
    BY <1>0
  <2>2. Solves([s \in Small(0) |-> base], 0)
    BY <2>1
  <2> QED BY <2>2
<1>2. ASSUME NEW n \in Nat, n \in T PROVE n + 1 \in T
  <2>1. PICK f : Solves(f, n)
    BY <1>2
  <2> DEFINE h == [s \in Small(n + 1) |-> IF s = {} THEN base ELSE G[f[s \ {pick[s]}]][pick[s]]]
  <2>2. \A s \in Small(n + 1) : s # {} => s \ {pick[s]} \in Small(n) /\ pick[s] \in S
    <3> TAKE s \in Small(n + 1)
    <3> HAVE s # {}
    <3>1. pick[s] \in s /\ s \in SUBSET S /\ Cardinality(s) <= n + 1 /\ Cardinality(s) \in Nat
      BY <1>0
    <3>2. Cardinality(s \ {pick[s]}) = Cardinality(s) - 1
      BY <1>0, <3>1, FS_RemoveElement
    <3> QED BY <3>1, <3>2
  <2>3. h \in [Small(n + 1) -> K]
    <3>1. \A s \in Small(n + 1) : s # {} => f[s \ {pick[s]}] \in K
      BY <2>1, <2>2
    <3>2. \A a \in K, x \in S : G[a][x] \in K
      OBVIOUS
    <3>3. \A s \in Small(n + 1) : (IF s = {} THEN base ELSE G[f[s \ {pick[s]}]][pick[s]]) \in K
      <4> HIDE DEF Small
      <4> QED BY <2>2, <3>1, <3>2
    <3> HIDE DEF Small
    <3> QED BY <3>3
  <2>4. \A s \in Small(n) : s \in Small(n + 1) /\ h[s] = f[s]
    <3>1. \A s \in Small(n) : s \in Small(n + 1)
      BY <1>0
    <3> HIDE DEF Small
    <3> QED BY <2>1, <3>1
  <2>5. Solves(h, n + 1)
    <3> HIDE DEF Small
    <3>1. \A s \in Small(n + 1) : h[s] = IF s = {} THEN base ELSE G[h[s \ {pick[s]}]][pick[s]]
      <4> TAKE s \in Small(n + 1)
      <4>1. CASE s = {}
        BY <4>1
      <4>2. CASE s # {}
        <5>1. h[s \ {pick[s]}] = f[s \ {pick[s]}]
          BY <2>2, <2>4, <4>2
        <5> QED BY <4>2, <5>1
      <4> QED BY <4>1, <4>2
    <3> HIDE DEF h
    <3> QED BY <2>3, <3>1
  <2> HIDE DEF Solves, h
  <2> QED BY <1>2, <2>5
<1>3. Cardinality(S) \in T
  <2>1. \A n \in Nat : n \in T => n + 1 \in T
    BY <1>2
  <2> HIDE DEF T
  <2> QED BY <1>0, <1>1, <2>1, NatSetInduction
<1>4. PICK f : Solves(f, Cardinality(S))
  BY <1>3
<1>5. Small(Cardinality(S)) = SUBSET S
  BY <1>0
<1>6. f \in [SUBSET S -> K] /\ IsTable(f, S, base, G, pick)
  BY <1>4, <1>5 DEF IsTable
<1> QED BY <1>6

\* A finite set less one of its elements has one fewer.
LEMMA OneLess ==
    ASSUME NEW s, IsFiniteSet(s), NEW x \in s, NEW n \in Nat, Cardinality(s) = n + 1
    PROVE  Cardinality(s \ {x}) = n
  BY FS_RemoveElement

\* Induction over the subsets of a finite set, for a set of them.
LEMMA SubsetInduction ==
    ASSUME NEW S, IsFiniteSet(S), NEW T, {} \in T,
           \A s \in SUBSET S, x \in S : s \in T /\ x \notin s => s \cup {x} \in T
    PROVE  \A s \in SUBSET S : s \in T
<1> DEFINE N == {n \in Nat : \A s \in SUBSET S : Cardinality(s) = n => s \in T}
<1>0. \A s \in SUBSET S : IsFiniteSet(s) /\ Cardinality(s) \in Nat /\ (Cardinality(s) = 0 <=> s = {})
  BY FS_Subset, FS_CardinalityType, FS_EmptySet
<1>1. 0 \in N
  BY <1>0
<1>2. ASSUME NEW n \in Nat, n \in N PROVE n + 1 \in N
  <2> SUFFICES ASSUME NEW s \in SUBSET S, Cardinality(s) = n + 1 PROVE s \in T
    OBVIOUS
  <2>1. PICK x \in s : TRUE
    BY <1>0
  <2>2. Cardinality(s \ {x}) = n
    <3>1. IsFiniteSet(s) /\ x \in s
      BY <1>0, <2>1
    <3> QED BY <3>1, OneLess
  <2>3. s \ {x} \in T /\ s = (s \ {x}) \cup {x}
    BY <1>2, <2>1, <2>2
  <2> QED BY <2>1, <2>3
<1>3. \A n \in Nat : n \in N
  <2>1. \A n \in Nat : n \in N => n + 1 \in N
    BY <1>2
  <2> HIDE DEF N
  <2> QED BY <1>1, <2>1, NatSetInduction
<1> QED BY <1>0, <1>3

-----------------------------------------------------------------------------
(* Sums.                                                                   *)

\* The sums of F over the subsets of S, whichever element is taken first.
IsSum(h, F, S) ==
    /\ h \in [SUBSET S -> Nat] /\ h[{}] = 0
    /\ \A s \in SUBSET S : \A x \in s : h[s] = F[x] + h[s \ {x}]

\* The sums over a set and over a part of it agree where they are both told.
LEMMA SumsAgree ==
    ASSUME NEW S, IsFiniteSet(S), NEW F \in [S -> Nat], NEW h, IsSum(h, F, S),
           NEW R \in SUBSET S, NEW G \in [R -> Nat], \A x \in R : G[x] = F[x], NEW g, IsSum(g, G, R)
    PROVE  \A s \in SUBSET R : g[s] = h[s]
<1> DEFINE T == {s \in SUBSET R : g[s] = h[s]}
<1>1. IsFiniteSet(R)
  BY FS_Subset
<1>2. {} \in T
  BY DEF IsSum
<1>3. ASSUME NEW s \in SUBSET R, NEW x \in R, s \in T, x \notin s PROVE s \cup {x} \in T
  <2>1. g[s \cup {x}] = G[x] + g[s] /\ h[s \cup {x}] = F[x] + h[s]
    <3>1. (s \cup {x}) \ {x} = s
      BY <1>3
    <3> QED BY <3>1 DEF IsSum
  <2> QED BY <1>3, <2>1
<1>4. \A s \in SUBSET R : s \in T
  <2>1. \A s \in SUBSET R, x \in R : s \in T /\ x \notin s => s \cup {x} \in T
    BY <1>3
  <2> HIDE DEF T
  <2> QED BY <1>1, <1>2, <2>1, SubsetInduction
<1> QED BY <1>4

\* A table that sums in the order elements are picked sums in every order.
LEMMA SumTable ==
    ASSUME NEW S, IsFiniteSet(S), NEW F \in [S -> Nat],
           NEW pick, \A s \in SUBSET S : s # {} => pick[s] \in s,
           NEW h \in [SUBSET S -> Nat],
           \A s \in SUBSET S : h[s] = IF s = {} THEN 0 ELSE F[pick[s]] + h[s \ {pick[s]}]
    PROVE  IsSum(h, F, S)
<1> DEFINE T == {s \in SUBSET S : \A x \in s : h[s] = F[x] + h[s \ {x}]}
           N == {n \in Nat : \A s \in SUBSET S : Cardinality(s) <= n => s \in T}
<1>0. \A s \in SUBSET S : IsFiniteSet(s) /\ Cardinality(s) \in Nat /\ (Cardinality(s) = 0 <=> s = {})
  BY FS_Subset, FS_CardinalityType, FS_EmptySet
<1>1. 0 \in N
  BY <1>0
<1>2. ASSUME NEW n \in Nat, n \in N PROVE n + 1 \in N
  <2> SUFFICES ASSUME NEW s \in SUBSET S, Cardinality(s) <= n + 1, NEW x \in s
               PROVE  h[s] = F[x] + h[s \ {x}]
    OBVIOUS
  <2> DEFINE y == pick[s]
  <2>1. y \in s /\ h[s] = F[y] + h[s \ {y}]
    OBVIOUS
  <2>2. CASE x = y
    BY <2>1, <2>2
  <2>3. CASE x # y
    <3>1. Cardinality(s \ {x}) <= n /\ Cardinality(s \ {y}) <= n
      BY <1>0, <2>1, FS_RemoveElement
    <3>2. s \ {x} \in T /\ s \ {y} \in T
      BY <1>2, <3>1
    <3> DEFINE r == s \ {x, y}
    <3>3. (s \ {x}) \ {y} = r /\ (s \ {y}) \ {x} = r /\ x \in s \ {y} /\ y \in s \ {x}
      BY <2>1, <2>3
    <3>4. h[s \ {x}] = F[y] + h[r] /\ h[s \ {y}] = F[x] + h[r]
      <4> HIDE DEF y, r, N
      <4> QED BY <3>2, <3>3
    <3>5. F[x] \in Nat /\ F[y] \in Nat /\ h[r] \in Nat
      BY <2>1
    <3> HIDE DEF y, r
    <3> QED BY <2>1, <3>4, <3>5
  <2> QED BY <2>2, <2>3
<1>3. \A n \in Nat : n \in N
  <2>1. \A n \in Nat : n \in N => n + 1 \in N
    BY <1>2
  <2> HIDE DEF N
  <2> QED BY <1>1, <2>1, NatSetInduction
<1>4. \A s \in SUBSET S : s \in T
  <2> TAKE s \in SUBSET S
  <2>1. Cardinality(s) \in N /\ Cardinality(s) <= Cardinality(s)
    BY <1>0, <1>3
  <2> HIDE DEF T
  <2> QED BY <2>1
<1> QED BY <1>4 DEF IsSum

\* What SumFunction computes is a sum of that kind.
LEMMA SumExists ==
    ASSUME NEW S, IsFiniteSet(S), NEW F \in [S -> Nat]
    PROVE  \E h : IsSum(h, F, S) /\ SumFunction(F) = h[S]
<1> DEFINE G == [a \in Nat |-> [x \in S |-> F[x] + a]]
           pick == [s \in SUBSET S |-> CHOOSE x \in s : TRUE]
           I == CHOOSE f : f = [s \in SUBSET DOMAIN F |->
                    IF s = {} THEN 0
                    ELSE F[CHOOSE x \in s : TRUE] + f[s \ {CHOOSE x \in s : TRUE}]]
<1>1. G \in [Nat -> [S -> Nat]] /\ 0 \in Nat
  OBVIOUS
<1>2. \A s \in SUBSET S : s # {} => pick[s] \in s
  OBVIOUS
<1>3. PICK h \in [SUBSET S -> Nat] : IsTable(h, S, 0, G, pick)
  <2> HIDE DEF G, pick
  <2> QED BY <1>1, <1>2, FoldTable
<1>4. \A s \in SUBSET S : h[s] = IF s = {} THEN 0 ELSE F[pick[s]] + h[s \ {pick[s]}]
  <2> TAKE s \in SUBSET S
  <2>1. h[s] = IF s = {} THEN 0 ELSE G[h[s \ {pick[s]}]][pick[s]]
    BY <1>3 DEF IsTable
  <2>2. CASE s # {}
    <3>1. pick[s] \in S /\ h[s \ {pick[s]}] \in Nat
      BY <1>2, <2>2
    <3> HIDE DEF pick
    <3> QED BY <2>1, <2>2, <3>1
  <2> QED BY <2>1, <2>2
<1>5. h = [s \in SUBSET DOMAIN F |->
              IF s = {} THEN 0
              ELSE F[CHOOSE x \in s : TRUE] + h[s \ {CHOOSE x \in s : TRUE}]]
  <2>1. \A s \in SUBSET S : pick[s] = CHOOSE x \in s : TRUE
    OBVIOUS
  <2> HIDE DEF pick
  <2>2. \A s \in SUBSET S : h[s] = IF s = {} THEN 0
                                  ELSE F[CHOOSE x \in s : TRUE] + h[s \ {CHOOSE x \in s : TRUE}]
    BY <1>4, <2>1
  <2> QED BY <2>2
<1>6. I = [s \in SUBSET DOMAIN F |->
              IF s = {} THEN 0
              ELSE F[CHOOSE x \in s : TRUE] + I[s \ {CHOOSE x \in s : TRUE}]]
  <2> HIDE DEF G, pick
  <2> QED BY <1>5
<1>7. SumFunction(F) = I[S]
  BY DEF SumFunction, SumFunctionOnSet, FoldFunctionOnSet, MapThenFoldSet
<1>8. \A s \in SUBSET S : I[s] = IF s = {} THEN 0 ELSE F[pick[s]] + I[s \ {pick[s]}]
  <2> HIDE DEF I
  <2> QED BY <1>6
<1>9. I = [s \in SUBSET S |-> I[s]]
  <2> HIDE DEF I
  <2> QED BY <1>6
<1> HIDE DEF I, pick
<1> DEFINE T == {s \in SUBSET S : I[s] = h[s]}
           N == {n \in Nat : \A s \in SUBSET S : Cardinality(s) = n => s \in T}
<1>10. \A s \in SUBSET S : IsFiniteSet(s) /\ Cardinality(s) \in Nat /\ (Cardinality(s) = 0 <=> s = {})
  BY FS_Subset, FS_CardinalityType, FS_EmptySet
<1>11. 0 \in N
  BY <1>4, <1>8, <1>10
<1>12. ASSUME NEW n \in Nat, n \in N PROVE n + 1 \in N
  <2> SUFFICES ASSUME NEW s \in SUBSET S, Cardinality(s) = n + 1 PROVE I[s] = h[s]
    OBVIOUS
  <2>1. s # {} /\ pick[s] \in s
    BY <1>2, <1>10
  <2>2. Cardinality(s \ {pick[s]}) = n
    BY <1>10, <2>1, FS_RemoveElement
  <2>3. I[s \ {pick[s]}] = h[s \ {pick[s]}]
    BY <1>12, <2>2
  <2> QED BY <1>4, <1>8, <2>1, <2>3
<1>13. \A n \in Nat : n \in N
  <2>1. \A n \in Nat : n \in N => n + 1 \in N
    BY <1>12
  <2> HIDE DEF N
  <2> QED BY <1>11, <2>1, NatSetInduction
<1>14. I[S] = h[S]
  BY <1>10, <1>13
<1>15. IsSum(h, F, S)
  BY <1>2, <1>4, SumTable
<1> QED BY <1>7, <1>14, <1>15

\* Nothing sums to zero.
LEMMA SumNone ==
    ASSUME NEW F \in [{} -> Nat]
    PROVE  SumFunction(F) = 0
<1>1. IsFiniteSet({})
  BY FS_EmptySet
<1> QED BY <1>1, SumExists DEF IsSum

\* Numbers sum to a number.
LEMMA SumType ==
    ASSUME NEW S, IsFiniteSet(S), NEW F \in [S -> Nat]
    PROVE  SumFunction(F) \in Nat
<1>1. PICK h : IsSum(h, F, S) /\ SumFunction(F) = h[S]
  BY SumExists
<1> QED BY <1>1 DEF IsSum

\* One term taken out of a sum.
LEMMA SumLess ==
    ASSUME NEW S, IsFiniteSet(S), NEW F \in [S -> Nat], NEW x \in S,
           NEW G \in [S \ {x} -> Nat], \A y \in S \ {x} : G[y] = F[y]
    PROVE  SumFunction(F) = F[x] + SumFunction(G)
<1> DEFINE R == S \ {x}
<1>1. IsFiniteSet(R) /\ R \in SUBSET S
  BY FS_Subset
<1>2. PICK h : IsSum(h, F, S) /\ SumFunction(F) = h[S]
  BY SumExists
<1>3. PICK g : IsSum(g, G, R) /\ SumFunction(G) = g[R]
  BY <1>1, SumExists
<1>4. g[R] = h[R]
  BY <1>1, <1>2, <1>3, SumsAgree
<1>5. h[S] = F[x] + h[R]
  BY <1>2 DEF IsSum
<1> QED BY <1>2, <1>3, <1>4, <1>5

\* Terms of nothing.
LEMMA SumZeros ==
    ASSUME NEW S, IsFiniteSet(S), NEW F \in [S -> Nat], NEW R \in SUBSET S,
           \A x \in S \ R : F[x] = 0, NEW G \in [R -> Nat], \A x \in R : G[x] = F[x]
    PROVE  SumFunction(F) = SumFunction(G)
<1>1. PICK h : IsSum(h, F, S) /\ SumFunction(F) = h[S]
  BY SumExists
<1>2. IsFiniteSet(R)
  BY FS_Subset
<1>3. PICK g : IsSum(g, G, R) /\ SumFunction(G) = g[R]
  BY <1>2, SumExists
<1>4. g[R] = h[R]
  BY <1>1, <1>2, <1>3, SumsAgree
<1> DEFINE T == {s \in SUBSET (S \ R) : h[R \cup s] = h[R]}
<1>5. {} \in T
  OBVIOUS
<1>6. ASSUME NEW s \in SUBSET (S \ R), NEW x \in S \ R, s \in T, x \notin s PROVE s \cup {x} \in T
  <2> DEFINE r == R \cup (s \cup {x})  k == R \cup s
  <2>1. r \ {x} = k /\ x \in r /\ r \in SUBSET S
    BY <1>6
  <2>2. h[r] = F[x] + h[k]
    <3> HIDE DEF r, k
    <3> QED BY <1>1, <2>1 DEF IsSum
  <2>3. h[R] \in Nat /\ F[x] = 0
    BY <1>1 DEF IsSum
  <2> QED BY <1>6, <2>2, <2>3
<1>7. S \ R \in T
  <2> DEFINE Q == S \ R
  <2>1. \A s \in SUBSET Q, x \in Q : s \in T /\ x \notin s => s \cup {x} \in T
    BY <1>6
  <2>2. IsFiniteSet(Q)
    BY FS_Subset
  <2> HIDE DEF T, Q
  <2>3. \A s \in SUBSET Q : s \in T
    BY <1>5, <2>1, <2>2, SubsetInduction
  <2> QED BY <2>3 DEF Q
<1>8. R \cup (S \ R) = S
  OBVIOUS
<1> QED BY <1>1, <1>3, <1>4, <1>7, <1>8

\* Two sums that differ in one term: it is more by c in the one, which may have
\* terms of nothing besides.
LEMMA SumMore ==
    ASSUME NEW S, IsFiniteSet(S), NEW F \in [S -> Nat], NEW R \in SUBSET S, NEW G \in [R -> Nat],
           NEW x \in S, NEW c \in Nat, F[x] = (IF x \in R THEN G[x] ELSE 0) + c,
           \A y \in S \ {x} : F[y] = IF y \in R THEN G[y] ELSE 0
    PROVE  SumFunction(F) = SumFunction(G) + c
<1> DEFINE E == [y \in S |-> IF y \in R THEN G[y] ELSE 0]
           D == [y \in S \ {x} |-> F[y]]
<1>1. E \in [S -> Nat] /\ D \in [S \ {x} -> Nat]
  OBVIOUS
<1>2. SumFunction(E) = SumFunction(G)
  <2>1. (\A y \in S \ R : E[y] = 0) /\ (\A y \in R : G[y] = E[y])
    OBVIOUS
  <2> HIDE DEF E
  <2> QED BY <1>1, <2>1, SumZeros
<1>3. SumFunction(F) = F[x] + SumFunction(D)
  <2>1. \A y \in S \ {x} : D[y] = F[y]
    OBVIOUS
  <2> HIDE DEF D
  <2> QED BY <1>1, <2>1, SumLess
<1>4. SumFunction(E) = E[x] + SumFunction(D)
  <2>1. \A y \in S \ {x} : D[y] = E[y]
    OBVIOUS
  <2> HIDE DEF D, E
  <2> QED BY <1>1, <2>1, SumLess
<1>5. F[x] = E[x] + c /\ E[x] \in Nat
  OBVIOUS
<1>6. SumFunction(D) \in Nat
  <2>1. IsFiniteSet(S \ {x})
    BY FS_Subset
  <2> HIDE DEF D
  <2> QED BY <1>1, <2>1, SumType
<1> HIDE DEF E, D
<1> QED BY <1>2, <1>3, <1>4, <1>5, <1>6

\* A sum of nothing but zeros.
LEMMA SumSame ==
    ASSUME NEW S, IsFiniteSet(S), NEW F \in [S -> Nat], \A x \in S : F[x] = 0
    PROVE  SumFunction(F) = 0
<1>1. PICK R \in SUBSET S : R = {}
  OBVIOUS
<1>2. PICK G \in [R -> Nat] : \A x \in R : G[x] = F[x]
  <2>1. [x \in R |-> F[x]] \in [R -> Nat]
    OBVIOUS
  <2> QED BY <2>1
<1>3. \A x \in S \ R : F[x] = 0
  OBVIOUS
<1>4. SumFunction(F) = SumFunction(G)
  BY <1>2, <1>3, SumZeros
<1>5. SumFunction(G) = 0
  BY <1>1, SumNone
<1> QED BY <1>4, <1>5

\* Induction over the subsets of a finite set, by taking an element out of each.
LEMMA SubsetDescent ==
    ASSUME NEW S, IsFiniteSet(S), NEW T, {} \in T,
           \A s \in SUBSET S : s # {} => \E x \in s : s \ {x} \in T => s \in T
    PROVE  \A s \in SUBSET S : s \in T
<1> DEFINE N == {n \in Nat : \A s \in SUBSET S : Cardinality(s) = n => s \in T}
<1>0. \A s \in SUBSET S : IsFiniteSet(s) /\ Cardinality(s) \in Nat /\ (Cardinality(s) = 0 <=> s = {})
  BY FS_Subset, FS_CardinalityType, FS_EmptySet
<1>1. 0 \in N
  BY <1>0
<1>2. ASSUME NEW n \in Nat, n \in N PROVE n + 1 \in N
  <2> SUFFICES ASSUME NEW s \in SUBSET S, Cardinality(s) = n + 1 PROVE s \in T
    OBVIOUS
  <2>1. s # {} /\ IsFiniteSet(s)
    BY <1>0
  <2>2. PICK x \in s : s \ {x} \in T => s \in T
    BY <2>1
  <2>3. Cardinality(s \ {x}) = n
    BY <2>1, OneLess
  <2> QED BY <1>2, <2>2, <2>3
<1>3. \A n \in Nat : n \in N
  <2>1. \A n \in Nat : n \in N => n + 1 \in N
    BY <1>2
  <2> HIDE DEF N
  <2> QED BY <1>1, <2>1, NatSetInduction
<1> QED BY <1>0, <1>3

\* A finite set of numbers has one above them all.
LEMMA Bounded ==
    ASSUME NEW S \in SUBSET Nat, IsFiniteSet(S)
    PROVE  \E n \in Nat : \A x \in S : x < n
<1> DEFINE T == {s \in SUBSET S : \E n \in Nat : \A x \in s : x < n}
<1>1. {} \in T
  <2>1. 0 \in Nat
    OBVIOUS
  <2> QED BY <2>1
<1>2. ASSUME NEW s \in SUBSET S, NEW x \in S, s \in T, x \notin s
      PROVE  s \cup {x} \in T
  <2>1. PICK n \in Nat : \A y \in s : y < n
    BY <1>2
  <2>2. x \in Nat
    OBVIOUS
  <2>3. \E k \in Nat : n <= k /\ x < k
    <3>1. CASE n <= x
      <4>1. x + 1 \in Nat /\ n <= x + 1 /\ x < x + 1
        BY <2>2, <3>1
      <4> QED BY <4>1
    <3>2. CASE x < n
      BY <2>2, <3>2
    <3> QED BY <2>2, <3>1, <3>2
  <2>4. PICK k \in Nat : n <= k /\ x < k
    BY <2>3
  <2>5. \A y \in s \cup {x} : y < k
    <3>1. \A y \in s : y \in Nat
      OBVIOUS
    <3> QED BY <2>1, <2>4, <3>1
  <2> QED BY <2>4, <2>5
<1>3. S \in T
  <2>1. \A s \in SUBSET S, x \in S : s \in T /\ x \notin s => s \cup {x} \in T
    BY <1>2
  <2> HIDE DEF T
  <2> QED BY <1>1, <2>1, SubsetInduction
<1> QED BY <1>3

\* A sum, and what it is without one term.
LEMMA SumSplit ==
    ASSUME NEW S, IsFiniteSet(S), NEW F \in [S -> Nat], NEW x \in S
    PROVE  /\ SumFunction(F) = F[x] + SumFunction([y \in S \ {x} |-> F[y]])
           /\ SumFunction([y \in S \ {x} |-> F[y]]) \in Nat
<1> DEFINE D == [y \in S \ {x} |-> F[y]]
<1>1. D \in [S \ {x} -> Nat] /\ \A y \in S \ {x} : D[y] = F[y]
  OBVIOUS
<1>2. IsFiniteSet(S \ {x})
  BY FS_Subset
<1> HIDE DEF D
<1>3. SumFunction(F) = F[x] + SumFunction(D) /\ SumFunction(D) \in Nat
  BY <1>1, <1>2, SumLess, SumType
<1> QED BY <1>3 DEF D

\* Two sums that differ in one term.
LEMMA SumGrown ==
    ASSUME NEW S, IsFiniteSet(S), NEW F \in [S -> Nat], NEW G \in [S -> Nat],
           NEW x \in S, \A y \in S \ {x} : F[y] = G[y]
    PROVE  SumFunction(F) + G[x] = SumFunction(G) + F[x]
<1> DEFINE D == [y \in S \ {x} |-> F[y]]  E == [y \in S \ {x} |-> G[y]]
<1>1. SumFunction(F) = F[x] + SumFunction(D) /\ SumFunction(D) \in Nat
  BY SumSplit
<1>2. SumFunction(G) = G[x] + SumFunction(E)
  BY SumSplit
<1>3. D = E /\ G[x] \in Nat /\ F[x] \in Nat
  OBVIOUS
<1> HIDE DEF D, E
<1> QED BY <1>1, <1>2, <1>3

\* Two sums are together at most two others when term by term they are.
LEMMA SumLeq ==
    ASSUME NEW S, IsFiniteSet(S), NEW F \in [S -> Nat], NEW G \in [S -> Nat],
           NEW H \in [S -> Nat], NEW K \in [S -> Nat], \A x \in S : F[x] + G[x] <= H[x] + K[x]
    PROVE  SumFunction(F) + SumFunction(G) <= SumFunction(H) + SumFunction(K)
<1>1. PICK f : IsSum(f, F, S) /\ SumFunction(F) = f[S]
  BY SumExists
<1>2. PICK g : IsSum(g, G, S) /\ SumFunction(G) = g[S]
  BY SumExists
<1>3. PICK h : IsSum(h, H, S) /\ SumFunction(H) = h[S]
  BY SumExists
<1>4. PICK k : IsSum(k, K, S) /\ SumFunction(K) = k[S]
  BY SumExists
<1> DEFINE T == {s \in SUBSET S : f[s] + g[s] <= h[s] + k[s]}
<1>5. {} \in T
  BY <1>1, <1>2, <1>3, <1>4 DEF IsSum
<1>6. ASSUME NEW s \in SUBSET S, NEW x \in S, s \in T, x \notin s PROVE s \cup {x} \in T
  <2>1. (s \cup {x}) \ {x} = s /\ s \cup {x} \in SUBSET S
    BY <1>6
  <2>2. /\ f[s \cup {x}] = F[x] + f[s] /\ g[s \cup {x}] = G[x] + g[s]
        /\ h[s \cup {x}] = H[x] + h[s] /\ k[s \cup {x}] = K[x] + k[s]
    <3>1. x \in s \cup {x}
      OBVIOUS
    <3>2. f[s \cup {x}] = F[x] + f[(s \cup {x}) \ {x}]
      BY <1>1, <2>1, <3>1 DEF IsSum
    <3>3. g[s \cup {x}] = G[x] + g[(s \cup {x}) \ {x}]
      BY <1>2, <2>1, <3>1 DEF IsSum
    <3>4. h[s \cup {x}] = H[x] + h[(s \cup {x}) \ {x}]
      BY <1>3, <2>1, <3>1 DEF IsSum
    <3>5. k[s \cup {x}] = K[x] + k[(s \cup {x}) \ {x}]
      BY <1>4, <2>1, <3>1 DEF IsSum
    <3> QED BY <2>1, <3>2, <3>3, <3>4, <3>5
  <2>3. f[s] \in Nat /\ g[s] \in Nat /\ h[s] \in Nat /\ k[s] \in Nat
    BY <1>1, <1>2, <1>3, <1>4 DEF IsSum
  <2>4. F[x] \in Nat /\ G[x] \in Nat /\ H[x] \in Nat /\ K[x] \in Nat /\ F[x] + G[x] <= H[x] + K[x]
    OBVIOUS
  <2>5. f[s] + g[s] <= h[s] + k[s]
    BY <1>6
  <2> QED BY <2>1, <2>2, <2>3, <2>4, <2>5
<1>7. \A s \in SUBSET S : s \in T
  <2>1. \A s \in SUBSET S, x \in S : s \in T /\ x \notin s => s \cup {x} \in T
    BY <1>6
  <2> HIDE DEF T
  <2> QED BY <1>5, <2>1, SubsetInduction
<1> QED BY <1>1, <1>2, <1>3, <1>4, <1>7

\* The sum of two sums.
LEMMA SumAdd ==
    ASSUME NEW S, IsFiniteSet(S), NEW F \in [S -> Nat], NEW G \in [S -> Nat],
           NEW H \in [S -> Nat], \A x \in S : H[x] = F[x] + G[x]
    PROVE  SumFunction(H) = SumFunction(F) + SumFunction(G)
<1> DEFINE Z == [x \in S |-> 0]
<1>1. Z \in [S -> Nat] /\ \A x \in S : Z[x] = 0
  OBVIOUS
<1> HIDE DEF Z
<1>2. SumFunction(Z) = 0
  BY <1>1, SumSame
<1>3. /\ \A x \in S : F[x] + G[x] <= H[x] + Z[x]
      /\ \A x \in S : H[x] + Z[x] <= F[x] + G[x]
  BY <1>1
<1>4. SumFunction(F) + SumFunction(G) <= SumFunction(H) + SumFunction(Z)
  BY <1>1, <1>3, SumLeq
<1>5. SumFunction(H) + SumFunction(Z) <= SumFunction(F) + SumFunction(G)
  BY <1>1, <1>3, SumLeq
<1>6. SumFunction(F) \in Nat /\ SumFunction(G) \in Nat /\ SumFunction(H) \in Nat
  BY SumType
<1> QED BY <1>2, <1>4, <1>5, <1>6

\* The sums of the rows of a table, and of its columns.
RowSums(F, s, B) == [a \in s |-> SumFunction([b \in B |-> F[a][b]])]
ColumnSums(F, s, B) == [b \in B |-> SumFunction([a \in s |-> F[a][b]])]

\* Both are numbers.
LEMMA TableSums ==
    ASSUME NEW A, NEW B, IsFiniteSet(A), IsFiniteSet(B), NEW F \in [A -> [B -> Nat]], NEW s \in SUBSET A
    PROVE  /\ IsFiniteSet(s) /\ RowSums(F, s, B) \in [s -> Nat] /\ ColumnSums(F, s, B) \in [B -> Nat]
<1>1. IsFiniteSet(s)
  BY FS_Subset
<1>2. ASSUME NEW a \in s PROVE SumFunction([b \in B |-> F[a][b]]) \in Nat
  <2>1. [b \in B |-> F[a][b]] \in [B -> Nat]
    OBVIOUS
  <2> QED BY <2>1, SumType
<1>3. ASSUME NEW b \in B PROVE SumFunction([a \in s |-> F[a][b]]) \in Nat
  <2>1. [a \in s |-> F[a][b]] \in [s -> Nat]
    OBVIOUS
  <2> QED BY <1>1, <2>1, SumType
<1> QED BY <1>1, <1>2, <1>3 DEF RowSums, ColumnSums

\* A table sums to the same by rows and by columns.
LEMMA SumSwap ==
    ASSUME NEW A, NEW B, IsFiniteSet(A), IsFiniteSet(B), NEW F \in [A -> [B -> Nat]]
    PROVE  SumFunction(RowSums(F, A, B)) = SumFunction(ColumnSums(F, A, B))
<1> DEFINE T == {s \in SUBSET A : SumFunction(RowSums(F, s, B)) = SumFunction(ColumnSums(F, s, B))}
<1>1. {} \in T
  <2>1. RowSums(F, {}, B) \in [{} -> Nat] /\ ColumnSums(F, {}, B) \in [B -> Nat]
    BY TableSums
  <2>2. \A b \in B : ColumnSums(F, {}, B)[b] = 0
    <3> TAKE b \in B
    <3>1. [a \in {} |-> F[a][b]] \in [{} -> Nat]
      OBVIOUS
    <3>2. SumFunction([a \in {} |-> F[a][b]]) = 0
      BY <3>1, SumNone
    <3> QED BY <3>2 DEF ColumnSums
  <2> QED BY <2>1, <2>2, SumNone, SumSame
<1>2. ASSUME NEW s \in SUBSET A, NEW x \in A, s \in T, x \notin s PROVE s \cup {x} \in T
  <2> DEFINE more == s \cup {x}
             row == [b \in B |-> F[x][b]]
  <2>1. more \in SUBSET A /\ more \ {x} = s /\ x \in more
    BY <1>2
  <2>2. row \in [B -> Nat] /\ \A b \in B : row[b] = F[x][b]
    OBVIOUS
  <2>3. SumFunction(RowSums(F, more, B)) = SumFunction(row) + SumFunction(RowSums(F, s, B))
    <3>1. IsFiniteSet(more) /\ RowSums(F, more, B) \in [more -> Nat]
      BY <2>1, TableSums
    <3>2. [y \in more \ {x} |-> RowSums(F, more, B)[y]] = RowSums(F, s, B)
      BY <2>1 DEF RowSums
    <3>3. RowSums(F, more, B)[x] = SumFunction(row)
      BY <2>1 DEF RowSums
    <3> HIDE DEF more, row
    <3>4. SumFunction(RowSums(F, more, B))
              = RowSums(F, more, B)[x] + SumFunction([y \in more \ {x} |-> RowSums(F, more, B)[y]])
      BY <2>1, <3>1, SumSplit
    <3> QED BY <3>2, <3>3, <3>4
  <2>4. ASSUME NEW b \in B PROVE ColumnSums(F, more, B)[b] = row[b] + ColumnSums(F, s, B)[b]
    <3> DEFINE now == [a \in more |-> F[a][b]]
               was == [a \in s |-> F[a][b]]
    <3>1. IsFiniteSet(more) /\ now \in [more -> Nat]
      BY <2>1, TableSums
    <3>2. [y \in more \ {x} |-> now[y]] = was /\ now[x] = row[b]
      BY <2>1
    <3>3. ColumnSums(F, more, B)[b] = SumFunction(now) /\ ColumnSums(F, s, B)[b] = SumFunction(was)
      BY DEF ColumnSums
    <3> HIDE DEF more, row, now, was
    <3>4. SumFunction(now) = now[x] + SumFunction([y \in more \ {x} |-> now[y]])
      BY <2>1, <3>1, SumSplit
    <3> QED BY <3>2, <3>3, <3>4
  <2>5. SumFunction(ColumnSums(F, more, B)) = SumFunction(row) + SumFunction(ColumnSums(F, s, B))
    <3>1. ColumnSums(F, more, B) \in [B -> Nat] /\ ColumnSums(F, s, B) \in [B -> Nat]
      BY <2>1, TableSums
    <3> HIDE DEF more, row
    <3> QED BY <2>2, <2>4, <3>1, SumAdd
  <2> QED BY <1>2, <2>1, <2>3, <2>5
<1>3. \A s \in SUBSET A : s \in T
  <2>1. \A s \in SUBSET A, x \in A : s \in T /\ x \notin s => s \cup {x} \in T
    BY <1>2
  <2> HIDE DEF T
  <2> QED BY <1>1, <2>1, SubsetInduction
<1> QED BY <1>3

-----------------------------------------------------------------------------
(* Folds over sequences, and what is weighed of one.                       *)

\* The first n and the one after them.
LEMMA Initials ==
    ASSUME NEW m \in Nat, NEW n \in 0 .. m - 1
    PROVE  /\ 1 .. n + 1 \in SUBSET (1 .. m) /\ 1 .. n + 1 # {}
           /\ Max(1 .. n + 1) = n + 1 /\ (1 .. n + 1) \ {n + 1} = 1 .. n
<1>1. 1 .. n + 1 \in SUBSET (1 .. m) /\ n + 1 \in 1 .. n + 1
  OBVIOUS
<1>2. Max(1 .. n + 1) \in 1 .. n + 1 /\ Max(1 .. n + 1) >= n + 1
  BY <1>1, Greatest
<1>3. Max(1 .. n + 1) = n + 1
  BY <1>2
<1>4. (1 .. n + 1) \ {n + 1} = 1 .. n
  OBVIOUS
<1> QED BY <1>1, <1>3, <1>4

\* A fold through the first m, from base, by the table G of its steps.
IsRun(m, K, base, G) == m \in Nat /\ base \in K /\ G \in [K -> [1 .. m -> K]]

IsAlong(h, m, K, base, G) ==
    /\ h \in [SUBSET (1 .. m) -> K]
    /\ \A s \in SUBSET (1 .. m) : h[s] = IF s = {} THEN base ELSE G[h[s \ {Max(s)}]][Max(s)]

\* There is a function that folds along the first m.
LEMMA FoldAlong ==
    ASSUME NEW m, NEW K, NEW base, NEW G, IsRun(m, K, base, G)
    PROVE  \E h : IsAlong(h, m, K, base, G)
<1> DEFINE S == 1 .. m
           pick == [s \in SUBSET S |-> Max(s)]
<1>0. m \in Nat /\ base \in K /\ G \in [K -> [S -> K]]
  BY DEF IsRun
<1>1. IsFiniteSet(S)
  BY <1>0, FS_Interval
<1>2. \A s \in SUBSET S : s # {} => pick[s] \in s /\ pick[s] = Max(s)
  BY <1>0, Greatest
<1>3. PICK h \in [SUBSET S -> K] : IsTable(h, S, base, G, pick)
  <2> HIDE DEF S, pick
  <2> QED BY <1>0, <1>1, <1>2, FoldTable
<1>4. \A s \in SUBSET S : h[s] = IF s = {} THEN base ELSE G[h[s \ {Max(s)}]][Max(s)]
  <2> HIDE DEF S, pick
  <2> QED BY <1>2, <1>3 DEF IsTable
<1> QED BY <1>3, <1>4 DEF IsAlong

\* What it leaves after each, of a function that takes those steps.
LEMMA FoldTold ==
    ASSUME NEW m, NEW K, NEW base, NEW G, IsRun(m, K, base, G), NEW F, F[{}] = base,
           \A n \in 0 .. m - 1 : F[1 .. n] \in K => F[1 .. n + 1] = G[F[1 .. n]][n + 1]
    PROVE  \E g \in [0 .. m -> K] :
              g[0] = base /\ (\A n \in 0 .. m - 1 : g[n + 1] = G[g[n]][n + 1]) /\ g[m] = F[1 .. m]
<1>0. m \in Nat /\ base \in K /\ G \in [K -> [1 .. m -> K]]
  BY DEF IsRun
<1> DEFINE T == {n \in Nat : n <= m => F[1 .. n] \in K}
<1>1. 0 \in T
  <2>1. 1 .. 0 = {}
    OBVIOUS
  <2> QED BY <1>0, <2>1
<1>2. ASSUME NEW n \in Nat, n \in T PROVE n + 1 \in T
  <2> SUFFICES ASSUME n + 1 <= m PROVE F[1 .. n + 1] \in K
    OBVIOUS
  <2>1. n \in 0 .. m - 1 /\ F[1 .. n] \in K /\ n + 1 \in 1 .. m
    BY <1>0, <1>2
  <2>2. F[1 .. n + 1] = G[F[1 .. n]][n + 1]
    BY <2>1
  <2> QED BY <1>0, <2>1, <2>2
<1>3. \A n \in Nat : n \in T
  <2> HIDE DEF T
  <2> QED BY <1>1, <1>2, NatSetInduction
<1> DEFINE g == [n \in 0 .. m |-> F[1 .. n]]
<1>4. \A n \in 0 .. m : F[1 .. n] \in K
  BY <1>0, <1>3
<1>5. g \in [0 .. m -> K]
  BY <1>4
<1>6. g[0] = base
  <2>1. 1 .. 0 = {} /\ 0 \in 0 .. m
    BY <1>0
  <2> QED BY <2>1
<1>7. ASSUME NEW n \in 0 .. m - 1 PROVE g[n + 1] = G[g[n]][n + 1]
  <2>1. n \in 0 .. m /\ n + 1 \in 0 .. m
    BY <1>0
  <2>2. g[n] = F[1 .. n] /\ g[n + 1] = F[1 .. n + 1] /\ F[1 .. n] \in K
    BY <1>4, <2>1
  <2> HIDE DEF g
  <2> QED BY <2>2
<1>8. g[m] = F[1 .. m]
  BY <1>0
<1> HIDE DEF g
<1> QED BY <1>5, <1>6, <1>7, <1>8

\* The terms of H are those of F, each at the place p says.
IsMoved(H, F, A, B, p) ==
    /\ IsFiniteSet(A) /\ IsFiniteSet(B) /\ F \in [B -> Nat] /\ p \in [A -> B] /\ H \in [A -> Nat]
    /\ \A a, c \in A : p[a] = p[c] => a = c
    /\ \A b \in B : \E a \in A : p[a] = b
    /\ \A a \in A : H[a] = F[p[a]]

\* A sum says nothing of the order it is taken in.
LEMMA SumMoved ==
    ASSUME NEW H, NEW F, NEW A, NEW B, NEW p, IsMoved(H, F, A, B, p)
    PROVE  SumFunction(H) = SumFunction(F)
<1>0. /\ IsFiniteSet(A) /\ IsFiniteSet(B) /\ F \in [B -> Nat] /\ p \in [A -> B] /\ H \in [A -> Nat]
      /\ \A a, c \in A : p[a] = p[c] => a = c
      /\ \A b \in B : \E a \in A : p[a] = b
      /\ \A a \in A : H[a] = F[p[a]]
  BY DEF IsMoved
<1> DEFINE T == [a \in A |-> [b \in B |-> IF p[a] = b THEN F[b] ELSE 0]]
<1>1. T \in [A -> [B -> Nat]]
  BY <1>0
<1>2. RowSums(T, A, B) = H
  <2> SUFFICES ASSUME NEW a \in A PROVE SumFunction([b \in B |-> T[a][b]]) = F[p[a]]
    BY <1>0 DEF RowSums
  <2> DEFINE R == [b \in B |-> T[a][b]]
             Z == [b \in B |-> 0]
  <2>1. R \in [B -> Nat] /\ Z \in [B -> Nat] /\ p[a] \in B /\ \A y \in B \ {p[a]} : R[y] = Z[y]
    BY <1>0
  <2>2. SumFunction(R) + Z[p[a]] = SumFunction(Z) + R[p[a]]
    <3> HIDE DEF R, Z
    <3> QED BY <1>0, <2>1, SumGrown
  <2>3. SumFunction(Z) = 0
    BY <1>0, <2>1, SumSame
  <2>4. R[p[a]] = F[p[a]] /\ Z[p[a]] = 0 /\ F[p[a]] \in Nat
    BY <1>0
  <2>5. SumFunction(R) \in Nat
    <3> HIDE DEF R
    <3> QED BY <1>0, <2>1, SumType
  <2> HIDE DEF R, Z
  <2>6. SumFunction(R) = F[p[a]]
    BY <2>2, <2>3, <2>4, <2>5
  <2> QED BY <2>6 DEF R
<1>3. ColumnSums(T, A, B) = F
  <2> SUFFICES ASSUME NEW b \in B PROVE SumFunction([a \in A |-> T[a][b]]) = F[b]
    BY <1>0 DEF ColumnSums
  <2>0. PICK a \in A : p[a] = b
    BY <1>0
  <2> DEFINE R == [c \in A |-> T[c][b]]
             Z == [c \in A |-> 0]
  <2>1. R \in [A -> Nat] /\ Z \in [A -> Nat] /\ \A y \in A \ {a} : R[y] = Z[y]
    BY <1>0, <2>0
  <2>2. SumFunction(R) + Z[a] = SumFunction(Z) + R[a]
    <3> HIDE DEF R, Z
    <3> QED BY <1>0, <2>1, SumGrown
  <2>3. SumFunction(Z) = 0
    BY <1>0, <2>1, SumSame
  <2>4. R[a] = F[b] /\ Z[a] = 0 /\ F[b] \in Nat
    BY <1>0, <2>0
  <2>5. SumFunction(R) \in Nat
    <3> HIDE DEF R
    <3> QED BY <1>0, <2>1, SumType
  <2> HIDE DEF R, Z
  <2>6. SumFunction(R) = F[b]
    BY <2>2, <2>3, <2>4, <2>5
  <2> QED BY <2>6 DEF R
<1> HIDE DEF T
<1> QED BY <1>1, <1>2, <1>3, <1>0, SumSwap

-----------------------------------------------------------------------------
(* Sums along a sequence.                                                  *)

Weighed(list, w) == SumFunction([i \in DOMAIN list |-> w[list[i]]])

\* What a list weighs is a number.
LEMMA WeighedType ==
    ASSUME NEW E, NEW list \in Seq(E), NEW w \in [E -> Nat]
    PROVE  /\ Weighed(list, w) \in Nat
           /\ DOMAIN list = 1 .. Len(list) /\ Len(list) \in Nat
           /\ [i \in DOMAIN list |-> w[list[i]]] \in [1 .. Len(list) -> Nat]
           /\ IsFiniteSet(1 .. Len(list))
<1>1. DOMAIN list = 1 .. Len(list) /\ Len(list) \in Nat /\ \A i \in 1 .. Len(list) : list[i] \in E
  OBVIOUS
<1>2. [i \in DOMAIN list |-> w[list[i]]] \in [1 .. Len(list) -> Nat]
  BY <1>1
<1>3. IsFiniteSet(1 .. Len(list))
  BY <1>1, FS_Interval
<1> QED BY <1>1, <1>2, <1>3, SumType DEF Weighed

\* An empty list weighs nothing.
LEMMA WeighedNone ==
    ASSUME NEW w
    PROVE  Weighed(<<>>, w) = 0
<1>1. [i \in DOMAIN <<>> |-> w[<<>>[i]]] \in [{} -> Nat]
  OBVIOUS
<1> QED BY <1>1, SumNone DEF Weighed

\* G is F without its term at x.
IsLess(F, G, S, x) ==
    /\ IsFiniteSet(S) /\ x \in S /\ F \in [S -> Nat] /\ G \in [S \ {x} -> Nat]
    /\ \A y \in S \ {x} : G[y] = F[y]
\* A sum over less is no more, where nothing is negative.
LEMMA LessSum ==
    ASSUME NEW F, NEW G, NEW S, NEW x, IsLess(F, G, S, x)
    PROVE  SumFunction(F) = SumFunction(G) + F[x]
<1>1. /\ IsFiniteSet(S) /\ x \in S /\ F \in [S -> Nat] /\ G \in [S \ {x} -> Nat]
      /\ \A y \in S \ {x} : G[y] = F[y]
  BY DEF IsLess
<1>2. SumFunction(F) = F[x] + SumFunction(G)
  BY <1>1, SumLess
<1>3. IsFiniteSet(S \ {x})
  BY <1>1, FS_Subset
<1>4. SumFunction(G) \in Nat
  BY <1>1, <1>3, SumType
<1> QED BY <1>1, <1>2, <1>4

\* A sum is that of all but the last, and the last.
LEMMA SumLast ==
    ASSUME NEW n \in Nat, NEW F \in [1 .. n + 1 -> Nat], NEW G \in [1 .. n -> Nat], \A i \in 1 .. n : F[i] = G[i]
    PROVE  SumFunction(F) = SumFunction(G) + F[n + 1]
<1>1. IsFiniteSet(1 .. n + 1)
  BY FS_Interval
<1>2. n + 1 \in 1 .. n + 1 /\ (1 .. n + 1) \ {n + 1} = 1 .. n
  OBVIOUS
<1>3. IsLess(F, G, 1 .. n + 1, n + 1)
  BY <1>1, <1>2 DEF IsLess
<1> QED BY <1>3, LessSum

\* One put last adds what it weighs.
LEMMA WeighedAppend ==
    ASSUME NEW E, NEW list \in Seq(E), NEW w \in [E -> Nat], NEW e \in E
    PROVE  Weighed(Append(list, e), w) = Weighed(list, w) + w[e]
<1> DEFINE n == Len(list)
           F == [i \in DOMAIN Append(list, e) |-> w[Append(list, e)[i]]]
           G == [i \in DOMAIN list |-> w[list[i]]]
<1>1. n \in Nat /\ DOMAIN list = 1 .. n /\ \A i \in 1 .. n : list[i] \in E
  OBVIOUS
<1>2. DOMAIN Append(list, e) = 1 .. n + 1 /\ Append(list, e)[n + 1] = e /\ \A i \in 1 .. n : Append(list, e)[i] = list[i]
  BY AppendProperties
<1>3. F \in [1 .. n + 1 -> Nat] /\ G \in [1 .. n -> Nat] /\ F[n + 1] = w[e] /\ \A i \in 1 .. n : F[i] = G[i]
  BY <1>1, <1>2
<1>4. SumFunction(F) = SumFunction(G) + w[e]
  <2> HIDE DEF F, G, n
  <2> QED BY <1>1, <1>3, SumLast
<1> QED BY <1>4 DEF Weighed

\* The hypotheses of the facts below, as one.
Weighable(E, list, w) == list \in Seq(E) /\ w \in [E -> Nat]

\* One put by another adds the difference.
LEMMA WeighedGrown ==
    ASSUME NEW E, NEW list, NEW w, NEW e \in E, Weighable(E, list, w)
    PROVE  /\ Weighed(Append(list, e), w) = Weighed(list, w) + w[e]
           /\ Weighable(E, Append(list, e), w)
           /\ Weighed(list, w) \in Nat /\ w[e] \in Nat
<1>1. list \in Seq(E) /\ w \in [E -> Nat]
  BY DEF Weighable
<1>2. Weighed(Append(list, e), w) = Weighed(list, w) + w[e] /\ Weighed(list, w) \in Nat
  BY <1>1, WeighedAppend, WeighedType
<1>3. Append(list, e) \in Seq(E)
  BY <1>1, AppendProperties
<1> QED BY <1>1, <1>2, <1>3 DEF Weighable

\* One of a list replaced.
IsSwap(other, list, k, E) ==
    /\ list \in Seq(E) /\ other \in Seq(E) /\ k \in DOMAIN list
    /\ DOMAIN other = DOMAIN list /\ \A i \in DOMAIN list \ {k} : other[i] = list[i]
\* A list in another order weighs what it did.
LEMMA WeighedSwap ==
    ASSUME NEW E, NEW list, NEW w \in [E -> Nat], NEW k, NEW other, IsSwap(other, list, k, E)
    PROVE  Weighed(other, w) + w[list[k]] = Weighed(list, w) + w[other[k]]
<1>0. /\ list \in Seq(E) /\ other \in Seq(E) /\ k \in DOMAIN list
      /\ DOMAIN other = DOMAIN list /\ \A i \in DOMAIN list \ {k} : other[i] = list[i]
  BY DEF IsSwap
<1> DEFINE S == DOMAIN list
           F == [i \in DOMAIN other |-> w[other[i]]]
           G == [i \in DOMAIN list |-> w[list[i]]]
<1>1. F \in [S -> Nat] /\ G \in [S -> Nat] /\ F[k] = w[other[k]] /\ G[k] = w[list[k]] /\ \A i \in S \ {k} : F[i] = G[i]
  BY <1>0
<1>2. IsFiniteSet(S)
  BY <1>0, WeighedType
<1>3. SumFunction(F) + G[k] = SumFunction(G) + F[k]
  <2> HIDE DEF F, G, S
  <2> QED BY <1>0, <1>1, <1>2, SumGrown DEF S
<1> QED BY <1>1, <1>3 DEF Weighed

\* The one list holds what the other does, each at the place p says.
IsShuffle(other, list, p) ==
    /\ p \in [DOMAIN other -> DOMAIN list]
    /\ \A i \in DOMAIN other : other[i] = list[p[i]]
    /\ \A a, c \in DOMAIN other : p[a] = p[c] => a = c
    /\ \A b \in DOMAIN list : \E a \in DOMAIN other : p[a] = b

\* Two lists that are shuffles of each other weigh the same by any weight.
LEMMA WeighedMoved ==
    ASSUME NEW E, NEW list \in Seq(E), NEW w \in [E -> Nat], NEW other \in Seq(E), NEW p, IsShuffle(other, list, p)
    PROVE  Weighed(other, w) = Weighed(list, w)
<1> DEFINE A == DOMAIN other
           B == DOMAIN list
           F == [i \in B |-> w[list[i]]]
           H == [i \in A |-> w[other[i]]]
<1>1. IsFiniteSet(A) /\ IsFiniteSet(B) /\ F \in [B -> Nat]
  BY WeighedType
<1>2. /\ p \in [A -> B] /\ (\A i \in A : other[i] = list[p[i]]) /\ (\A a, c \in A : p[a] = p[c] => a = c)
      /\ \A b \in B : \E a \in A : p[a] = b
  BY DEF IsShuffle
<1>3. \A a \in A : H[a] = F[p[a]]
  BY <1>2
<1>4. H \in [A -> Nat]
  BY WeighedType
<1>5. IsMoved(H, F, A, B, p)
  <2> HIDE DEF A, B, F, H
  <2> QED BY <1>1, <1>2, <1>3, <1>4 DEF IsMoved
<1>6. SumFunction(H) = SumFunction(F)
  <2> HIDE DEF A, B, F, H
  <2> QED BY <1>5, SumMoved
<1> QED BY <1>6 DEF Weighed

\* The first n of a list.
LEMMA FirstOnes ==
    ASSUME NEW E, NEW list \in Seq(E)
    PROVE  /\ SubSeq(list, 1, 0) = <<>> /\ SubSeq(list, 1, Len(list)) = list
           /\ \A n \in 0 .. Len(list) : SubSeq(list, 1, n) \in Seq(E) /\ Len(SubSeq(list, 1, n)) = n
                                        /\ \A i \in 1 .. n : SubSeq(list, 1, n)[i] = list[i]
           /\ \A n \in 0 .. Len(list) - 1 : SubSeq(list, 1, n + 1) = Append(SubSeq(list, 1, n), list[n + 1])
<1>1. SubSeq(list, 1, 0) = <<>>
  OBVIOUS
<1>2. SubSeq(list, 1, Len(list)) = list
  BY SubSeqFull
<1>3. ASSUME NEW n \in 0 .. Len(list)
      PROVE  SubSeq(list, 1, n) \in Seq(E) /\ Len(SubSeq(list, 1, n)) = n
             /\ \A i \in 1 .. n : SubSeq(list, 1, n)[i] = list[i]
  <2>1. Len(list) \in Nat /\ \A i \in 1 .. Len(list) : list[i] \in E
    OBVIOUS
  <2> QED BY <2>1, SubSeqProperties
<1>4. ASSUME NEW n \in 0 .. Len(list) - 1
      PROVE  SubSeq(list, 1, n + 1) = Append(SubSeq(list, 1, n), list[n + 1])
  <2>1. Len(list) \in Nat /\ n \in 0 .. Len(list) /\ n + 1 \in 0 .. Len(list) /\ list[n + 1] \in E
    OBVIOUS
  <2> DEFINE a == SubSeq(list, 1, n)
             b == SubSeq(list, 1, n + 1)
  <2>2. a \in Seq(E) /\ Len(a) = n /\ b \in Seq(E) /\ Len(b) = n + 1
        /\ (\A i \in 1 .. n : a[i] = list[i]) /\ \A i \in 1 .. n + 1 : b[i] = list[i]
    BY <1>3, <2>1
  <2> HIDE DEF a, b
  <2>3. Append(a, list[n + 1]) \in Seq(E) /\ Len(Append(a, list[n + 1])) = n + 1
        /\ \A i \in 1 .. n + 1 : Append(a, list[n + 1])[i] = list[i]
    BY <2>1, <2>2, AppendProperties
  <2> QED BY <2>2, <2>3, SeqEqual DEF a, b
<1> QED BY <1>1, <1>2, <1>3, <1>4

\* A list after another, one more of it at a time.
LEMMA ConcatAppend ==
    ASSUME NEW E, NEW list \in Seq(E), NEW some \in Seq(E), NEW e \in E
    PROVE  list \o Append(some, e) = Append(list \o some, e) /\ list \o some \in Seq(E)
<1> DEFINE a == list \o Append(some, e)
           b == Append(list \o some, e)
           m == Len(list)
           n == Len(some)
<1>1. m \in Nat /\ n \in Nat /\ Append(some, e) \in Seq(E) /\ Len(Append(some, e)) = n + 1
      /\ Append(some, e)[n + 1] = e /\ \A i \in 1 .. n : Append(some, e)[i] = some[i]
  BY AppendProperties
<1>2. list \o some \in Seq(E) /\ Len(list \o some) = m + n
      /\ \A i \in 1 .. m + n : (list \o some)[i] = IF i <= m THEN list[i] ELSE some[i - m]
  BY ConcatProperties
<1>3. a \in Seq(E) /\ Len(a) = m + n + 1
      /\ \A i \in 1 .. m + n + 1 : a[i] = IF i <= m THEN list[i] ELSE Append(some, e)[i - m]
  BY <1>1, ConcatProperties
<1>4. b \in Seq(E) /\ Len(b) = m + n + 1 /\ b[m + n + 1] = e /\ \A i \in 1 .. m + n : b[i] = (list \o some)[i]
  BY <1>1, <1>2, AppendProperties
<1> HIDE DEF a, b, m, n
<1>5. \A i \in 1 .. m + n + 1 : a[i] = b[i]
  <2> TAKE i \in 1 .. m + n + 1
  <2>1. CASE i = m + n + 1
    <3>1. i \in 1 .. m + n + 1 /\ ~(i <= m) /\ i - m = n + 1
      BY <1>1, <2>1
    <3>2. a[i] = Append(some, e)[i - m]
      BY <1>3, <3>1
    <3> QED BY <1>1, <1>4, <2>1, <3>1, <3>2
  <2>2. CASE i # m + n + 1
    <3>1. i \in 1 .. m + n
      BY <1>1, <2>2
    <3>2. b[i] = (list \o some)[i]
      BY <1>4, <3>1
    <3>3. CASE i <= m
      BY <1>2, <1>3, <3>1, <3>2, <3>3
    <3>4. CASE ~(i <= m)
      <4>1. i - m \in 1 .. n
        BY <1>1, <3>1, <3>4
      <4>2. a[i] = some[i - m]
        BY <1>1, <1>3, <3>4, <4>1
      <4> QED BY <1>2, <3>1, <3>2, <3>4, <4>2
    <3> QED BY <3>3, <3>4
  <2> QED BY <2>1, <2>2
<1>6. a = b
  BY <1>1, <1>3, <1>4, <1>5, SeqEqual
<1> QED BY <1>2, <1>6 DEF a, b

\* Two lists one after the other weigh what both do.
LEMMA WeighedConcat ==
    ASSUME NEW E, NEW list \in Seq(E), NEW w \in [E -> Nat], NEW more \in Seq(E)
    PROVE  Weighed(list \o more, w) = Weighed(list, w) + Weighed(more, w)
<1> DEFINE T == {n \in Nat : n <= Len(more) =>
                    Weighed(list \o SubSeq(more, 1, n), w) = Weighed(list, w) + Weighed(SubSeq(more, 1, n), w)}
<1>1. Len(more) \in Nat /\ Weighed(list, w) \in Nat
  BY WeighedType
<1>2. 0 \in T
  <2>1. SubSeq(more, 1, 0) = <<>> /\ list \o <<>> = list
    BY FirstOnes, ConcatEmptySeq
  <2>2. Weighed(list \o SubSeq(more, 1, 0), w) = Weighed(list, w) + Weighed(SubSeq(more, 1, 0), w)
    <3>1. Weighed(SubSeq(more, 1, 0), w) = 0
      BY <2>1, WeighedNone
    <3>2. Weighed(list \o SubSeq(more, 1, 0), w) = Weighed(list, w)
      BY <2>1
    <3> QED BY <3>1, <3>2, <1>1
  <2> QED BY <2>2
<1>3. ASSUME NEW n \in Nat, n \in T PROVE n + 1 \in T
  <2> SUFFICES ASSUME n + 1 <= Len(more)
               PROVE  Weighed(list \o SubSeq(more, 1, n + 1), w) = Weighed(list, w) + Weighed(SubSeq(more, 1, n + 1), w)
    OBVIOUS
  <2> DEFINE some == SubSeq(more, 1, n)
             e == more[n + 1]
  <2>1. n \in 0 .. Len(more) - 1 /\ n \in 0 .. Len(more) /\ e \in E
    OBVIOUS
  <2>2. SubSeq(more, 1, n + 1) = Append(some, e) /\ some \in Seq(E)
    BY <2>1, FirstOnes
  <2>3. Weighed(list \o some, w) = Weighed(list, w) + Weighed(some, w)
    BY <1>3, <2>1
  <2> HIDE DEF some, e
  <2>4. list \o Append(some, e) = Append(list \o some, e) /\ list \o some \in Seq(E)
    BY <2>1, <2>2, ConcatAppend
  <2>5. Weighed(Append(list \o some, e), w) = Weighed(list \o some, w) + w[e]
    BY <2>1, <2>4, WeighedAppend
  <2>6. Weighed(Append(some, e), w) = Weighed(some, w) + w[e]
    BY <2>1, <2>2, WeighedAppend
  <2>7. Weighed(some, w) \in Nat /\ w[e] \in Nat
    BY <2>1, <2>2, WeighedType
  <2>8. Weighed(list \o SubSeq(more, 1, n + 1), w) = Weighed(list \o some, w) + w[e]
    BY <2>2, <2>4, <2>5
  <2>9. Weighed(SubSeq(more, 1, n + 1), w) = Weighed(some, w) + w[e]
    BY <2>2, <2>6
  <2> QED BY <1>1, <2>3, <2>7, <2>8, <2>9
<1>4. \A n \in Nat : n \in T
  <2> HIDE DEF T
  <2> QED BY <1>2, <1>3, NatSetInduction
<1>5. Weighed(list \o SubSeq(more, 1, Len(more)), w) = Weighed(list, w) + Weighed(SubSeq(more, 1, Len(more)), w)
  BY <1>1, <1>4
<1> QED BY <1>5, FirstOnes

\* A list weighs what its head does and its tail.
LEMMA WeighedTail ==
    ASSUME NEW E, NEW list \in Seq(E), NEW w \in [E -> Nat], list # <<>>
    PROVE  Weighed(list, w) = w[Head(list)] + Weighed(Tail(list), w)
<1>1. Head(list) \in E /\ Tail(list) \in Seq(E) /\ <<Head(list)>> \in Seq(E) /\ list = <<Head(list)>> \o Tail(list)
  BY HeadTailProperties
<1>2. Weighed(list, w) = Weighed(<<Head(list)>>, w) + Weighed(Tail(list), w)
  BY <1>1, WeighedConcat
<1>3. Weighed(Append(<<>>, Head(list)), w) = Weighed(<<>>, w) + w[Head(list)]
  <2>1. <<>> \in Seq(E)
    BY EmptySeq
  <2> QED BY <1>1, <2>1, WeighedAppend
<1>4. Append(<<>>, Head(list)) = <<Head(list)>>
  BY <1>1
<1> QED BY <1>1, <1>2, <1>3, <1>4, WeighedNone, WeighedType

\* The first of a list come to no more than all of it.
LEMMA WeighedFirst ==
    ASSUME NEW E, NEW list \in Seq(E), NEW w \in [E -> Nat], NEW n \in 0 .. Len(list)
    PROVE  Weighed(SubSeq(list, 1, n), w) <= Weighed(list, w)
<1> DEFINE T == {d \in Nat : d <= Len(list) - n => Weighed(SubSeq(list, 1, n), w) <= Weighed(SubSeq(list, 1, n + d), w)}
<1>1. Len(list) \in Nat
  OBVIOUS
<1>2. 0 \in T
  <2>1. Weighed(SubSeq(list, 1, n), w) \in Nat
    BY FirstOnes, WeighedType
  <2> QED BY <2>1
<1>3. ASSUME NEW d \in Nat, d \in T PROVE d + 1 \in T
  <2> SUFFICES ASSUME d + 1 <= Len(list) - n
               PROVE  Weighed(SubSeq(list, 1, n), w) <= Weighed(SubSeq(list, 1, n + (d + 1)), w)
    OBVIOUS
  <2>1. n + d \in 0 .. Len(list) - 1 /\ n + d \in 0 .. Len(list) /\ list[n + d + 1] \in E /\ n + (d + 1) = n + d + 1
    OBVIOUS
  <2>2. SubSeq(list, 1, n + d + 1) = Append(SubSeq(list, 1, n + d), list[n + d + 1]) /\ SubSeq(list, 1, n + d) \in Seq(E)
    BY <2>1, FirstOnes
  <2>3. Weighed(Append(SubSeq(list, 1, n + d), list[n + d + 1]), w) = Weighed(SubSeq(list, 1, n + d), w) + w[list[n + d + 1]]
    BY <2>1, <2>2, WeighedAppend
  <2>4. Weighed(SubSeq(list, 1, n + d), w) \in Nat /\ w[list[n + d + 1]] \in Nat /\ Weighed(SubSeq(list, 1, n), w) \in Nat
    BY <2>1, <2>2, FirstOnes, WeighedType
  <2>5. Weighed(SubSeq(list, 1, n), w) <= Weighed(SubSeq(list, 1, n + d), w)
    BY <1>3
  <2>6. Weighed(SubSeq(list, 1, n + d + 1), w) = Weighed(SubSeq(list, 1, n + d), w) + w[list[n + d + 1]]
    BY <2>2, <2>3
  <2>7. Weighed(SubSeq(list, 1, n), w) <= Weighed(SubSeq(list, 1, n + d + 1), w)
    BY <2>4, <2>5, <2>6
  <2> QED BY <2>1, <2>7
<1>4. \A d \in Nat : d \in T
  <2> HIDE DEF T
  <2> QED BY <1>2, <1>3, NatSetInduction
<1>5. Weighed(SubSeq(list, 1, n), w) <= Weighed(SubSeq(list, 1, n + (Len(list) - n)), w)
  BY <1>1, <1>4
<1>6. n + (Len(list) - n) = Len(list)
  BY <1>1
<1> QED BY <1>5, <1>6, FirstOnes

\* What some of a list come to, or all of it.
LEMMA WeighedLone ==
    ASSUME NEW E, NEW list, NEW w, Weighable(E, list, w)
    PROVE  /\ (\A j \in DOMAIN list : w[list[j]] = 0) => Weighed(list, w) = 0
           /\ \A i \in DOMAIN list :
                 /\ Weighed(list, w) >= w[list[i]]
                 /\ (\A j \in DOMAIN list \ {i} : w[list[j]] = 0) => Weighed(list, w) = w[list[i]]
                 /\ \A j \in DOMAIN list \ {i} : Weighed(list, w) >= w[list[i]] + w[list[j]]
<1> DEFINE S == DOMAIN list
           F == [i \in S |-> w[list[i]]]
<1>1. IsFiniteSet(S) /\ F \in [S -> Nat]
  <2>1. list \in Seq(E) /\ w \in [E -> Nat]
    BY DEF Weighable
  <2> QED BY <2>1, WeighedType
<1>2. ASSUME \A j \in DOMAIN list : w[list[j]] = 0 PROVE Weighed(list, w) = 0
  <2>1. \A j \in S : F[j] = 0
    BY <1>2
  <2>2. SumFunction(F) = 0
    <3> HIDE DEF S, F
    <3> QED BY <1>1, <2>1, SumSame
  <2> QED BY <2>2 DEF Weighed
<1>3. ASSUME NEW i \in S
      PROVE  /\ Weighed(list, w) >= w[list[i]]
             /\ (\A j \in S \ {i} : w[list[j]] = 0) => Weighed(list, w) = w[list[i]]
             /\ \A j \in S \ {i} : Weighed(list, w) >= w[list[i]] + w[list[j]]
  <2> DEFINE R == S \ {i}
             G == [j \in R |-> F[j]]
  <2>1. G \in [R -> Nat] /\ IsFiniteSet(R)
    BY <1>1, FS_Subset
  <2>2. IsLess(F, G, S, i)
    <3> HIDE DEF F
    <3> QED BY <1>1, <2>1 DEF IsLess
  <2>3. SumFunction(F) = SumFunction(G) + F[i]
    BY <2>2, LessSum
  <2>4. SumFunction(G) \in Nat
    <3> HIDE DEF G, R
    <3> QED BY <2>1, SumType
  <2>5. F[i] \in Nat /\ F[i] = w[list[i]] /\ Weighed(list, w) = SumFunction(F)
    BY <1>1 DEF Weighed
  <2>6. ASSUME \A j \in S \ {i} : w[list[j]] = 0 PROVE SumFunction(G) = 0
    <3>1. \A j \in R : G[j] = 0
      BY <2>6
    <3> HIDE DEF G, R
    <3> QED BY <2>1, <3>1, SumSame
  <2>7. ASSUME NEW j \in S \ {i} PROVE SumFunction(G) >= w[list[j]]
    <3> DEFINE Q == R \ {j}
               H == [x \in Q |-> G[x]]
    <3>1. H \in [Q -> Nat] /\ IsFiniteSet(Q)
      <4>1. IsFiniteSet(Q)
        BY <2>1, FS_Subset
      <4> HIDE DEF G, R
      <4> QED BY <2>1, <4>1
    <3>2. IsLess(G, H, R, j)
      <4>1. j \in R
        OBVIOUS
      <4> HIDE DEF G, R
      <4> QED BY <2>1, <3>1, <4>1 DEF IsLess
    <3>3. SumFunction(G) = SumFunction(H) + G[j]
      BY <3>2, LessSum
    <3>4. SumFunction(H) \in Nat
      <4> HIDE DEF H, Q
      <4> QED BY <3>1, SumType
    <3>5. G[j] = w[list[j]] /\ G[j] \in Nat
      BY <1>1
    <3> HIDE DEF G, H
    <3> QED BY <3>3, <3>4, <3>5
  <2>8. \A j \in S \ {i} : w[list[j]] \in Nat
    BY <1>1
  <2> HIDE DEF F, G
  <2>9. Weighed(list, w) >= w[list[i]]
    BY <2>3, <2>4, <2>5
  <2>10. (\A j \in S \ {i} : w[list[j]] = 0) => Weighed(list, w) = w[list[i]]
    BY <2>3, <2>4, <2>5, <2>6
  <2>11. ASSUME NEW j \in S \ {i} PROVE Weighed(list, w) >= w[list[i]] + w[list[j]]
    <3>1. SumFunction(G) >= w[list[j]] /\ w[list[j]] \in Nat
      BY <2>7, <2>8
    <3> QED BY <2>3, <2>4, <2>5, <3>1
  <2> QED BY <2>9, <2>10, <2>11
<1> QED BY <1>2, <1>3
=============================================================================
