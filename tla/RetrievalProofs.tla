--------------------------- MODULE RetrievalProofs ---------------------------
(***************************************************************************)
(* Proofs about Retrieval, for any number of threads, any lists of rows,   *)
(* any similarities and any scores a reranker may give. The algorithms     *)
(* come first (a stable sort, the selection of positions, fusion, MMR):    *)
(* what each returns for every input. Then the invariant that carries      *)
(* those facts from stage to stage of a request, and the counters.         *)
(***************************************************************************)
EXTENDS Retrieval, FiniteSetTheorems, WellFoundedInduction, TLAPS

-----------------------------------------------------------------------------
(* Numbers and orders                                                        *)

\* Induction, for the members of a set.
LEMMA NatSetInduction ==
  ASSUME NEW G, 0 \in G, \A n \in Nat : n \in G => n + 1 \in G
  PROVE  Nat \subseteq G
<1> DEFINE R == OpToRel(<, Nat)
           B == {n \in Nat : n \notin G}
<1>1. IsWellFoundedOn(R, Nat)
  BY NatLessThanWellFounded
<1>2. SUFFICES ASSUME B # {} PROVE FALSE
  OBVIOUS
<1>3. PICK n \in B : \A m \in B : ~(<<m, n>> \in R)
  <2> HIDE DEF R
  <2>1. QED
    BY <1>1, <1>2, WFMin
<1>4. n \in Nat /\ n # 0 /\ n \notin G
  OBVIOUS
<1>5. n - 1 \in Nat /\ n - 1 < n /\ (n - 1) + 1 = n
  BY <1>4
<1>6. <<n - 1, n>> \in R
  BY <1>4, <1>5 DEF OpToRel
<1>7. n - 1 \in G
  BY <1>3, <1>5, <1>6
<1>8. QED
  BY <1>4, <1>5, <1>7

\* A set of numbers has a least one, and Min is it.
LEMMA MinOf ==
  ASSUME NEW S \in SUBSET Nat, S # {}
  PROVE  Min(S) \in S /\ \A y \in S : Min(S) <= y
<1> DEFINE R == OpToRel(<, Nat)
<1>1. IsWellFoundedOn(R, Nat)
  BY NatLessThanWellFounded
<1>2. PICK n \in S : \A m \in S : ~(<<m, n>> \in R)
  <2> HIDE DEF R
  <2>1. QED
    BY <1>1, WFMin
<1>3. \A m \in S : n <= m
  <2> SUFFICES ASSUME NEW m \in S, ~(n <= m) PROVE FALSE
    OBVIOUS
  <2>1. m \in Nat /\ n \in Nat /\ m < n
    OBVIOUS
  <2>2. <<m, n>> \in R
    BY <2>1 DEF OpToRel
  <2>3. QED
    BY <1>2, <2>2
<1>4. QED
  BY <1>3, Zenon DEF Min

LEMMA MinOfTwo ==
  ASSUME NEW a \in Int, NEW b \in Int
  PROVE  Min({a, b}) = IF a <= b THEN a ELSE b
<1>1. CASE a <= b
  BY <1>1 DEF Min
<1>2. CASE ~(a <= b)
  BY <1>2 DEF Min
<1>3. QED
  BY <1>1, <1>2

\* How many members of S stand before i in the relation R.
Before(S, R, i) == {j \in S : <<j, i>> \in R}

StrictOrder(S, R) ==
  /\ \A i \in S : <<i, i>> \notin R
  /\ \A i, j \in S : i = j \/ <<i, j>> \in R \/ <<j, i>> \in R
  /\ \A i, j, k \in S : <<i, j>> \in R /\ <<j, k>> \in R => <<i, k>> \in R

\* In a finite strict total order every rank is taken, by one member.
LEMMA Ranked ==
  ASSUME NEW S, IsFiniteSet(S), NEW R, StrictOrder(S, R)
  PROVE  /\ Cardinality(S) \in Nat
         /\ \A i \in S : Cardinality(Before(S, R, i)) \in 0 .. Cardinality(S) - 1
         /\ \A n \in 0 .. Cardinality(S) - 1 : \E i \in S : Cardinality(Before(S, R, i)) = n
         /\ \A i, j \in S : <<i, j>> \in R =>
              Cardinality(Before(S, R, i)) < Cardinality(Before(S, R, j))
         /\ \A i, j \in S : Cardinality(Before(S, R, i)) = Cardinality(Before(S, R, j)) => i = j
<1> DEFINE rank == [i \in S |-> Cardinality(Before(S, R, i))]
           N == Cardinality(S)
<1>1. N \in Nat
  BY FS_CardinalityType
<1>2. ASSUME NEW i \in S PROVE IsFiniteSet(Before(S, R, i)) /\ rank[i] \in 0 .. N - 1
  <2>1. Before(S, R, i) \in SUBSET S /\ i \notin Before(S, R, i)
    BY DEF Before, StrictOrder
  <2>2. /\ IsFiniteSet(Before(S, R, i)) /\ Cardinality(Before(S, R, i)) <= N
        /\ N = Cardinality(Before(S, R, i)) => S = Before(S, R, i)
    BY <2>1, FS_Subset
  <2>3. Cardinality(Before(S, R, i)) \in Nat
    BY <2>2, FS_CardinalityType
  <2>4. QED
    BY <1>1, <2>1, <2>2, <2>3
<1>3. ASSUME NEW i \in S, NEW j \in S, <<i, j>> \in R PROVE rank[i] < rank[j]
  <2>1. Before(S, R, i) \in SUBSET Before(S, R, j)
    BY <1>3 DEF Before, StrictOrder
  <2>2. i \in Before(S, R, j) /\ i \notin Before(S, R, i)
    BY <1>3 DEF Before, StrictOrder
  <2>3. /\ Cardinality(Before(S, R, i)) <= Cardinality(Before(S, R, j))
        /\ Cardinality(Before(S, R, j)) # Cardinality(Before(S, R, i))
    BY <1>2, <2>1, <2>2, FS_Subset
  <2>4. rank[i] \in 0 .. N - 1 /\ rank[j] \in 0 .. N - 1
    BY <1>2
  <2>5. rank[i] <= rank[j] /\ rank[j] # rank[i]
    BY <2>3
  <2> HIDE DEF rank, N
  <2>6. QED
    BY <1>1, <2>4, <2>5
<1>4. \A i, j \in S : rank[i] = rank[j] => i = j
  <2> SUFFICES ASSUME NEW i \in S, NEW j \in S, i # j PROVE rank[i] # rank[j]
    OBVIOUS
  <2>1. rank[i] \in 0 .. N - 1 /\ rank[j] \in 0 .. N - 1
    BY <1>2
  <2> HIDE DEF rank, N
  <2>2. rank[i] \in Int /\ rank[j] \in Int
    BY <1>1, <2>1
  <2>3. CASE <<i, j>> \in R
    BY <1>3, <2>2, <2>3
  <2>4. CASE <<j, i>> \in R
    BY <1>3, <2>2, <2>4
  <2>5. QED
    BY <2>3, <2>4 DEF StrictOrder
<1>5. rank \in Injection(S, 0 .. N - 1)
  <2>1. rank \in [S -> 0 .. N - 1]
    BY <1>2
  <2> HIDE DEF rank
  <2>2. QED
    BY <1>4, <2>1 DEF Injection, IsInjective
<1>6. rank \in Surjection(S, 0 .. N - 1)
  <2> HIDE DEF N
  <2>1. IsFiniteSet(0 .. N - 1) /\ Cardinality(0 .. N - 1) = N
    <3>1. 0 \in Int /\ N - 1 \in Int
      BY <1>1
    <3>2. /\ IsFiniteSet(0 .. N - 1)
          /\ Cardinality(0 .. N - 1) = IF 0 > N - 1 THEN 0 ELSE (N - 1) - 0 + 1
      BY <3>1, FS_Interval
    <3>3. QED
      BY <1>1, <3>2
  <2>2. Cardinality(S) = Cardinality(0 .. N - 1)
    BY <2>1 DEF N
  <2> HIDE DEF rank
  <2>3. QED
    BY <1>5, <2>1, <2>2, FS_Injection
<1>7. \A n \in 0 .. N - 1 : \E i \in S : rank[i] = n
  <2> HIDE DEF rank
  <2>1. QED
    BY <1>6 DEF Surjection
<1>8. QED
  BY <1>1, <1>2, <1>3, <1>4, <1>7

\* In particular the first.
LEMMA RankTaken ==
  ASSUME NEW S, IsFiniteSet(S), NEW R, StrictOrder(S, R)
  PROVE  \A n \in 0 .. Cardinality(S) - 1 : \E i \in S : Cardinality(Before(S, R, i)) = n
BY Ranked

\* The order of sorted(..., reverse=True): by falling key, and by position where keys are equal.
Falling(S, key) ==
  {p \in S \X S : key[p[1]] > key[p[2]] \/ (key[p[1]] = key[p[2]] /\ p[1] < p[2])}

LEMMA FallingIs ==
  ASSUME NEW S \in SUBSET Nat, NEW key \in [S -> Int]
  PROVE  /\ StrictOrder(S, Falling(S, key))
         /\ \A i, j \in S : <<i, j>> \in Falling(S, key) <=>
                              key[i] > key[j] \/ (key[i] = key[j] /\ i < j)
<1> DEFINE R == Falling(S, key)
<1>0. ASSUME NEW i \in S PROVE i \in Nat /\ key[i] \in Int
  OBVIOUS
<1>1. ASSUME NEW i \in S, NEW j \in S
      PROVE  <<i, j>> \in R <=> key[i] > key[j] \/ (key[i] = key[j] /\ i < j)
  BY DEF Falling
<1> HIDE DEF R
<1>2. ASSUME NEW i \in S PROVE <<i, i>> \notin R
  BY <1>0, <1>1
<1>3. ASSUME NEW i \in S, NEW j \in S PROVE i = j \/ <<i, j>> \in R \/ <<j, i>> \in R
  <2>1. i \in Nat /\ j \in Nat /\ key[i] \in Int /\ key[j] \in Int
    BY <1>0
  <2>2. \/ i = j \/ (key[i] > key[j] \/ (key[i] = key[j] /\ i < j))
        \/ (key[j] > key[i] \/ (key[j] = key[i] /\ j < i))
    BY <2>1
  <2>3. QED
    BY <1>1, <2>2
<1>4. ASSUME NEW i \in S, NEW j \in S, NEW k \in S, <<i, j>> \in R, <<j, k>> \in R
      PROVE  <<i, k>> \in R
  <2>1. i \in Nat /\ j \in Nat /\ k \in Nat /\ key[i] \in Int /\ key[j] \in Int /\ key[k] \in Int
    BY <1>0
  <2>2. /\ key[i] > key[j] \/ (key[i] = key[j] /\ i < j)
        /\ key[j] > key[k] \/ (key[j] = key[k] /\ j < k)
    BY <1>1, <1>4
  <2>3. key[i] > key[k] \/ (key[i] = key[k] /\ i < k)
    BY <2>1, <2>2
  <2>4. QED
    BY <1>1, <2>3
<1>5. StrictOrder(S, R)
  BY <1>2, <1>3, <1>4 DEF StrictOrder
<1>6. QED
  BY <1>1, <1>5 DEF R

\* A function on a finite set of numbers has a greatest value.
LEMMA ArgMax ==
  ASSUME NEW T \in SUBSET Nat, IsFiniteSet(T), T # {}, NEW f \in [T -> Int]
  PROVE  \E m \in T : \A j \in T : f[j] <= f[m]
<1> DEFINE R == Falling(T, f)
<1>0. StrictOrder(T, R)
  BY FallingIs
<1>1. \A i, j \in T : <<i, j>> \in R <=> f[i] > f[j] \/ (f[i] = f[j] /\ i < j)
  BY FallingIs
<1> HIDE DEF R
<1>4. Cardinality(T) \in Nat /\ Cardinality(T) # 0
  BY FS_CardinalityType, FS_EmptySet
<1>5. 0 \in 0 .. Cardinality(T) - 1
  BY <1>4
<1>6. PICK m \in T : Cardinality(Before(T, R, m)) = 0
  <2>1. \A n \in 0 .. Cardinality(T) - 1 : \E i \in T : Cardinality(Before(T, R, i)) = n
    BY <1>0, RankTaken
  <2>2. QED
    BY <1>5, <2>1
<1>7. Before(T, R, m) = {}
  <2>1. Before(T, R, m) \in SUBSET T
    BY DEF Before
  <2>2. QED
    BY <1>6, <2>1, FS_Subset, FS_EmptySet
<1>8. \A j \in T : <<j, m>> \notin R
  BY <1>7 DEF Before
<1>9. ASSUME NEW j \in T PROVE f[j] <= f[m]
  <2>1. ~(f[j] > f[m]) /\ f[j] \in Int /\ f[m] \in Int
    BY <1>1, <1>8
  <2>2. QED
    BY <2>1
<1>10. QED
  BY <1>9

-----------------------------------------------------------------------------
(* Lists                                                                     *)

\* The positions of a list.
LEMMA Positions ==
  ASSUME NEW T, NEW s \in Seq(T)
  PROVE  /\ Len(s) \in Nat /\ DOMAIN s = 1 .. Len(s) /\ DOMAIN s \in SUBSET Nat
         /\ IsFiniteSet(DOMAIN s) /\ Cardinality(DOMAIN s) = Len(s)
         /\ s = <<>> <=> DOMAIN s = {}
         /\ s = <<>> <=> Len(s) = 0
<1>1. Len(s) \in Nat /\ DOMAIN s = 1 .. Len(s)
  OBVIOUS
<1>2. IsFiniteSet(1 .. Len(s)) /\ Cardinality(1 .. Len(s)) = Len(s)
  BY <1>1, FS_Interval
<1>3. s = <<>> <=> Len(s) = 0
  OBVIOUS
<1>4. (1 .. Len(s)) = {} <=> Len(s) = 0
  BY <1>1, <1>2, FS_EmptySet
<1>5. QED
  BY <1>1, <1>2, <1>3, <1>4

\* A list of members of U is a list over U.
LEMMA SeqIn ==
  ASSUME NEW T, NEW s \in Seq(T), NEW U, \A n \in DOMAIN s : s[n] \in U
  PROVE  s \in Seq(U)
<1>1. Len(s) \in Nat /\ DOMAIN s = 1 .. Len(s)
  OBVIOUS
<1>2. s \in [1 .. Len(s) -> U]
  BY <1>1
<1>3. QED
  BY <1>1, <1>2

\* sorted: a list of the same length, of members of the old one, and descending.
LEMMA SortedIs ==
  ASSUME NEW T, NEW s \in Seq(T), \A i \in DOMAIN s : s[i].score \in Int
  PROVE  /\ Sorted(s) \in Seq(T) /\ Len(Sorted(s)) = Len(s)
         /\ \A n \in DOMAIN Sorted(s) : \E i \in DOMAIN s : Sorted(s)[n] = s[i]
         /\ \A m, n \in DOMAIN Sorted(s) : m < n => Sorted(s)[m].score >= Sorted(s)[n].score
<1> DEFINE D == DOMAIN s
           key == [i \in D |-> s[i].score]
           R == Falling(D, key)
           At0(n) == CHOOSE i \in D : Cardinality(Above(s, i)) = n - 1
<1>0. /\ Len(s) \in Nat /\ D = 1 .. Len(s) /\ D \in SUBSET Nat
      /\ IsFiniteSet(D) /\ Cardinality(D) = Len(s)
  BY Positions
<1> HIDE DEF D
<1>2. key \in [D -> Int] /\ \A i \in D : key[i] = s[i].score
  BY DEF D
<1> HIDE DEF key
<1>3. StrictOrder(D, R)
  BY <1>0, <1>2, FallingIs
<1>1. \A i, j \in D : <<i, j>> \in R <=> \/ s[i].score > s[j].score
                                         \/ s[i].score = s[j].score /\ i < j
  <2>1. \A i, j \in D : <<i, j>> \in R <=> key[i] > key[j] \/ (key[i] = key[j] /\ i < j)
    BY <1>0, <1>2, FallingIs
  <2> HIDE DEF R
  <2>2. QED
    BY <1>2, <2>1
<1> HIDE DEF R
<1>6. \A i \in D : Above(s, i) = Before(D, R, i)
  BY <1>1 DEF Above, Before, D
<1>7. \A n \in D : At0(n) \in D /\ Cardinality(Before(D, R, At0(n))) = n - 1
  <2> SUFFICES ASSUME NEW n \in D
               PROVE  At0(n) \in D /\ Cardinality(Before(D, R, At0(n))) = n - 1
    OBVIOUS
  <2>1. n - 1 \in 0 .. Cardinality(D) - 1
    BY <1>0
  <2>2. \E i \in D : Cardinality(Before(D, R, i)) = n - 1
    BY <1>0, <1>3, <2>1, Ranked
  <2>3. \E i \in D : Cardinality(Above(s, i)) = n - 1
    BY <1>6, <2>2
  <2>4. At0(n) \in D /\ Cardinality(Above(s, At0(n))) = n - 1
    BY <2>3, Zenon
  <2>5. QED
    BY <1>6, <2>4
<1>8. Sorted(s) = [n \in D |-> s[At0(n)]]
  BY DEF Sorted, D
<1> HIDE DEF At0
<1>9. \A n \in D : Sorted(s)[n] = s[At0(n)]
  BY <1>8
<1>10. Sorted(s) \in Seq(T) /\ Len(Sorted(s)) = Len(s) /\ DOMAIN Sorted(s) = D
  <2>1. \A n \in D : s[At0(n)] \in T
    BY <1>0, <1>7
  <2>2. Sorted(s) \in [1 .. Len(s) -> T]
    BY <1>0, <1>8, <2>1
  <2>3. QED
    BY <1>0, <2>2
<1>11. ASSUME NEW m \in D, NEW n \in D, m < n
       PROVE  Sorted(s)[m].score >= Sorted(s)[n].score
  <2>1. Cardinality(Before(D, R, At0(m))) < Cardinality(Before(D, R, At0(n)))
    BY <1>0, <1>7, <1>11
  <2>2. ~(<<At0(n), At0(m)>> \in R)
    <3>1. <<At0(n), At0(m)>> \in R =>
            Cardinality(Before(D, R, At0(n))) < Cardinality(Before(D, R, At0(m)))
      BY <1>0, <1>3, <1>7, Ranked
    <3>2. Cardinality(Before(D, R, At0(m))) \in Int /\ Cardinality(Before(D, R, At0(n))) \in Int
      BY <1>0, <1>7, SMTT(40)
    <3>3. QED
      BY <2>1, <3>1, <3>2
  <2>3. ~(s[At0(n)].score > s[At0(m)].score)
    BY <1>1, <1>7, <2>2
  <2>4. s[At0(n)].score \in Int /\ s[At0(m)].score \in Int
    BY <1>2, <1>7
  <2>5. QED
    BY <1>9, <2>3, <2>4
<1>12. QED
  BY <1>7, <1>9, <1>10, <1>11 DEF D

\* At: as many members as there are positions, each of one position of its own.
LEMMA AtIs ==
  ASSUME NEW T, NEW s \in Seq(T), NEW K \in SUBSET DOMAIN s
  PROVE  /\ At(s, K) \in Seq(T) /\ Len(At(s, K)) = Cardinality(K)
         /\ K = {} <=> At(s, K) = <<>>
         /\ \E at \in [DOMAIN At(s, K) -> K] :
              /\ \A n \in DOMAIN At(s, K) : At(s, K)[n] = s[at[n]]
              /\ \A m, n \in DOMAIN At(s, K) : at[m] = at[n] => m = n
<1> DEFINE key == [i \in K |-> 0]
           R == Falling(K, key)
           N == Cardinality(K)
           At0(n) == CHOOSE i \in K : Cardinality({j \in K : j < i}) = n - 1
<1>0. K \in SUBSET Nat /\ IsFiniteSet(K) /\ N \in Nat
  BY Positions, FS_Subset, FS_CardinalityType
<1>1. key \in [K -> Int] /\ \A i \in K : key[i] = 0
  OBVIOUS
<1> HIDE DEF key
<1>2. StrictOrder(K, R)
  BY <1>0, <1>1, FallingIs
<1>3. \A i, j \in K : <<i, j>> \in R <=> i < j
  <2>1. \A i, j \in K : <<i, j>> \in R <=> key[i] > key[j] \/ (key[i] = key[j] /\ i < j)
    BY <1>0, <1>1, FallingIs
  <2> HIDE DEF R
  <2>2. ASSUME NEW i \in K, NEW j \in K PROVE <<i, j>> \in R <=> i < j
    <3>1. key[i] = 0 /\ key[j] = 0
      BY <1>1
    <3>2. QED
      BY <2>1, <3>1
  <2>3. QED
    BY <2>2
<1> HIDE DEF R
<1>5. \A i \in K : {j \in K : j < i} = Before(K, R, i)
  BY <1>3 DEF Before
<1>6. ASSUME NEW n \in 1 .. N PROVE At0(n) \in K /\ Cardinality(Before(K, R, At0(n))) = n - 1
  <2>1. n - 1 \in 0 .. Cardinality(K) - 1
    BY <1>0
  <2>2. PICK i \in K : Cardinality(Before(K, R, i)) = n - 1
    BY <1>0, <1>2, <2>1, Ranked
  <2>3. Cardinality({j \in K : j < i}) = n - 1
    BY <1>5, <2>2
  <2>4. At0(n) \in K /\ Cardinality({j \in K : j < At0(n)}) = n - 1
    BY <2>3, Zenon
  <2>5. QED
    BY <1>5, <2>4
<1>7. At(s, K) = [n \in 1 .. N |-> s[At0(n)]]
  BY DEF At
<1> HIDE DEF At0
<1> DEFINE at == [n \in 1 .. N |-> At0(n)]
<1>8. at \in [1 .. N -> K] /\ \A n \in 1 .. N : At(s, K)[n] = s[at[n]]
  BY <1>6, <1>7
<1>9. At(s, K) \in Seq(T) /\ Len(At(s, K)) = N /\ DOMAIN At(s, K) = 1 .. N
  <2>1. \A n \in 1 .. N : s[At0(n)] \in T
    BY <1>6
  <2>2. At(s, K) \in [1 .. N -> T]
    BY <1>7, <2>1
  <2>3. QED
    BY <1>0, <2>2
<1>10. \A m, n \in 1 .. N : at[m] = at[n] => m = n
  <2> SUFFICES ASSUME NEW m \in 1 .. N, NEW n \in 1 .. N, At0(m) = At0(n) PROVE m = n
    OBVIOUS
  <2>1. m - 1 = n - 1
    BY <1>6
  <2>2. QED
    BY <1>0, <2>1
<1>11. K = {} <=> At(s, K) = <<>>
  <2>1. K = {} <=> N = 0
    BY <1>0, FS_EmptySet
  <2>2. QED
    BY <1>0, <1>9, <2>1, Positions
<1> HIDE DEF at
<1>12. QED
  BY <1>8, <1>9, <1>10, <1>11

\* In particular they are members of s at those positions, and keep apart what s keeps apart.
LEMMA AtFrom ==
  ASSUME NEW T, NEW s \in Seq(T), NEW K \in SUBSET DOMAIN s
  PROVE  /\ \A n \in DOMAIN At(s, K) : \E i \in K : At(s, K)[n] = s[i]
         /\ (\A i, j \in DOMAIN s : s[i].id = s[j].id => i = j) =>
              \A m, n \in DOMAIN At(s, K) : At(s, K)[m].id = At(s, K)[n].id => m = n
<1> DEFINE a == At(s, K)
<1>1. \E at \in [DOMAIN a -> K] :
        /\ \A n \in DOMAIN a : a[n] = s[at[n]]
        /\ \A m, n \in DOMAIN a : at[m] = at[n] => m = n
  BY AtIs
<1> HIDE DEF a
<1>2. PICK at \in [DOMAIN a -> K] :
        /\ \A n \in DOMAIN a : a[n] = s[at[n]]
        /\ \A m, n \in DOMAIN a : at[m] = at[n] => m = n
  BY <1>1, Zenon
<1>3. \A n \in DOMAIN a : at[n] \in K /\ at[n] \in DOMAIN s
  OBVIOUS
<1>4. ASSUME \A i, j \in DOMAIN s : s[i].id = s[j].id => i = j,
             NEW m \in DOMAIN a, NEW n \in DOMAIN a, a[m].id = a[n].id
      PROVE  m = n
  <2>1. at[m] = at[n]
    BY <1>2, <1>3, <1>4
  <2>2. QED
    BY <1>2, <2>1
<1>5. QED
  BY <1>2, <1>3, <1>4 DEF a

\* The head of a list.
LEMMA FirstIs ==
  ASSUME NEW T, NEW s \in Seq(T), NEW k \in Nat
  PROVE  /\ First(k, s) \in Seq(T) /\ Len(First(k, s)) <= k /\ Len(First(k, s)) <= Len(s)
         /\ DOMAIN First(k, s) \subseteq DOMAIN s
         /\ \A n \in DOMAIN First(k, s) : First(k, s)[n] = s[n]
         /\ k # 0 /\ s # <<>> => First(k, s) # <<>>
<1> DEFINE m == Min({k, Len(s)})
<1>1. Len(s) \in Nat /\ m = (IF k <= Len(s) THEN k ELSE Len(s))
  BY MinOfTwo
<1>2. m \in 0 .. Len(s) /\ m <= k /\ (k # 0 /\ Len(s) # 0 => m # 0)
  BY <1>1
<1>3. First(k, s) = SubSeq(s, 1, m)
  BY DEF First
<1> HIDE DEF m
<1>4. /\ SubSeq(s, 1, m) \in Seq(T) /\ Len(SubSeq(s, 1, m)) = m
      /\ \A n \in 1 .. m : SubSeq(s, 1, m)[n] = s[n]
  BY <1>1, <1>2
<1>5. DOMAIN First(k, s) = 1 .. m /\ DOMAIN s = 1 .. Len(s)
  BY <1>3, <1>4
<1>6. s # <<>> => Len(s) # 0
  BY Positions
<1>7. m # 0 => First(k, s) # <<>>
  BY <1>3, <1>4, Positions
<1>8. k # 0 /\ s # <<>> => First(k, s) # <<>>
  BY <1>2, <1>6, <1>7
<1>9. Len(First(k, s)) = m /\ First(k, s) \in Seq(T)
  BY <1>3, <1>4
<1>10. DOMAIN First(k, s) \subseteq DOMAIN s
  <2>1. ASSUME NEW n \in 1 .. m PROVE n \in 1 .. Len(s)
    BY <1>1, <1>2
  <2>2. QED
    BY <1>5, <2>1
<1>11. \A n \in DOMAIN First(k, s) : First(k, s)[n] = s[n]
  BY <1>3, <1>4, <1>5
<1>12. QED
  BY <1>1, <1>2, <1>8, <1>9, <1>10, <1>11

-----------------------------------------------------------------------------
(* Reciprocal rank fusion                                                    *)

\* The functions that satisfy the recursion of Unit up to n.
Units(n) == {g \in [0 .. n -> Nat] : g[0] = 1 /\ \A m \in 1 .. n : g[m] = g[m - 1] * (KConst + m)}

LEMMA UnitsExist ==
  ASSUME NEW n \in Nat
  PROVE  Units(n) # {}
<1> DEFINE G == {m \in Nat : Units(m) # {}}
<1>0. KConst \in Nat
  BY RetrievalAssumption
<1>1. 0 \in G
  <2>1. [m \in 0 .. 0 |-> 1] \in Units(0)
    BY DEF Units
  <2>2. QED
    BY <2>1
<1>2. ASSUME NEW m \in Nat, m \in G PROVE m + 1 \in G
  <2>1. PICK g \in Units(m) : TRUE
    BY <1>2
  <2> DEFINE a == g[m] * (KConst + (m + 1))
             h == [k \in 0 .. m + 1 |-> IF k = m + 1 THEN a ELSE g[k]]
  <2>2. /\ g \in [0 .. m -> Nat] /\ g[0] = 1
        /\ \A k \in 1 .. m : g[k] = g[k - 1] * (KConst + k)
    BY <2>1 DEF Units
  <2>3. a \in Nat
    <3>1. g[m] \in Nat /\ KConst + (m + 1) \in Nat
      BY <1>0, <2>2
    <3>2. \A x, y \in Nat : x * y \in Nat
      OBVIOUS
    <3>3. QED
      BY <3>1, <3>2
  <2> HIDE DEF a
  <2>4. h \in [0 .. m + 1 -> Nat] /\ h[0] = 1
    BY <2>2, <2>3
  <2>5. ASSUME NEW k \in 1 .. m + 1 PROVE h[k] = h[k - 1] * (KConst + k)
    <3>1. CASE k = m + 1
      <4>1. h[k] = a /\ h[k - 1] = g[m]
        BY <3>1
      <4>2. QED
        BY <3>1, <4>1 DEF a
    <3>2. CASE k \in 1 .. m
      <4>1. h[k] = g[k] /\ h[k - 1] = g[k - 1]
        BY <3>2
      <4>2. QED
        BY <2>2, <3>2, <4>1
    <3>3. QED
      BY <3>1, <3>2
  <2> HIDE DEF h
  <2>6. h \in Units(m + 1)
    BY <2>4, <2>5 DEF Units
  <2>7. QED
    BY <2>6
<1> HIDE DEF G
<1>3. Nat \subseteq G
  BY <1>1, <1>2, NatSetInduction
<1>4. QED
  BY <1>3 DEF G

\* Each of them is positive, and a multiple of every damped rank it has met.
LEMMA UnitsDivide ==
  ASSUME NEW N \in Nat, NEW g \in Units(N)
  PROVE  \A n \in 0 .. N : /\ g[n] \in Nat /\ g[n] > 0
                           /\ \A r \in 1 .. n : \E q \in Nat : g[n] = q * (KConst + r)
<1> DEFINE Divides(n) == /\ g[n] \in Nat /\ g[n] > 0
                         /\ \A r \in 1 .. n : \E q \in Nat : g[n] = q * (KConst + r)
           G == {n \in Nat : n <= N => Divides(n)}
<1>0. KConst \in Nat
  BY RetrievalAssumption
<1>1. 0 \in G
  BY DEF Units
<1>2. ASSUME NEW n \in Nat, n \in G PROVE n + 1 \in G
  <2> SUFFICES ASSUME n + 1 <= N PROVE Divides(n + 1)
    OBVIOUS
  <2>1. Divides(n) /\ n + 1 \in 1 .. N /\ (n + 1) - 1 = n
    BY <1>2
  <2>2. \A m \in 1 .. N : g[m] = g[m - 1] * (KConst + m)
    BY DEF Units
  <2>3. g[n + 1] = g[n] * (KConst + (n + 1))
    BY <2>1, <2>2
  <2> DEFINE a == g[n]
             k == KConst + (n + 1)
  <2>4. a \in Nat /\ a > 0 /\ k \in Nat /\ k > 0 /\ g[n + 1] = a * k
    BY <1>0, <2>1, <2>3
  <2>5. \A x, y \in Nat : x > 0 /\ y > 0 => x * y \in Nat /\ x * y > 0
    OBVIOUS
  <2>6. g[n + 1] \in Nat /\ g[n + 1] > 0
    <3> HIDE DEF a, k
    <3>1. QED
      BY <2>4, <2>5
  <2>7. ASSUME NEW r \in 1 .. n + 1 PROVE \E q \in Nat : g[n + 1] = q * (KConst + r)
    <3>1. CASE r = n + 1
      BY <2>4, <3>1
    <3>2. CASE r \in 1 .. n
      <4>1. PICK q \in Nat : a = q * (KConst + r)
        BY <2>1, <3>2
      <4> DEFINE d == KConst + r
      <4>2. d \in Nat /\ a = q * d
        BY <1>0, <4>1
      <4> HIDE DEF a, k, d
      <4>3. a * k = (q * k) * d /\ q * k \in Nat
        BY <2>4, <4>2
      <4>4. g[n + 1] = (q * k) * d
        BY <2>4, <4>3
      <4>5. QED
        BY <4>3, <4>4 DEF d
    <3>3. QED
      BY <3>1, <3>2
  <2>8. QED
    BY <2>6, <2>7
<1> HIDE DEF G
<1>3. Nat \subseteq G
  BY <1>1, <1>2, NatSetInduction
<1>4. QED
  BY <1>3 DEF G

\* So Unit divides by every damped rank of a list.
LEMMA UnitIs ==
  /\ Unit \in Nat /\ Unit > 0
  /\ \A r \in 1 .. RetrieverK : \E q \in Nat : Unit = q * (KConst + r)
<1> DEFINE N == RetrieverK
           Body(it) == [n \in 0 .. N |-> IF n = 0 THEN 1 ELSE it[n - 1] * (KConst + n)]
           u == CHOOSE it : it = Body(it)
<1>0. N \in Nat /\ KConst \in Nat
  BY RetrievalAssumption
<1>1. PICK g \in Units(N) : TRUE
  BY <1>0, UnitsExist
<1>2. g = Body(g)
  <2>1. g \in [0 .. N -> Nat]
    BY DEF Units
  <2>2. \A n \in 0 .. N : g[n] = IF n = 0 THEN 1 ELSE g[n - 1] * (KConst + n)
    BY <1>0 DEF Units
  <2>3. g = [n \in 0 .. N |-> g[n]]
    BY <2>1
  <2>4. QED
    BY <2>2, <2>3
<1> HIDE DEF Body
<1>3. u = Body(u)
  BY <1>2, Zenon
<1> USE DEF Body
<1>4. Unit = u[N]
  BY DEF Unit
<1> HIDE DEF u
<1>5. u \in Units(N)
  <2> DEFINE G == {n \in Nat : n <= N => u[n] \in Nat}
  <2>1. u = [n \in 0 .. N |-> u[n]]
    BY <1>3, Zenon
  <2>2. \A n \in 0 .. N : u[n] = IF n = 0 THEN 1 ELSE u[n - 1] * (KConst + n)
    BY <1>3, Zenon
  <2>3. u[0] = 1 /\ \A n \in 1 .. N : u[n] = u[n - 1] * (KConst + n)
    BY <1>0, <2>2
  <2>4. 0 \in G
    BY <2>3
  <2>5. ASSUME NEW n \in Nat, n \in G PROVE n + 1 \in G
    <3> SUFFICES ASSUME n + 1 <= N PROVE u[n + 1] \in Nat
      OBVIOUS
    <3>1. n + 1 \in 1 .. N /\ (n + 1) - 1 = n /\ u[n] \in Nat
      BY <1>0, <2>5
    <3>2. u[n + 1] = u[n] * (KConst + (n + 1))
      BY <2>3, <3>1
    <3>3. \A x, y \in Nat : x * y \in Nat
      OBVIOUS
    <3>4. KConst + (n + 1) \in Nat
      BY <1>0
    <3>5. QED
      BY <3>1, <3>2, <3>3, <3>4
  <2> HIDE DEF G
  <2>6. Nat \subseteq G
    BY <2>4, <2>5, NatSetInduction
  <2>7. \A n \in 0 .. N : u[n] \in Nat
    BY <1>0, <2>6 DEF G
  <2>8. u \in [0 .. N -> Nat]
    BY <2>1, <2>7
  <2>9. QED
    BY <2>3, <2>8 DEF Units
<1>6. N \in 0 .. N
  BY <1>0
<1>7. /\ u[N] \in Nat /\ u[N] > 0
      /\ \A r \in 1 .. N : \E q \in Nat : u[N] = q * (KConst + r)
  BY <1>0, <1>5, <1>6, UnitsDivide
<1>8. QED
  BY <1>4, <1>7

\* A share is a number, and exact for the ranks of a list.
LEMMA ShareIs ==
  ASSUME NEW r \in Nat \ {0}
  PROVE  /\ Share(r) \in Nat
         /\ r <= RetrieverK => Share(r) > 0 /\ Share(r) * (KConst + r) = Unit
<1> DEFINE d == KConst + r
           U == Unit
<1>0. KConst \in Nat /\ RetrieverK \in Nat /\ d \in Nat /\ d > 0 /\ U \in Nat /\ U > 0
  BY RetrievalAssumption, UnitIs
<1>1. Share(r) = U \div d
  BY DEF Share
<1>2. U \div d \in Nat
  <2> HIDE DEF U, d
  <2>1. QED
    BY <1>0
<1>3. ASSUME r <= RetrieverK PROVE Share(r) > 0 /\ Share(r) * d = U
  <2>1. r \in 1 .. RetrieverK
    BY <1>0, <1>3
  <2>2. PICK q \in Nat : U = q * d
    BY <2>1, UnitIs
  <2> HIDE DEF U, d
  <2>3. U \div d = q
    BY <1>0, <2>2
  <2>4. q > 0
    BY <1>0, <2>2
  <2>5. QED
    BY <1>1, <2>2, <2>3, <2>4
<1>4. QED
  BY <1>1, <1>2, <1>3

\* Two shares of a list are more than any one: the largest is less than twice the smallest.
LEMMA TwoSharesWin ==
  ASSUME NEW i \in 1 .. RetrieverK, NEW j \in 1 .. RetrieverK, NEW k \in 1 .. RetrieverK
  PROVE  Share(i) + Share(j) > Share(k)
<1>0. KConst \in Nat /\ RetrieverK \in Nat /\ RetrieverK <= KConst + 1
  BY RetrievalAssumption
<1>1. ASSUME NEW r \in 1 .. RetrieverK PROVE Share(k) < 2 * Share(r)
  <2> DEFINE x == Share(r)
             z == Share(k)
             a == KConst + r
             c == KConst + k
  <2>1. r \in Nat \ {0} /\ k \in Nat \ {0} /\ r <= RetrieverK /\ k <= RetrieverK
    BY <1>0
  <2>2. x \in Nat /\ z \in Nat /\ x > 0 /\ x * a = z * c
    BY <2>1, ShareIs
  <2>3. a \in Nat /\ c \in Nat /\ c > 0 /\ a < 2 * c
    BY <1>0, <2>1
  <2> HIDE DEF x, z, a, c
  <2>4. x * a < x * (2 * c)
    BY <2>2, <2>3
  <2>5. x * (2 * c) = (2 * x) * c
    BY <2>2, <2>3
  <2>6. z * c < (2 * x) * c
    BY <2>2, <2>4, <2>5
  <2>7. z < 2 * x
    <3> SUFFICES ASSUME z >= 2 * x PROVE FALSE
      BY <2>2
    <3>1. \A u, v \in Nat : u >= v => u * c >= v * c
      BY <2>3
    <3>2. 2 * x \in Nat /\ z * c >= (2 * x) * c
      BY <2>2, <3>1
    <3>3. z * c \in Nat /\ (2 * x) * c \in Nat
      BY <2>2, <2>3, <3>2
    <3>4. QED
      BY <2>6, <3>2, <3>3
  <2>8. QED
    BY <2>7 DEF x, z
<1>2. Share(k) < 2 * Share(i) /\ Share(k) < 2 * Share(j)
  BY <1>1
<1>3. Share(i) \in Nat /\ Share(j) \in Nat /\ Share(k) \in Nat
  BY <1>0, ShareIs
<1>4. QED
  BY <1>2, <1>3

\* The element MapThenSumSet takes out of a set next, and what it leaves.
OneOf(T) == CHOOSE x \in T : TRUE
Others(T) == T \ {OneOf(T)}

\* Its recursion, and the functions that satisfy it on the subsets of up to n elements.
Plus(g, T) == IF T = {} THEN 0 ELSE Share(OneOf(T)) + g[Others(T)]
Level(S, n) == {T \in SUBSET S : Cardinality(T) <= n}
SumsTo(S, n) == {g \in [Level(S, n) -> Nat] : \A T \in Level(S, n) : g[T] = Plus(g, T)}

\* What is left is one smaller.
LEMMA OthersSmaller ==
  ASSUME NEW S, IsFiniteSet(S), NEW n \in Nat, NEW T \in Level(S, n + 1), T # {}
  PROVE  Others(T) \in Level(S, n) /\ OneOf(T) \in T
<1>1. OneOf(T) \in T
  BY DEF OneOf
<1>2. T \in SUBSET S /\ Cardinality(T) <= n + 1 /\ IsFiniteSet(T)
  BY FS_Subset DEF Level
<1>3. Cardinality(Others(T)) = Cardinality(T) - 1 /\ Cardinality(T) \in Nat
  BY <1>1, <1>2, FS_RemoveElement, FS_CardinalityType DEF Others
<1>4. QED
  BY <1>1, <1>2, <1>3 DEF Level, Others

\* Of no elements there is the empty set.
LEMMA LevelZero ==
  ASSUME NEW S, IsFiniteSet(S), NEW T \in Level(S, 0)
  PROVE  T = {}
<1>1. T \in SUBSET S /\ Cardinality(T) <= 0
  BY DEF Level
<1>2. IsFiniteSet(T)
  BY <1>1, FS_Subset
<1>3. Cardinality(T) \in Nat
  BY <1>2, FS_CardinalityType
<1>4. Cardinality(T) = 0
  BY <1>1, <1>3
<1>5. QED
  BY <1>2, <1>4, FS_EmptySet

\* There is such a function, level by level.
LEMMA SharesExist ==
  ASSUME NEW S \in SUBSET (Nat \ {0}), IsFiniteSet(S), NEW n \in Nat
  PROVE  SumsTo(S, n) # {}
<1> DEFINE G == {m \in Nat : SumsTo(S, m) # {}}
<1>1. 0 \in G
  <2> DEFINE g == [T \in Level(S, 0) |-> 0]
  <2>1. \A T \in Level(S, 0) : T = {}
    BY LevelZero
  <2>2. g \in SumsTo(S, 0)
    BY <2>1 DEF SumsTo, Plus
  <2>3. QED
    BY <2>2
<1>2. ASSUME NEW m \in Nat, m \in G PROVE m + 1 \in G
  <2>1. PICK g \in SumsTo(S, m) : TRUE
    BY <1>2
  <2> DEFINE h == [T \in Level(S, m + 1) |-> Plus(g, T)]
  <2>2. ASSUME NEW T \in Level(S, m + 1) PROVE h[T] \in Nat /\ h[T] = Plus(h, T)
    <3>1. CASE T = {}
      BY <3>1 DEF Plus
    <3>2. CASE T # {}
      <4>1. Others(T) \in Level(S, m) /\ OneOf(T) \in T /\ T \in SUBSET S
        BY <3>2, OthersSmaller DEF Level
      <4>2. Others(T) \in Level(S, m + 1)
        BY <4>1, FS_Subset, FS_CardinalityType DEF Level
      <4>3. h[Others(T)] = g[Others(T)] /\ g[Others(T)] \in Nat
        BY <4>1, <4>2 DEF SumsTo
      <4>4. h[T] = Share(OneOf(T)) + g[Others(T)] /\ Share(OneOf(T)) \in Nat
        BY <3>2, <4>1, ShareIs DEF Plus
      <4>5. QED
        BY <3>2, <4>3, <4>4 DEF Plus
    <3>3. QED
      BY <3>1, <3>2
  <2>3. h \in SumsTo(S, m + 1)
    <3> HIDE DEF h
    <3>1. h \in [Level(S, m + 1) -> Nat]
      BY <2>2 DEF h
    <3>2. QED
      BY <2>2, <3>1 DEF SumsTo
  <2>4. QED
    BY <2>3
<1> HIDE DEF G
<1>3. Nat \subseteq G
  BY <1>1, <1>2, NatSetInduction
<1>4. QED
  BY <1>3 DEF G

\* So the sum satisfies its recursion.
LEMMA SharesPlus ==
  ASSUME NEW S \in SUBSET (Nat \ {0}), IsFiniteSet(S)
  PROVE  \E g : /\ MapThenSumSet(Share, S) = g[S]
                /\ \A T \in SUBSET S : g[T] = Plus(g, T)
<1> DEFINE n == Cardinality(S)
           Body(it) == [s \in SUBSET S |->
                          IF s = {} THEN 0
                          ELSE Share(CHOOSE x \in s : TRUE) + it[s \ {CHOOSE x \in s : TRUE}]]
           iter == CHOOSE it : it = Body(it)
<1>1. n \in Nat /\ Level(S, n) = SUBSET S
  BY FS_Subset, FS_CardinalityType DEF Level
<1>2. PICK g \in SumsTo(S, n) : TRUE
  BY <1>1, SharesExist
<1>3. g \in [SUBSET S -> Nat] /\ g = [s \in SUBSET S |-> Plus(g, s)]
  BY <1>1, <1>2 DEF SumsTo
<1>4. g = Body(g)
  BY <1>3, Zenon DEF Plus, OneOf, Others
<1> HIDE DEF Body
<1>5. iter = Body(iter)
  BY <1>4, Zenon
<1> USE DEF Body
<1>6. MapThenSumSet(Share, S) = iter[S]
  BY DEF MapThenSumSet, MapThenFoldSet
<1> HIDE DEF iter
<1>7. iter = [s \in SUBSET S |-> Plus(iter, s)]
  BY <1>5, Zenon DEF Plus, OneOf, Others
<1>8. \A T \in SUBSET S : iter[T] = Plus(iter, T)
  BY <1>7, Zenon
<1>9. QED
  BY <1>6, <1>8

\* What no, one or several ranks contribute.
LEMMA SharesIs ==
  ASSUME NEW S \in SUBSET (Nat \ {0}), IsFiniteSet(S)
  PROVE  /\ MapThenSumSet(Share, S) \in Nat
         /\ S = {} => MapThenSumSet(Share, S) = 0
         /\ \A r \in S : S = {r} => MapThenSumSet(Share, S) = Share(r)
<1>1. PICK g : MapThenSumSet(Share, S) = g[S] /\ \A T \in SUBSET S : g[T] = Plus(g, T)
  BY SharesPlus
<1> DEFINE G == {n \in Nat : \A T \in Level(S, n) : g[T] \in Nat}
<1>2. g[{}] = 0
  BY <1>1 DEF Plus
<1>3. 0 \in G
  <2>1. \A T \in Level(S, 0) : T = {}
    BY LevelZero
  <2>2. ASSUME NEW T \in Level(S, 0) PROVE g[T] \in Nat
    <3>1. g[T] = g[{}]
      BY <2>1
    <3>2. QED
      BY <1>2, <3>1
  <2>3. QED
    BY <2>2
<1>4. ASSUME NEW n \in Nat, n \in G PROVE n + 1 \in G
  <2>1. ASSUME NEW T \in Level(S, n + 1) PROVE g[T] \in Nat
    <3>1. CASE T = {}
      BY <1>2, <3>1
    <3>2. CASE T # {}
      <4>1. Others(T) \in Level(S, n) /\ OneOf(T) \in T /\ T \in SUBSET S
        BY <3>2, OthersSmaller DEF Level
      <4>2. Share(OneOf(T)) \in Nat
        BY <4>1, ShareIs
      <4>3. g[Others(T)] \in Nat /\ g[T] = Share(OneOf(T)) + g[Others(T)]
        BY <1>1, <1>4, <3>2, <4>1 DEF Plus
      <4>4. QED
        BY <4>2, <4>3
    <3>3. QED
      BY <3>1, <3>2
  <2>2. QED
    BY <2>1
<1> HIDE DEF G
<1>5. Nat \subseteq G
  BY <1>3, <1>4, NatSetInduction
<1>6. S \in Level(S, Cardinality(S)) /\ Cardinality(S) \in Nat
  BY FS_CardinalityType DEF Level
<1>7. MapThenSumSet(Share, S) \in Nat
  BY <1>1, <1>5, <1>6 DEF G
<1>8. ASSUME NEW r \in S, S = {r} PROVE MapThenSumSet(Share, S) = Share(r)
  <2>1. OneOf(S) = r /\ Others(S) = {}
    BY <1>8 DEF OneOf, Others
  <2>2. g[S] = Share(r) + g[{}]
    BY <1>1, <1>8, <2>1 DEF Plus
  <2>3. Share(r) \in Nat
    BY ShareIs
  <2>4. QED
    BY <1>1, <1>2, <2>2, <2>3
<1>9. QED
  BY <1>1, <1>2, <1>7, <1>8

\* What a list contributes to a chunk: nothing when it does not name it, its share when
\* it names it once.
LEMMA ContributionIs ==
  ASSUME NEW T, NEW s \in Seq(T), NEW id
  PROVE  /\ Contribution(s, id) \in Nat
         /\ id \notin Ids(s) => Contribution(s, id) = 0
         /\ \A i \in DOMAIN s : s[i].id = id /\ (\A j \in DOMAIN s : s[j].id = id => j = i)
                                  => Contribution(s, id) = Share(i)
<1> DEFINE K == {i \in DOMAIN s : s[i].id = id}
<1>1. DOMAIN s = 1 .. Len(s) /\ Len(s) \in Nat /\ IsFiniteSet(DOMAIN s)
  BY Positions
<1>2. K \in SUBSET (Nat \ {0}) /\ IsFiniteSet(K)
  <2>1. K \in SUBSET DOMAIN s
    OBVIOUS
  <2>2. K \in SUBSET (Nat \ {0})
    BY <1>1
  <2>3. QED
    BY <1>1, <2>1, <2>2, FS_Subset
<1>3. Contribution(s, id) = MapThenSumSet(Share, K)
  BY DEF Contribution
<1>4. id \notin Ids(s) => K = {}
  BY DEF Ids
<1>5. ASSUME NEW i \in DOMAIN s, s[i].id = id, \A j \in DOMAIN s : s[j].id = id => j = i
      PROVE  K = {i} /\ i \in K
  BY <1>5
<1> HIDE DEF K
<1>6. /\ MapThenSumSet(Share, K) \in Nat
      /\ K = {} => MapThenSumSet(Share, K) = 0
      /\ \A r \in K : K = {r} => MapThenSumSet(Share, K) = Share(r)
  BY <1>2, SharesIs
<1>7. QED
  BY <1>3, <1>4, <1>5, <1>6

\* Two lists behind one another.
LEMMA Joined ==
  ASSUME NEW T, NEW d \in Seq(T), NEW s \in Seq(T)
  PROVE  /\ d \o s \in Seq(T) /\ Len(d \o s) = Len(d) + Len(s)
         /\ DOMAIN d \subseteq DOMAIN (d \o s)
         /\ \A i \in DOMAIN d : (d \o s)[i] = d[i]
         /\ \A i \in DOMAIN (d \o s) : i \notin DOMAIN d =>
              \E j \in DOMAIN s : (d \o s)[i] = s[j]
         /\ Ids(d \o s) = Ids(d) \cup Ids(s)
<1> DEFINE t == d \o s
<1>1. t \in Seq(T) /\ Len(t) = Len(d) + Len(s) /\ Len(d) \in Nat /\ Len(s) \in Nat
  OBVIOUS
<1>2. DOMAIN d = 1 .. Len(d) /\ DOMAIN s = 1 .. Len(s) /\ DOMAIN t = 1 .. Len(d) + Len(s)
  BY <1>1
<1>3. \A i \in 1 .. Len(d) : i \in DOMAIN t /\ t[i] = d[i]
  BY <1>1, <1>2
<1>4. \A j \in 1 .. Len(s) : Len(d) + j \in DOMAIN t /\ t[Len(d) + j] = s[j]
  BY <1>1, <1>2
<1>5. ASSUME NEW i \in DOMAIN t, i \notin DOMAIN d PROVE \E j \in DOMAIN s : t[i] = s[j]
  <2>1. i - Len(d) \in 1 .. Len(s) /\ Len(d) + (i - Len(d)) = i
    BY <1>1, <1>2, <1>5
  <2>2. QED
    BY <1>2, <1>4, <2>1
<1> HIDE DEF t
<1>6. Ids(t) \subseteq Ids(d) \cup Ids(s)
  BY <1>2, <1>3, <1>5 DEF Ids
<1>7. Ids(d) \subseteq Ids(t) /\ Ids(s) \subseteq Ids(t)
  BY <1>2, <1>3, <1>4 DEF Ids
<1>8. QED
  BY <1>1, <1>2, <1>3, <1>5, <1>6, <1>7 DEF t

\* A chunk has the text of one of its rows, of the dense row where there is one.
LEMMA TextIs ==
  ASSUME NEW d \in Seq(Rows), NEW s \in Seq(Rows), NEW id \in Ids(d) \cup Ids(s),
         \A i, j \in DOMAIN d : d[i].id = d[j].id => i = j
  PROVE  /\ TextOf(d, s, id) \in Texts
         /\ \A i \in DOMAIN d : d[i].id = id => d[i].text = TextOf(d, s, id)
<1> DEFINE t == d \o s
           K == {i \in DOMAIN t : t[i].id = id}
           m == Min(K)
<1>1. /\ t \in Seq(Rows) /\ DOMAIN d \subseteq DOMAIN t
      /\ \A i \in DOMAIN d : t[i] = d[i]
      /\ Ids(t) = Ids(d) \cup Ids(s)
  BY Joined
<1>2. DOMAIN t \in SUBSET Nat /\ DOMAIN d = 1 .. Len(d) /\ DOMAIN t = 1 .. Len(t)
      /\ Len(d) \in Nat /\ Len(t) \in Nat
  BY <1>1, Positions
<1>3. TextOf(d, s, id) = t[m].text
  BY DEF TextOf
<1> HIDE DEF t
<1>4. K \in SUBSET Nat /\ K # {}
  BY <1>1, <1>2 DEF Ids
<1>5. m \in K /\ \A y \in K : m <= y
  <2> HIDE DEF K
  <2>1. QED
    BY <1>4, MinOf
<1> HIDE DEF m
<1>6. m \in DOMAIN t /\ t[m].id = id
  BY <1>5
<1>7. t[m] \in Rows
  BY <1>1, <1>2, <1>6
<1>8. t[m].text \in Texts
  BY <1>7 DEF Rows
<1>9. ASSUME NEW i \in DOMAIN d, d[i].id = id PROVE d[i].text = t[m].text
  <2>1. i \in K
    BY <1>1, <1>9
  <2>2. m <= i
    BY <1>5, <2>1
  <2>3. m \in DOMAIN d
    BY <1>2, <1>6, <2>2
  <2>4. t[m] = d[m]
    BY <1>1, <2>3
  <2>5. m = i
    BY <1>6, <1>9, <2>3, <2>4
  <2>6. QED
    BY <2>4, <2>5
<1>10. QED
  BY <1>3, <1>8, <1>9

\* What fusion makes of a chunk.
Candidates == [id : ChunkIds, text : Texts, score : Int]

Fused(d, s, c) ==
  /\ c \in Candidates /\ c.id \in Ids(d) \cup Ids(s)
  /\ c.score = Contribution(d, c.id) + Contribution(s, c.id)
  /\ \A i \in DOMAIN d : d[i].id = c.id => d[i].text = c.text

\* The chunks the dict holds are chunks of the lists, and it holds one when a list does.
LEMMA MetIs ==
  ASSUME NEW d \in Seq(Rows), NEW s \in Seq(Rows)
  PROVE  /\ Met(d, s) \in Seq(Rows)
         /\ \A n \in DOMAIN Met(d, s) : Met(d, s)[n].id \in Ids(d) \cup Ids(s)
         /\ d # <<>> => Met(d, s) # <<>>
<1> DEFINE t == d \o s
           K == {i \in DOMAIN t : \A j \in 1 .. (i - 1) : t[j].id # t[i].id}
<1>1. /\ t \in Seq(Rows) /\ DOMAIN d \subseteq DOMAIN t /\ Ids(t) = Ids(d) \cup Ids(s)
  BY Joined
<1>2. Met(d, s) = At(t, K)
  BY DEF Met
<1>3. d # <<>> => 1 \in DOMAIN t
  <2>1. d # <<>> => 1 \in DOMAIN d
    BY Positions
  <2>2. QED
    BY <1>1, <2>1
<1> HIDE DEF t
<1>4. d # <<>> => 1 \in K
  BY <1>3
<1>5. K \in SUBSET DOMAIN t
  OBVIOUS
<1> HIDE DEF K
<1>6. At(t, K) \in Seq(Rows) /\ (K = {} <=> At(t, K) = <<>>)
  BY <1>1, <1>5, AtIs
<1>7. \A n \in DOMAIN At(t, K) : \E i \in K : At(t, K)[n] = t[i]
  BY <1>1, <1>5, AtFrom
<1>8. ASSUME NEW n \in DOMAIN At(t, K) PROVE At(t, K)[n].id \in Ids(t)
  BY <1>5, <1>7 DEF Ids
<1>9. QED
  BY <1>1, <1>2, <1>4, <1>6, <1>8

\* rrf_fuse: a descending list of chunks of the two lists, each with its shares and its
\* text, and not empty when the dense one is not.
LEMMA FusionIs ==
  ASSUME NEW d \in Seq(Rows), NEW s \in Seq(Rows),
         \A i, j \in DOMAIN d : d[i].id = d[j].id => i = j
  PROVE  /\ rrf_fuse(d, s) \in Seq(Candidates)
         /\ \A n \in DOMAIN rrf_fuse(d, s) : Fused(d, s, rrf_fuse(d, s)[n])
         /\ \A m, n \in DOMAIN rrf_fuse(d, s) :
              m < n => rrf_fuse(d, s)[m].score >= rrf_fuse(d, s)[n].score
         /\ d # <<>> => rrf_fuse(d, s) # <<>>
<1> DEFINE met == Met(d, s)
           row(n) == [id |-> met[n].id, text |-> TextOf(d, s, met[n].id),
                      score |-> Contribution(d, met[n].id) + Contribution(s, met[n].id)]
           u == [n \in DOMAIN met |-> row(n)]
           v == Sorted(u)
<1>1. /\ met \in Seq(Rows) /\ (d # <<>> => met # <<>>)
      /\ \A n \in DOMAIN met : met[n].id \in Ids(d) \cup Ids(s)
  BY MetIs
<1>2. rrf_fuse(d, s) = First(FusedK, v)
  BY DEF rrf_fuse, FusedAll
<1> HIDE DEF met
<1>3. ASSUME NEW n \in DOMAIN met PROVE row(n) \in Candidates /\ Fused(d, s, row(n))
  <2>1. met[n] \in Rows /\ met[n].id \in Ids(d) \cup Ids(s)
    BY <1>1
  <2>2. met[n].id \in ChunkIds
    BY <2>1 DEF Rows
  <2>3. /\ TextOf(d, s, met[n].id) \in Texts
        /\ \A i \in DOMAIN d : d[i].id = met[n].id => d[i].text = TextOf(d, s, met[n].id)
    BY <2>1, TextIs
  <2>4. Contribution(d, met[n].id) \in Nat /\ Contribution(s, met[n].id) \in Nat
    BY ContributionIs
  <2>5. Contribution(d, met[n].id) + Contribution(s, met[n].id) \in Int
    BY <2>4
  <2>6. row(n) \in Candidates
    BY <2>2, <2>3, <2>5 DEF Candidates
  <2>7. QED
    BY <2>1, <2>3, <2>6 DEF Fused
<1>4. u \in Seq(Candidates) /\ Len(u) = Len(met) /\ DOMAIN u = DOMAIN met
  <2>1. Len(met) \in Nat /\ DOMAIN met = 1 .. Len(met)
    BY <1>1
  <2> HIDE DEF row
  <2>2. u \in [1 .. Len(met) -> Candidates]
    BY <1>3, <2>1
  <2>3. QED
    BY <2>1, <2>2
<1>5. \A n \in DOMAIN u : u[n] = row(n) /\ Fused(d, s, u[n])
  <2> HIDE DEF row
  <2>1. QED
    BY <1>3
<1> HIDE DEF u
<1>6. \A n \in DOMAIN u : u[n].score \in Int
  BY <1>5 DEF Fused, Candidates
<1>7. /\ v \in Seq(Candidates) /\ Len(v) = Len(u)
      /\ \A n \in DOMAIN v : \E i \in DOMAIN u : v[n] = u[i]
      /\ \A m, n \in DOMAIN v : m < n => v[m].score >= v[n].score
  BY <1>4, <1>6, SortedIs
<1> HIDE DEF v
<1>8. \A n \in DOMAIN v : Fused(d, s, v[n])
  BY <1>5, <1>7
<1>9. d # <<>> => v # <<>>
  <2>1. d # <<>> => Len(met) # 0
    BY <1>1, Positions
  <2>2. QED
    BY <1>4, <1>7, <2>1
<1>10. FusedK \in Nat /\ FusedK # 0
  BY RetrievalAssumption
<1> DEFINE f == First(FusedK, v)
<1>11. /\ f \in Seq(Candidates) /\ DOMAIN f \subseteq DOMAIN v
       /\ \A n \in DOMAIN f : f[n] = v[n]
       /\ v # <<>> => f # <<>>
  BY <1>7, <1>10, FirstIs
<1> HIDE DEF f
<1>12. \A n \in DOMAIN f : Fused(d, s, f[n])
  BY <1>8, <1>11
<1>13. \A m, n \in DOMAIN f : m < n => f[m].score >= f[n].score
  BY <1>7, <1>11
<1>14. QED
  BY <1>2, <1>9, <1>11, <1>12, <1>13 DEF f

\* A list that names as many chunks as it is long names each of them once.
LEMMA OnceIs ==
  ASSUME NEW s \in Seq(Rows), Once(s)
  PROVE  \A i, j \in DOMAIN s : s[i].id = s[j].id => i = j
<1> DEFINE f == [i \in DOMAIN s |-> s[i].id]
<1>1. IsFiniteSet(DOMAIN s) /\ Cardinality(DOMAIN s) = Len(s)
  BY Positions
<1>2. f \in Surjection(DOMAIN s, Ids(s))
  BY DEF Surjection, Ids
<1>3. \A i \in DOMAIN s : f[i] = s[i].id
  OBVIOUS
<1> HIDE DEF f
<1>4. Cardinality(DOMAIN s) = Cardinality(Ids(s))
  BY <1>1 DEF Once
<1>5. f \in Injection(DOMAIN s, Ids(s))
  BY <1>1, <1>2, <1>4, FS_Surjection
<1>6. \A i, j \in DOMAIN s : f[i] = f[j] => i = j
  BY <1>5 DEF Injection, IsInjective
<1>7. QED
  BY <1>3, <1>6

\* In a list that names each chunk once, a chunk's contribution is one share.
LEMMA OneShare ==
  ASSUME NEW s \in Seq(Rows), \A i, j \in DOMAIN s : s[i].id = s[j].id => i = j,
         Len(s) <= RetrieverK, NEW id \in Ids(s)
  PROVE  \E r \in 1 .. RetrieverK : Contribution(s, id) = Share(r)
<1>0. RetrieverK \in Nat /\ Len(s) \in Nat /\ DOMAIN s = 1 .. Len(s)
  BY RetrievalAssumption
<1>1. PICK i \in DOMAIN s : s[i].id = id
  BY DEF Ids
<1>2. Contribution(s, id) = Share(i)
  BY <1>1, ContributionIs
<1>3. i \in 1 .. RetrieverK
  BY <1>0
<1>4. QED
  BY <1>2, <1>3

\* Fusion puts what both lists hold before what one holds.
LEMMA BothFirst ==
  ASSUME NEW d \in Seq(Rows), NEW s \in Seq(Rows),
         \A i, j \in DOMAIN d : d[i].id = d[j].id => i = j,
         Len(d) <= RetrieverK, Len(s) <= RetrieverK, Once(s),
         NEW i \in DOMAIN rrf_fuse(d, s), NEW j \in DOMAIN rrf_fuse(d, s),
         rrf_fuse(d, s)[i].id \in Ids(d) \cap Ids(s),
         rrf_fuse(d, s)[j].id \notin Ids(d) \cap Ids(s)
  PROVE  i < j
<1> DEFINE f == rrf_fuse(d, s)
           a == f[i].id
           b == f[j].id
<1>1. /\ f \in Seq(Candidates)
      /\ Fused(d, s, f[i]) /\ Fused(d, s, f[j])
      /\ \A m, n \in DOMAIN f : m < n => f[m].score >= f[n].score
  BY FusionIs
<1>2. \A m, n \in DOMAIN s : s[m].id = s[n].id => m = n
  BY OnceIs
<1>3. i \in Nat /\ j \in Nat
  BY <1>1, Positions
<1>4. a # b
  OBVIOUS
<1>5. PICK r1 \in 1 .. RetrieverK : Contribution(d, a) = Share(r1)
  BY OneShare
<1>6. PICK r2 \in 1 .. RetrieverK : Contribution(s, a) = Share(r2)
  BY <1>2, OneShare
<1>7. f[i].score = Share(r1) + Share(r2)
  BY <1>1, <1>5, <1>6 DEF Fused
<1>8. PICK r3 \in 1 .. RetrieverK : f[j].score = Share(r3)
  <2>1. b \in Ids(d) \cup Ids(s) /\ f[j].score = Contribution(d, b) + Contribution(s, b)
    BY <1>1 DEF Fused
  <2>2. RetrieverK \in Nat
    BY RetrievalAssumption
  <2>3. \A r \in 1 .. RetrieverK : Share(r) \in Nat
    BY <2>2, ShareIs
  <2>4. CASE b \in Ids(d) /\ b \notin Ids(s)
    <3>1. PICK r \in 1 .. RetrieverK : Contribution(d, b) = Share(r)
      BY <2>4, OneShare
    <3>2. Contribution(s, b) = 0
      BY <2>4, ContributionIs
    <3>3. QED
      BY <2>1, <2>3, <3>1, <3>2
  <2>5. CASE b \in Ids(s) /\ b \notin Ids(d)
    <3>1. PICK r \in 1 .. RetrieverK : Contribution(s, b) = Share(r)
      BY <1>2, <2>5, OneShare
    <3>2. Contribution(d, b) = 0
      BY <2>5, ContributionIs
    <3>3. QED
      BY <2>1, <2>3, <3>1, <3>2
  <2>6. QED
    BY <2>1, <2>4, <2>5
<1>9. f[i].score > f[j].score
  BY <1>7, <1>8, TwoSharesWin
<1>10. f[i].score \in Int /\ f[j].score \in Int
  BY <1>1 DEF Fused, Candidates
<1>11. ~(j < i)
  BY <1>1, <1>9, <1>10
<1>12. i # j
  BY <1>4
<1>13. QED
  BY <1>3, <1>11, <1>12

-----------------------------------------------------------------------------
(* Maximal marginal relevance                                                *)

\* The candidates a list of picks leaves.
Rest(c, picks) == {i \in DOMAIN c : \A p \in DOMAIN picks : picks[p] # i}

WithTexts(c) == \A i \in DOMAIN c : c[i].text \in Texts

\* The redundancy of a candidate is the greatest of finitely many similarities.
LEMMA RedundancyIs ==
  ASSUME NEW T, NEW c \in Seq(T), WithTexts(c), NEW picks \in Seq(DOMAIN c), picks # <<>>,
         NEW i \in DOMAIN c
  PROVE  Redundancy(c, picks, i) \in Int
<1> DEFINE P == DOMAIN picks
           f == [p \in P |-> Sim[<<c[picks[p]].text, c[i].text>>]]
           S == {Sim[<<c[picks[p]].text, c[i].text>>] : p \in P}
<1>1. P \in SUBSET Nat /\ IsFiniteSet(P) /\ P # {}
  BY Positions
<1>2. Sim \in [Texts \X Texts -> Int]
  BY RetrievalAssumption
<1>3. f \in [P -> Int]
  <2>1. ASSUME NEW p \in P PROVE Sim[<<c[picks[p]].text, c[i].text>>] \in Int
    <3>1. picks[p] \in DOMAIN c
      OBVIOUS
    <3>2. <<c[picks[p]].text, c[i].text>> \in Texts \X Texts
      BY <3>1 DEF WithTexts
    <3>3. QED
      BY <1>2, <3>2
  <2>2. QED
    BY <2>1
<1>4. S = {f[p] : p \in P}
  OBVIOUS
<1>5. Redundancy(c, picks, i) = Max(S)
  BY DEF Redundancy
<1> HIDE DEF f, P, S
<1>6. PICK m \in P : \A j \in P : f[j] <= f[m]
  BY <1>1, <1>3, ArgMax
<1>7. f[m] \in S /\ \A y \in S : f[m] >= y
  BY <1>3, <1>4, <1>6
<1>8. Max(S) \in S
  BY <1>7, Zenon DEF Max
<1>9. QED
  BY <1>3, <1>4, <1>5, <1>8

LEMMA ObjectiveIs ==
  ASSUME NEW T, NEW c \in Seq(T), WithTexts(c), NEW picks \in Seq(DOMAIN c), NEW i \in DOMAIN c
  PROVE  Objective(c, picks, i) \in Int
<1>1. SimQuery[c[i].text] \in Int /\ Lambda \in Int
  BY RetrievalAssumption DEF WithTexts
<1>2. CASE picks = <<>>
  BY <1>1, <1>2 DEF Objective
<1>3. CASE picks # <<>>
  <2>1. Redundancy(c, picks, i) \in Int
    BY <1>3, RedundancyIs
  <2>2. \A l, a, r \in Int : l * a - (10 - l) * r \in Int
    OBVIOUS
  <2>3. QED
    BY <1>1, <1>3, <2>1, <2>2 DEF Objective
<1>4. QED
  BY <1>2, <1>3

\* The next pick is a candidate that is left, and none that is left exceeds it.
LEMMA BestIs ==
  ASSUME NEW T, NEW c \in Seq(T), WithTexts(c), NEW picks \in Seq(DOMAIN c), Rest(c, picks) # {}
  PROVE  /\ Best(c, picks) \in Rest(c, picks)
         /\ \A j \in Rest(c, picks) : Objective(c, picks, j) <= Objective(c, picks, Best(c, picks))
<1> DEFINE R == Rest(c, picks)
           f == [i \in R |-> Objective(c, picks, i)]
           M == {i \in R : \A j \in R : Objective(c, picks, j) <= Objective(c, picks, i)}
<1>1. R \in SUBSET DOMAIN c /\ IsFiniteSet(DOMAIN c) /\ DOMAIN c \in SUBSET Nat
  BY Positions DEF Rest
<1>2. R \in SUBSET Nat /\ IsFiniteSet(R)
  BY <1>1, FS_Subset
<1>3. f \in [R -> Int]
  BY <1>1, ObjectiveIs
<1>4. Best(c, picks) = Min(M)
  BY DEF Best, Rest
<1> HIDE DEF R
<1>5. \A i \in R : f[i] = Objective(c, picks, i)
  OBVIOUS
<1> HIDE DEF f
<1>6. PICK m \in R : \A j \in R : f[j] <= f[m]
  BY <1>2, <1>3, ArgMax DEF R
<1>7. m \in M
  BY <1>5, <1>6
<1>8. M \in SUBSET Nat /\ M # {}
  BY <1>2, <1>7
<1>9. Min(M) \in M
  <2> HIDE DEF M
  <2>1. QED
    BY <1>8, MinOf
<1>10. QED
  BY <1>4, <1>9 DEF R

\* Fewer picks than candidates leave one.
LEMMA SomeRest ==
  ASSUME NEW T, NEW c \in Seq(T), NEW picks \in Seq(DOMAIN c), Len(picks) < Len(c)
  PROVE  Rest(c, picks) # {}
<1> SUFFICES ASSUME Rest(c, picks) = {} PROVE FALSE
  OBVIOUS
<1>1. /\ IsFiniteSet(DOMAIN c) /\ Cardinality(DOMAIN c) = Len(c) /\ Len(c) \in Nat
      /\ IsFiniteSet(DOMAIN picks) /\ Cardinality(DOMAIN picks) = Len(picks) /\ Len(picks) \in Nat
  BY Positions
<1>2. picks \in [DOMAIN picks -> DOMAIN c]
  OBVIOUS
<1>3. \A i \in DOMAIN c : \E p \in DOMAIN picks : picks[p] = i
  BY DEF Rest
<1>4. picks \in Surjection(DOMAIN picks, DOMAIN c)
  BY <1>2, <1>3 DEF Surjection
<1>5. Cardinality(DOMAIN c) <= Cardinality(DOMAIN picks)
  BY <1>1, <1>4, FS_Surjection
<1>6. QED
  BY <1>1, <1>5

\* What MMR has picked after n steps.
Chosen(c, n, q) ==
  /\ q \in Seq(DOMAIN c) /\ Len(q) = n
  /\ \A m \in 1 .. n : /\ q[m] \in Rest(c, SubSeq(q, 1, m - 1))
                       /\ q[m] = Best(c, SubSeq(q, 1, m - 1))

\* One more pick.
LEMMA ChooseNext ==
  ASSUME NEW T, NEW c \in Seq(T), WithTexts(c), NEW n \in Nat, n < Len(c),
         NEW q, Chosen(c, n, q)
  PROVE  Chosen(c, n + 1, Append(q, Best(c, q)))
<1> DEFINE D == DOMAIN c
           b == Best(c, q)
           r == Append(q, b)
<1>1. q \in Seq(D) /\ Len(q) = n
  BY DEF Chosen
<1>2. b \in Rest(c, q)
  BY <1>1, SomeRest, BestIs
<1>3. b \in D
  BY <1>2 DEF Rest
<1> HIDE DEF b
<1>4. r \in Seq(D) /\ Len(r) = n + 1
  BY <1>1, <1>3
<1>5. \A m \in 1 .. n : r[m] = q[m]
  BY <1>1, <1>3
<1>6. r[n + 1] = b
  BY <1>1, <1>3
<1> HIDE DEF r
<1>7. ASSUME NEW m \in 1 .. n + 1 PROVE SubSeq(r, 1, m - 1) = SubSeq(q, 1, m - 1)
  <2>1. m - 1 \in 0 .. n
    OBVIOUS
  <2>2. /\ SubSeq(r, 1, m - 1) \in Seq(D) /\ Len(SubSeq(r, 1, m - 1)) = m - 1
        /\ \A k \in 1 .. m - 1 : SubSeq(r, 1, m - 1)[k] = r[k]
    BY <1>4, <2>1
  <2>3. /\ SubSeq(q, 1, m - 1) \in Seq(D) /\ Len(SubSeq(q, 1, m - 1)) = m - 1
        /\ \A k \in 1 .. m - 1 : SubSeq(q, 1, m - 1)[k] = q[k]
    BY <1>1, <2>1
  <2>4. \A k \in 1 .. m - 1 : r[k] = q[k]
    BY <1>5, <2>1
  <2>5. QED
    BY <2>2, <2>3, <2>4
<1>8. SubSeq(q, 1, n) = q
  BY <1>1
<1>9. ASSUME NEW m \in 1 .. n + 1
      PROVE  /\ r[m] \in Rest(c, SubSeq(r, 1, m - 1))
             /\ r[m] = Best(c, SubSeq(r, 1, m - 1))
  <2>0. m \in 1 .. n \/ m = n + 1
    OBVIOUS
  <2>1. CASE m \in 1 .. n
    <3>1. q[m] \in Rest(c, SubSeq(q, 1, m - 1)) /\ q[m] = Best(c, SubSeq(q, 1, m - 1))
      BY <2>1 DEF Chosen
    <3>2. QED
      BY <1>5, <1>7, <2>1, <3>1
  <2>2. CASE m = n + 1
    <3>1. SubSeq(r, 1, m - 1) = q /\ r[m] = b
      BY <1>6, <1>7, <1>8, <2>2
    <3>2. QED
      BY <1>2, <3>1 DEF b
  <2>3. QED
    BY <2>0, <2>1, <2>2
<1>10. QED
  BY <1>4, <1>9 DEF Chosen, b, r

\* The steps of MMR, and a function that satisfies their recursion.
Grow(c, n, g) == [k \in 0 .. n |-> IF k = 0 THEN <<>> ELSE Append(g[k - 1], Best(c, g[k - 1]))]

LEMMA GrowExists ==
  ASSUME NEW c, NEW n \in Nat
  PROVE  \E g : g = Grow(c, n, g)
<1> DEFINE G == {m \in Nat : \E g : g = Grow(c, m, g)}
<1>1. 0 \in G
  <2> DEFINE g == [k \in 0 .. 0 |-> <<>>]
  <2>1. g = Grow(c, 0, g)
    BY DEF Grow
  <2> HIDE DEF g
  <2>2. QED
    BY <2>1
<1>2. ASSUME NEW m \in Nat, m \in G PROVE m + 1 \in G
  <2>1. PICK g : g = Grow(c, m, g)
    BY <1>2
  <2> DEFINE a == Append(g[m], Best(c, g[m]))
             h == [k \in 0 .. m + 1 |-> IF k = m + 1 THEN a ELSE g[k]]
  <2>2. \A k \in 0 .. m : g[k] = IF k = 0 THEN <<>> ELSE Append(g[k - 1], Best(c, g[k - 1]))
    BY <2>1, Zenon DEF Grow
  <2>3. h[m + 1] = a /\ \A k \in 0 .. m : h[k] = g[k]
    OBVIOUS
  <2>4. DOMAIN h = 0 .. m + 1 /\ h = [k \in 0 .. m + 1 |-> h[k]]
    OBVIOUS
  <2> HIDE DEF h
  <2>5. ASSUME NEW k \in 0 .. m + 1
        PROVE  h[k] = IF k = 0 THEN <<>> ELSE Append(h[k - 1], Best(c, h[k - 1]))
    <3>1. CASE k = m + 1
      <4>1. k # 0 /\ k - 1 = m /\ m \in 0 .. m
        BY <3>1
      <4>2. h[k] = a /\ h[k - 1] = g[m]
        BY <2>3, <3>1, <4>1
      <4>3. QED
        BY <4>1, <4>2
    <3>2. CASE k = 0
      <4>1. 0 \in 0 .. m
        OBVIOUS
      <4>2. h[0] = g[0] /\ g[0] = <<>>
        BY <2>2, <2>3, <4>1
      <4>3. QED
        BY <3>2, <4>2
    <3>3. CASE k \in 1 .. m
      <4>1. k \in 0 .. m /\ k - 1 \in 0 .. m /\ k # 0
        BY <3>3
      <4>2. h[k] = g[k] /\ h[k - 1] = g[k - 1]
        BY <2>3, <4>1
      <4>3. g[k] = Append(g[k - 1], Best(c, g[k - 1]))
        BY <2>2, <4>1
      <4>4. QED
        BY <4>1, <4>2, <4>3
    <3>4. QED
      BY <3>1, <3>2, <3>3
  <2>6. h = Grow(c, m + 1, h)
    BY <2>4, <2>5, Zenon DEF Grow
  <2>7. QED
    BY <2>6
<1> HIDE DEF G
<1>3. Nat \subseteq G
  BY <1>1, <1>2, NatSetInduction
<1>4. QED
  BY <1>3 DEF G

\* Picks takes as many as it may, each the best of what the ones before it left.
LEMMA PicksIs ==
  ASSUME NEW T, NEW c \in Seq(T), WithTexts(c)
  PROVE  /\ Chosen(c, Len(Picks(c)), Picks(c))
         /\ c # <<>> => Picks(c) # <<>>
<1> DEFINE N == Min({MmrK, Len(c)})
           u == CHOOSE it : it = Grow(c, N, it)
<1>0. MmrK \in Nat /\ MmrK # 0 /\ Len(c) \in Nat
  BY RetrievalAssumption
<1>1. N = IF MmrK <= Len(c) THEN MmrK ELSE Len(c)
  BY <1>0, MinOfTwo
<1>2. N \in Nat /\ N <= Len(c) /\ (c # <<>> => N # 0)
  BY <1>0, <1>1, Positions
<1>3. Picks(c) = u[N]
  BY DEF Picks, Grow
<1> HIDE DEF N
<1>4. \E g : g = Grow(c, N, g)
  BY <1>2, GrowExists
<1>5. u = Grow(c, N, u)
  BY <1>4, Zenon
<1> HIDE DEF u
<1>6. \A k \in 0 .. N : u[k] = IF k = 0 THEN <<>> ELSE Append(u[k - 1], Best(c, u[k - 1]))
  BY <1>5, Zenon DEF Grow
<1> DEFINE G == {k \in Nat : k <= N => Chosen(c, k, u[k])}
<1>7. 0 \in G
  <2>1. 0 \in 0 .. N
    BY <1>2
  <2>2. u[0] = <<>>
    BY <1>6, <2>1
  <2>3. Chosen(c, 0, <<>>)
    BY DEF Chosen
  <2>4. QED
    BY <2>2, <2>3
<1>8. ASSUME NEW k \in Nat, k \in G PROVE k + 1 \in G
  <2> SUFFICES ASSUME k + 1 <= N PROVE Chosen(c, k + 1, u[k + 1])
    OBVIOUS
  <2>1. k + 1 \in 0 .. N /\ k + 1 # 0 /\ (k + 1) - 1 = k /\ k < Len(c) /\ k <= N
    BY <1>0, <1>2
  <2>2. u[k + 1] = Append(u[k], Best(c, u[k]))
    BY <1>6, <2>1
  <2>3. Chosen(c, k, u[k])
    BY <1>8, <2>1
  <2>4. QED
    BY <2>1, <2>2, <2>3, ChooseNext
<1> HIDE DEF G
<1>9. Nat \subseteq G
  BY <1>7, <1>8, NatSetInduction
<1>10. Chosen(c, N, u[N])
  BY <1>2, <1>9 DEF G
<1>11. Len(u[N]) = N /\ u[N] \in Seq(DOMAIN c)
  BY <1>10 DEF Chosen
<1>12. c # <<>> => u[N] # <<>>
  BY <1>2, <1>11, Positions
<1>13. QED
  BY <1>3, <1>10, <1>11, <1>12

\* MMR's objective rises with the first of its terms and falls with the second.
LEMMA ObjectiveOrder ==
  ASSUME NEW a \in Int, NEW b \in Int, NEW r \in Int, NEW s \in Int, a > b, r < s
  PROVE  Lambda * a - (10 - Lambda) * r > Lambda * b - (10 - Lambda) * s
<1>1. Lambda \in 0 .. 10
  BY RetrievalAssumption
<1>2. \/ Lambda = 0 \/ Lambda = 1 \/ Lambda = 2 \/ Lambda = 3 \/ Lambda = 4 \/ Lambda = 5
      \/ Lambda = 6 \/ Lambda = 7 \/ Lambda = 8 \/ Lambda = 9 \/ Lambda = 10
  BY <1>1
<1>3. QED
  BY <1>2

\* mmr_pick passes over no candidate that is better in both respects.
LEMMA NotDominated ==
  ASSUME NEW T, NEW c \in Seq(T), WithTexts(c), NEW n \in 2 .. Len(Picks(c)), NEW i \in DOMAIN c,
         \A q \in DOMAIN Picks(c) : Picks(c)[q] # i
  PROVE  ~ /\ SimQuery[c[i].text] > SimQuery[c[Picks(c)[n]].text]
           /\ Redundancy(c, SubSeq(Picks(c), 1, n - 1), i)
                < Redundancy(c, SubSeq(Picks(c), 1, n - 1), Picks(c)[n])
<1> DEFINE p == Picks(c)
           b == p[n]
           pre == SubSeq(p, 1, n - 1)
<1>1. Chosen(c, Len(p), p)
  BY PicksIs
<1> HIDE DEF p
<1>2. p \in Seq(DOMAIN c) /\ n \in 1 .. Len(p) /\ Len(p) \in Nat /\ n - 1 \in 1 .. Len(p)
  BY <1>1 DEF Chosen, p
<1>3. b \in Rest(c, pre) /\ b = Best(c, pre)
  BY <1>1, <1>2 DEF Chosen
<1>4. /\ pre \in Seq(DOMAIN c) /\ Len(pre) = n - 1
      /\ \A k \in 1 .. n - 1 : pre[k] = p[k]
  BY <1>2
<1> HIDE DEF pre
<1>5. pre # <<>> /\ DOMAIN pre = 1 .. n - 1
  BY <1>2, <1>4, Positions
<1>6. i \in Rest(c, pre)
  <2>1. ASSUME NEW k \in DOMAIN pre PROVE pre[k] # i
    <3>1. k \in DOMAIN p /\ pre[k] = p[k]
      BY <1>2, <1>4, <1>5
    <3>2. QED
      BY <3>1 DEF p
  <2>2. QED
    BY <2>1 DEF Rest
<1>7. b \in DOMAIN c
  BY <1>3 DEF Rest
<1>8. Objective(c, pre, i) <= Objective(c, pre, b)
  BY <1>3, <1>4, <1>6, BestIs
<1>9. Objective(c, pre, i) \in Int /\ Objective(c, pre, b) \in Int
  BY <1>4, <1>7, ObjectiveIs
<1> DEFINE x == SimQuery[c[i].text]
           y == SimQuery[c[b].text]
           r == Redundancy(c, pre, i)
           s == Redundancy(c, pre, b)
<1>10. x \in Int /\ y \in Int /\ r \in Int /\ s \in Int
  <2>1. x \in Int /\ y \in Int
    BY <1>7, RetrievalAssumption DEF WithTexts
  <2>2. r \in Int /\ s \in Int
    BY <1>4, <1>5, <1>7, RedundancyIs
  <2>3. QED
    BY <2>1, <2>2
<1>11. /\ Objective(c, pre, i) = Lambda * x - (10 - Lambda) * r
       /\ Objective(c, pre, b) = Lambda * y - (10 - Lambda) * s
  BY <1>5 DEF Objective
<1> HIDE DEF x, y, r, s
<1>12. ~(x > y /\ r < s)
  <2> SUFFICES ASSUME x > y, r < s PROVE FALSE
    OBVIOUS
  <2>1. Lambda * x - (10 - Lambda) * r > Lambda * y - (10 - Lambda) * s
    BY <1>10, ObjectiveOrder
  <2>2. QED
    BY <1>8, <1>9, <1>11, <2>1
<1>13. QED
  BY <1>12 DEF x, y, r, s, b, pre, p

\* The candidates MMR returns are candidates it was given.
LEMMA DiversifiedIs ==
  ASSUME NEW T, NEW c \in Seq(T), WithTexts(c)
  PROVE  /\ mmr_pick(c) \in Seq(T)
         /\ \A n \in DOMAIN mmr_pick(c) : \E i \in DOMAIN c : mmr_pick(c)[n] = c[i]
         /\ c # <<>> => mmr_pick(c) # <<>>
<1> DEFINE p == Picks(c)
           m == [n \in DOMAIN p |-> c[p[n]]]
<1>1. p \in Seq(DOMAIN c) /\ (c # <<>> => p # <<>>)
  BY PicksIs DEF Chosen
<1>2. mmr_pick(c) = m
  BY DEF mmr_pick
<1> HIDE DEF p
<1>3. Len(p) \in Nat /\ DOMAIN p = 1 .. Len(p) /\ \A n \in DOMAIN p : p[n] \in DOMAIN c
  BY <1>1
<1>4. m \in [1 .. Len(p) -> T]
  BY <1>3
<1>5. m \in Seq(T) /\ Len(m) = Len(p) /\ DOMAIN m = DOMAIN p
  BY <1>3, <1>4
<1>6. \A n \in DOMAIN m : \E i \in DOMAIN c : m[n] = c[i]
  BY <1>3
<1> HIDE DEF m
<1>7. c # <<>> => m # <<>>
  BY <1>1, <1>5, Positions
<1>8. QED
  BY <1>2, <1>5, <1>6, <1>7

-----------------------------------------------------------------------------
(* The stages of a request                                                   *)

\* A row on its way to the prompt: as it was retrieved, or as fusion made it.
AnyRow == Rows \cup Candidates

\* It is a chunk that was retrieved, with the text of the dense row where there is one.
From(d, s, c) ==
  /\ c.id \in Ids(d) \cup Ids(s)
  /\ \A i \in DOMAIN d : d[i].id = c.id => d[i].text = c.text

AllFrom(d, s, l) == l \in Seq(AnyRow) /\ \A n \in DOMAIN l : From(d, s, l[n])

RetrievedInv(w) ==
  /\ IF pc[w] = "idle" THEN req[w] = None ELSE req[w] \in Inputs[w]
  /\ Len(dense[w]) <= RetrieverK /\ Len(sparse[w]) <= RetrieverK
  /\ \A i, j \in DOMAIN dense[w] : dense[w][i].id = dense[w][j].id => i = j

FusedInv(w) ==
  /\ AllFrom(dense[w], sparse[w], fused[w])
  /\ pc[w] \in {"idle", "fuse"} => fused[w] = <<>>
  /\ pc[w] = "diversify" /\ req[w].hybrid => fused[w] = rrf_fuse(dense[w], sparse[w])
  /\ pc[w] \notin {"idle", "fuse"} /\ dense[w] # <<>> => fused[w] # <<>>

PickedInv(w) ==
  /\ AllFrom(dense[w], sparse[w], picked[w])
  /\ pc[w] \in {"idle", "fuse", "diversify"} => picked[w] = <<>>
  /\ pc[w] \notin {"idle", "fuse", "diversify"} /\ dense[w] # <<>> => picked[w] # <<>>
  /\ pc[w] \in {"load", "predict", "post", "count", "breach", "rank"} => picked[w] # <<>>

\* A row of a reranker's answer.
Scoring(D) == [index : D, score : Int]

\* An answer names candidates that were sent, and is empty only when it is flagged.
ScoredInv(w) ==
  /\ timedOut[w] => pc[w] \in {"count", "breach", "rank", "generate"}
  /\ pc[w] = "breach" => timedOut[w]
  /\ pc[w] \in {"count", "breach", "rank"} =>
       /\ scored[w] \in Seq(Scoring(DOMAIN picked[w]))
       /\ timedOut[w] \/ scored[w] # <<>>

Descending(l) == \A i, j \in DOMAIN l : i < j => l[i].score >= l[j].score

ContextInv(w) ==
  /\ AllFrom(dense[w], sparse[w], context[w])
  /\ pc[w] # "generate" => context[w] = <<>>
  /\ pc[w] = "generate" =>
       /\ dense[w] # <<>> => context[w] # <<>>
       /\ timedOut[w] => context[w] = First(TopK, picked[w])
       /\ req[w].rerank /\ ~timedOut[w] => Descending(context[w])

LocalInv(w) ==
  RetrievedInv(w) /\ FusedInv(w) /\ PickedInv(w) /\ ScoredInv(w) /\ ContextInv(w)

Asked == {None} \cup UNION {Inputs[w] : w \in Workers}

\* What each variable holds.
Shapes ==
  /\ pc \in [Workers -> Stages] /\ req \in [Workers -> Asked]
  /\ dense \in [Workers -> Seq(Rows)] /\ sparse \in [Workers -> Seq(Rows)]
  /\ fused \in [Workers -> Seq(AnyRow)] /\ picked \in [Workers -> Seq(AnyRow)]
  /\ scored \in [Workers -> Seq(Scoring(Nat))]
  /\ context \in [Workers -> Seq(AnyRow)]
  /\ timedOut \in [Workers -> BOOLEAN] /\ loaded \in BOOLEAN

RequestInv == \A w \in Workers : LocalInv(w)

\* The requests that were counted and have not returned, and those of them whose breach was.
Awaiting == {w \in Workers : pc[w] \in {"breach", "rank"}}
Flagged == {w \in Workers : pc[w] = "rank" /\ timedOut[w]}

CountInv ==
  /\ reranked \in Nat /\ degraded \in Nat /\ degraded <= reranked
  /\ requests = reranked + Cardinality(Awaiting)
  /\ timeouts = degraded + Cardinality(Flagged)

Inv == Shapes /\ RequestInv /\ CountInv

LEMMA RowIs ==
  ASSUME NEW c \in AnyRow
  PROVE  /\ c.text \in Texts /\ c.score \in Int
         /\ \A x \in Int : LET r == [c EXCEPT !.score = x]
                           IN r \in AnyRow /\ r.id = c.id /\ r.text = c.text /\ r.score = x
<1>1. CASE c \in Rows
  <2>1. c.text \in Texts /\ c.score \in Int
    BY <1>1 DEF Rows
  <2>2. ASSUME NEW x \in Int PROVE LET r == [c EXCEPT !.score = x]
                                   IN r \in Rows /\ r.id = c.id /\ r.text = c.text /\ r.score = x
    BY <1>1 DEF Rows
  <2>3. QED
    BY <2>1, <2>2 DEF AnyRow
<1>2. CASE c \in Candidates
  <2>1. c.text \in Texts /\ c.score \in Int
    BY <1>2 DEF Candidates
  <2>2. ASSUME NEW x \in Int PROVE LET r == [c EXCEPT !.score = x]
                                   IN r \in Candidates /\ r.id = c.id /\ r.text = c.text /\ r.score = x
    BY <1>2 DEF Candidates
  <2>3. QED
    BY <2>1, <2>2 DEF AnyRow
<1>3. QED
  BY <1>1, <1>2 DEF AnyRow

\* A list of members of such a list is one.
LEMMA FromOf ==
  ASSUME NEW d, NEW s, NEW l, AllFrom(d, s, l), NEW m \in Seq(AnyRow),
         \A n \in DOMAIN m : \E i \in DOMAIN l : m[n] = l[i]
  PROVE  AllFrom(d, s, m)
BY DEF AllFrom

LEMMA FromFirst ==
  ASSUME NEW d, NEW s, NEW l, AllFrom(d, s, l), NEW k \in Nat
  PROVE  AllFrom(d, s, First(k, l))
<1>1. l \in Seq(AnyRow)
  BY DEF AllFrom
<1> DEFINE f == First(k, l)
<1>2. /\ f \in Seq(AnyRow) /\ DOMAIN f \subseteq DOMAIN l
      /\ \A n \in DOMAIN f : f[n] = l[n]
  BY <1>1, FirstIs
<1> HIDE DEF f
<1>3. AllFrom(d, s, f)
  BY <1>2, FromOf
<1>4. QED
  BY <1>3 DEF f

\* The rows of the dense list are such a list.
LEMMA FromDense ==
  ASSUME NEW d \in Seq(Rows), NEW s, \A i, j \in DOMAIN d : d[i].id = d[j].id => i = j
  PROVE  AllFrom(d, s, d)
<1>1. d \in Seq(AnyRow)
  <2>1. \A n \in 1 .. Len(d) : d[n] \in AnyRow
    BY DEF AnyRow
  <2>2. QED
    BY <2>1
<1>2. \A n \in DOMAIN d : From(d, s, d[n])
  BY DEF From, Ids
<1>3. QED
  BY <1>1, <1>2 DEF AllFrom

LEMMA FromEmpty ==
  ASSUME NEW d, NEW s
  PROVE  AllFrom(d, s, <<>>)
BY DEF AllFrom

\* The request of one thread stands as it did.
Kept(v) ==
  /\ pc'[v] = pc[v] /\ req'[v] = req[v] /\ dense'[v] = dense[v] /\ sparse'[v] = sparse[v]
  /\ fused'[v] = fused[v] /\ picked'[v] = picked[v] /\ scored'[v] = scored[v]
  /\ timedOut'[v] = timedOut[v] /\ context'[v] = context[v]

\* A step of one thread leaves the others alone.
LEMMA Elsewhere ==
  ASSUME RequestInv, NEW w \in Workers, LocalInv(w)', \A v \in Workers \ {w} : Kept(v)
  PROVE  RequestInv'
<1>1. ASSUME NEW v \in Workers PROVE LocalInv(v)'
  <2>1. CASE v = w
    BY <2>1
  <2>2. CASE v # w
    <3>1. Kept(v) /\ LocalInv(v)
      BY <2>2 DEF RequestInv
    <3>2. RetrievedInv(v)'
      BY <3>1 DEF LocalInv, RetrievedInv, Kept
    <3>3. FusedInv(v)'
      BY <3>1 DEF LocalInv, FusedInv, Kept
    <3>4. PickedInv(v)'
      BY <3>1 DEF LocalInv, PickedInv, Kept
    <3>5. ScoredInv(v)'
      BY <3>1 DEF LocalInv, ScoredInv, Kept
    <3>6. ContextInv(v)'
      BY <3>1 DEF LocalInv, ContextInv, Kept
    <3>7. QED
      BY <3>2, <3>3, <3>4, <3>5, <3>6 DEF LocalInv
  <2>3. QED
    BY <2>1, <2>2
<1>2. QED
  BY <1>1 DEF RequestInv

LEMMA RequestInit ==
  ASSUME Init
  PROVE  Shapes /\ RequestInv
<1>1. /\ <<>> \in Seq(Rows) /\ <<>> \in Seq(AnyRow)
      /\ <<>> \in Seq(Scoring(Nat))
  OBVIOUS
<1>2. Shapes
  BY <1>1 DEF Init, Shapes, Stages, Asked
<1>3. ASSUME NEW w \in Workers PROVE LocalInv(w)
  <2>1. /\ pc[w] = "idle" /\ req[w] = None /\ dense[w] = <<>> /\ sparse[w] = <<>> /\ fused[w] = <<>>
        /\ picked[w] = <<>> /\ context[w] = <<>> /\ timedOut[w] = FALSE
    BY DEF Init
  <2>2. RetrieverK \in Nat
    BY RetrievalAssumption
  <2>3. RetrievedInv(w)
    BY <2>1, <2>2 DEF RetrievedInv
  <2>4. FusedInv(w) /\ PickedInv(w) /\ ContextInv(w)
    BY <2>1, FromEmpty DEF FusedInv, PickedInv, ContextInv
  <2>5. ScoredInv(w)
    BY <2>1 DEF ScoredInv
  <2>6. QED
    BY <2>3, <2>4, <2>5 DEF LocalInv
<1>4. QED
  BY <1>2, <1>3 DEF RequestInv

\* A restart is a start.
LEMMA RequestRestart == Restart => Shapes' /\ RequestInv'
<1>1. Restart => Init'
  BY DEF Restart, Init
<1>2. Init => Shapes /\ RequestInv
  BY RequestInit
<1>3. QED
  BY <1>1, <1>2, PTL

\* The two queries.
LEMMA RequestRetrieve ==
  ASSUME Shapes, RequestInv, NEW w \in Workers, NEW q \in Inputs[w], Retrieve(w, q)
  PROVE  Shapes' /\ RequestInv'
<1> DEFINE near == IF q.filter THEN At(q.near, {i \in DOMAIN q.near : q.near[i].meta}) ELSE q.near
           d == First(RetrieverK, near)
           s == IF q.hybrid THEN First(RetrieverK, q.matched) ELSE <<>>
<1>1. /\ RetrieverK \in Nat /\ q.near \in Seq(Rows) /\ q.matched \in Seq(Rows)
      /\ \A i, j \in DOMAIN q.near : q.near[i].id = q.near[j].id => i = j
  BY RetrievalAssumption
<1>2. near \in Seq(Rows) /\ \A i, j \in DOMAIN near : near[i].id = near[j].id => i = j
  <2>1. CASE q.filter
    <3> DEFINE K == {i \in DOMAIN q.near : q.near[i].meta}
    <3>1. K \in SUBSET DOMAIN q.near
      OBVIOUS
    <3>2. near = At(q.near, K)
      BY <2>1
    <3> HIDE DEF K, near
    <3>3. At(q.near, K) \in Seq(Rows)
      BY <1>1, <3>1, AtIs
    <3>4. \A i, j \in DOMAIN At(q.near, K) : At(q.near, K)[i].id = At(q.near, K)[j].id => i = j
      BY <1>1, <3>1, AtFrom
    <3>5. QED
      BY <3>2, <3>3, <3>4
  <2>2. CASE ~q.filter
    BY <1>1, <2>2
  <2>3. QED
    BY <2>1, <2>2
<1> HIDE DEF near
<1>3. /\ d \in Seq(Rows) /\ Len(d) <= RetrieverK /\ DOMAIN d \subseteq DOMAIN near
      /\ \A n \in DOMAIN d : d[n] = near[n]
  BY <1>1, <1>2, FirstIs
<1>4. s \in Seq(Rows) /\ Len(s) <= RetrieverK
  <2>1. CASE q.hybrid
    BY <1>1, <2>1, FirstIs
  <2>2. CASE ~q.hybrid
    BY <1>1, <2>2
  <2>3. QED
    BY <2>1, <2>2
<1>5. /\ pc[w] = "idle" /\ pc' = [pc EXCEPT ![w] = "fuse"] /\ req' = [req EXCEPT ![w] = q]
      /\ dense' = [dense EXCEPT ![w] = d] /\ sparse' = [sparse EXCEPT ![w] = s]
      /\ UNCHANGED <<fused, picked, scored, timedOut, context, loaded>>
  BY DEF Retrieve, Goto, near
<1> HIDE DEF d, s
<1>6. q \in Asked
  BY DEF Asked
<1>7. Shapes'
  BY <1>3, <1>4, <1>5, <1>6 DEF Shapes, Stages
<1>8. \A v \in Workers \ {w} : Kept(v)
  BY <1>5 DEF Kept, Shapes
<1>9. /\ pc'[w] = "fuse" /\ req'[w] = q /\ dense'[w] = d /\ sparse'[w] = s
      /\ fused'[w] = <<>> /\ picked'[w] = <<>> /\ context'[w] = <<>> /\ timedOut'[w] = FALSE
  <2>1. fused[w] = <<>> /\ picked[w] = <<>> /\ context[w] = <<>> /\ ~timedOut[w]
    BY <1>5 DEF RequestInv, LocalInv, FusedInv, PickedInv, ContextInv, ScoredInv
  <2>2. QED
    BY <1>5, <2>1 DEF Shapes
<1>10. LocalInv(w)'
  <2>1. RetrievedInv(w)'
    <3>1. \A i, j \in DOMAIN d : d[i].id = d[j].id => i = j
      BY <1>2, <1>3
    <3>2. QED
      BY <1>3, <1>4, <1>9, <3>1 DEF RetrievedInv
  <2>2. FusedInv(w)' /\ PickedInv(w)' /\ ContextInv(w)'
    BY <1>9, FromEmpty DEF FusedInv, PickedInv, ContextInv
  <2>3. ScoredInv(w)'
    BY <1>9 DEF ScoredInv
  <2>4. QED
    BY <2>1, <2>2, <2>3 DEF LocalInv
<1>11. QED
  BY <1>7, <1>8, <1>10, Elsewhere

\* rrf_fuse, or the dense list.
LEMMA RequestFuse ==
  ASSUME Shapes, RequestInv, NEW w \in Workers, Fuse(w)
  PROVE  Shapes' /\ RequestInv'
<1> DEFINE d == dense[w]
           s == sparse[w]
           f == IF req[w].hybrid THEN rrf_fuse(d, s) ELSE First(FusedK, d)
<1>0. LocalInv(w)
  BY DEF RequestInv
<1>1. /\ d \in Seq(Rows) /\ s \in Seq(Rows) /\ FusedK \in Nat /\ FusedK # 0
      /\ \A i, j \in DOMAIN d : d[i].id = d[j].id => i = j
  BY <1>0, RetrievalAssumption DEF LocalInv, RetrievedInv, Shapes
<1>2. /\ pc[w] = "fuse" /\ pc' = [pc EXCEPT ![w] = "diversify"]
      /\ fused' = [fused EXCEPT ![w] = f]
      /\ UNCHANGED <<req, dense, sparse, picked, scored, timedOut, context, loaded>>
  BY DEF Fuse, Goto
<1> HIDE DEF d, s
<1>3. AllFrom(d, s, f) /\ (d # <<>> => f # <<>>)
  <2>1. CASE req[w].hybrid
    <3> DEFINE r == rrf_fuse(d, s)
    <3>1. /\ r \in Seq(Candidates) /\ (d # <<>> => r # <<>>)
          /\ \A n \in DOMAIN r : Fused(d, s, r[n])
      BY <1>1, FusionIs
    <3> HIDE DEF r
    <3>2. \A n \in DOMAIN r : From(d, s, r[n])
      BY <3>1 DEF Fused, From
    <3>3. r \in Seq(AnyRow)
      <4>1. \A n \in 1 .. Len(r) : r[n] \in AnyRow
        BY <3>1 DEF AnyRow
      <4>2. QED
        BY <3>1, <4>1
    <3>4. f = r
      BY <2>1 DEF r
    <3>5. QED
      BY <3>1, <3>2, <3>3, <3>4 DEF AllFrom
  <2>2. CASE ~req[w].hybrid
    <3>1. f = First(FusedK, d)
      BY <2>2
    <3>2. AllFrom(d, s, First(FusedK, d))
      BY <1>1, FromDense, FromFirst
    <3>3. d # <<>> => First(FusedK, d) # <<>>
      BY <1>1, FirstIs
    <3>4. QED
      BY <3>1, <3>2, <3>3
  <2>3. QED
    BY <2>1, <2>2
<1>4. req[w].hybrid => f = rrf_fuse(d, s)
  OBVIOUS
<1> HIDE DEF f
<1>5. f \in Seq(AnyRow)
  BY <1>3 DEF AllFrom
<1>6. Shapes'
  BY <1>2, <1>5 DEF Shapes, Stages
<1>7. \A v \in Workers \ {w} : Kept(v)
  BY <1>2 DEF Kept, Shapes
<1>8. /\ pc'[w] = "diversify" /\ req'[w] = req[w] /\ dense'[w] = d /\ sparse'[w] = s
      /\ fused'[w] = f /\ picked'[w] = picked[w] /\ context'[w] = context[w]
      /\ timedOut'[w] = timedOut[w]
  BY <1>2 DEF Shapes, d, s
<1>9. LocalInv(w)'
  <2>1. RetrievedInv(w)'
    BY <1>0, <1>2, <1>8 DEF LocalInv, RetrievedInv, d, s
  <2>2. FusedInv(w)'
    BY <1>3, <1>4, <1>8 DEF FusedInv
  <2>3. PickedInv(w)'
    BY <1>0, <1>2, <1>8, FromEmpty DEF LocalInv, PickedInv
  <2>4. ContextInv(w)'
    BY <1>0, <1>2, <1>8, FromEmpty DEF LocalInv, ContextInv
  <2>5. ScoredInv(w)'
    BY <1>0, <1>2, <1>8 DEF LocalInv, ScoredInv
  <2>6. QED
    BY <2>1, <2>2, <2>3, <2>4, <2>5 DEF LocalInv
<1>10. QED
  BY <1>6, <1>7, <1>9, Elsewhere

\* mmr_pick, or the head of the list; without a reranker that is the context.
LEMMA RequestDiversify ==
  ASSUME Shapes, RequestInv, NEW w \in Workers, Diversify(w)
  PROVE  Shapes' /\ RequestInv'
<1> DEFINE d == dense[w]
           s == sparse[w]
           f == fused[w]
           p == IF req[w].mmr THEN mmr_pick(f) ELSE First(MmrK, f)
           c == IF req[w].rerank THEN context[w] ELSE First(TopK, p)
           at == IF req[w].rerank THEN "rerank" ELSE "generate"
<1>0. LocalInv(w)
  BY DEF RequestInv
<1>1. /\ f \in Seq(AnyRow) /\ AllFrom(d, s, f)
      /\ MmrK \in Nat /\ MmrK # 0 /\ TopK \in Nat /\ TopK # 0
  BY <1>0, RetrievalAssumption DEF LocalInv, FusedInv, Shapes
<1>2. /\ pc[w] = "diversify" /\ pc' = [pc EXCEPT ![w] = at]
      /\ picked' = [picked EXCEPT ![w] = p]
      /\ UNCHANGED <<req, dense, sparse, fused, scored, timedOut, loaded>>
  BY DEF Diversify, Goto
<1>3. context' = [context EXCEPT ![w] = c]
  <2>1. picked'[w] = p
    BY <1>2 DEF Shapes
  <2>2. context \in [Workers -> Seq(AnyRow)]
    BY DEF Shapes
  <2>3. CASE req[w].rerank
    <3>1. context' = context
      BY <2>3 DEF Diversify
    <3>2. QED
      BY <2>2, <2>3, <3>1
  <2>4. CASE ~req[w].rerank
    <3>1. context' = [context EXCEPT ![w] = First(TopK, picked'[w])]
      BY <2>4 DEF Diversify
    <3>2. QED
      BY <2>1, <2>4, <3>1
  <2>5. QED
    BY <2>3, <2>4
<1> HIDE DEF d, s, f
<1>4. AllFrom(d, s, p) /\ (f # <<>> => p # <<>>)
  <2>1. CASE req[w].mmr
    <3> DEFINE m == mmr_pick(f)
    <3>1. WithTexts(f)
      BY <1>1, RowIs DEF WithTexts
    <3>2. /\ m \in Seq(AnyRow) /\ (f # <<>> => m # <<>>)
          /\ \A n \in DOMAIN m : \E i \in DOMAIN f : m[n] = f[i]
      BY <1>1, <3>1, DiversifiedIs
    <3>3. p = m
      BY <2>1
    <3> HIDE DEF m
    <3>4. AllFrom(d, s, m)
      BY <1>1, <3>2, FromOf
    <3>5. QED
      BY <3>2, <3>3, <3>4
  <2>2. CASE ~req[w].mmr
    <3>1. p = First(MmrK, f)
      BY <2>2
    <3>2. AllFrom(d, s, First(MmrK, f)) /\ (f # <<>> => First(MmrK, f) # <<>>)
      BY <1>1, FromFirst, FirstIs
    <3>3. QED
      BY <3>1, <3>2
  <2>3. QED
    BY <2>1, <2>2
<1> HIDE DEF p
<1>5. p \in Seq(AnyRow)
  BY <1>4 DEF AllFrom
<1>6. AllFrom(d, s, c) /\ (~req[w].rerank /\ p # <<>> => c # <<>>)
  <2>1. CASE req[w].rerank
    BY <1>0, <2>1 DEF LocalInv, ContextInv, d, s
  <2>2. CASE ~req[w].rerank
    BY <1>1, <1>4, <1>5, <2>2, FromFirst, FirstIs
  <2>3. QED
    BY <2>1, <2>2
<1>7. req[w].rerank => at = "rerank" /\ c = <<>>
  BY <1>0, <1>2 DEF LocalInv, ContextInv
<1>8. ~req[w].rerank => at = "generate"
  OBVIOUS
<1>9. at \in {"rerank", "generate"}
  OBVIOUS
<1> HIDE DEF c, at
<1>10. c \in Seq(AnyRow)
  BY <1>6 DEF AllFrom
<1>11. Shapes'
  BY <1>2, <1>3, <1>5, <1>9, <1>10 DEF Shapes, Stages
<1>12. \A v \in Workers \ {w} : Kept(v)
  BY <1>2, <1>3 DEF Kept, Shapes
<1>13. /\ pc'[w] = at /\ req'[w] = req[w] /\ dense'[w] = d /\ sparse'[w] = s
       /\ fused'[w] = f /\ picked'[w] = p /\ context'[w] = c /\ timedOut'[w] = timedOut[w]
  BY <1>2, <1>3 DEF Shapes, d, s, f
<1>14. ~timedOut[w] /\ (d # <<>> => f # <<>>)
  BY <1>0, <1>2 DEF LocalInv, ScoredInv, FusedInv, d, f
<1>15. LocalInv(w)'
  <2>1. RetrievedInv(w)'
    BY <1>0, <1>2, <1>9, <1>13 DEF LocalInv, RetrievedInv, d, s
  <2>2. FusedInv(w)'
    BY <1>1, <1>9, <1>13, <1>14 DEF FusedInv
  <2>3. PickedInv(w)'
    BY <1>4, <1>9, <1>13, <1>14 DEF PickedInv
  <2>4. ContextInv(w)'
    BY <1>4, <1>6, <1>7, <1>8, <1>9, <1>13, <1>14 DEF ContextInv
  <2>5. ScoredInv(w)'
    BY <1>9, <1>13, <1>14 DEF ScoredInv
  <2>6. QED
    BY <2>1, <2>2, <2>3, <2>4, <2>5 DEF LocalInv
<1>16. QED
  BY <1>11, <1>12, <1>15, Elsewhere

\* A step that moves a request on and leaves its lists as they are.
LEMMA RequestMoves ==
  ASSUME Shapes, RequestInv, NEW w \in Workers, NEW at \in Stages,
         pc' = [pc EXCEPT ![w] = at], loaded' \in BOOLEAN,
         UNCHANGED <<req, dense, sparse, fused, picked, scored, timedOut, context>>,
         pc[w] \in {"rerank", "load", "predict", "post", "count", "breach"},
         \/ at = "raised" /\ pc[w] \in {"rerank", "load", "predict", "post"}
         \/ at = "generate" /\ pc[w] = "rerank" /\ picked[w] = <<>>
         \/ at \in {"load", "post"} /\ pc[w] = "rerank" /\ picked[w] # <<>>
         \/ at = "predict" /\ pc[w] = "load"
         \/ at = "breach" /\ pc[w] = "count" /\ timedOut[w]
         \/ at = "rank" /\ pc[w] \in {"count", "breach"}
  PROVE  Shapes' /\ RequestInv'
<1>0. LocalInv(w)
  BY DEF RequestInv
<1>1. Shapes'
  BY DEF Shapes
<1>2. \A v \in Workers \ {w} : Kept(v)
  BY DEF Kept, Shapes
<1>3. pc'[w] = at
  BY DEF Shapes
<1>4. at \in {"raised", "generate", "load", "post", "predict", "breach", "rank"}
  OBVIOUS
<1>5. LocalInv(w)'
  <2>1. RetrievedInv(w)'
    BY <1>0, <1>3, <1>4 DEF LocalInv, RetrievedInv
  <2>2. FusedInv(w)'
    BY <1>0, <1>3, <1>4 DEF LocalInv, FusedInv
  <2>3. PickedInv(w)'
    BY <1>0, <1>3, <1>4 DEF LocalInv, PickedInv
  <2>4. ScoredInv(w)'
    BY <1>0, <1>3, <1>4 DEF LocalInv, ScoredInv
  <2>5. ContextInv(w)'
    <3>1. context[w] = <<>> /\ context'[w] = <<>>
      BY <1>0 DEF LocalInv, ContextInv
    <3>2. at = "generate" => dense'[w] = <<>> /\ ~timedOut'[w]
      BY <1>0 DEF LocalInv, PickedInv, ScoredInv
    <3>3. Descending(<<>>)
      BY DEF Descending
    <3>4. QED
      BY <1>3, <3>1, <3>2, <3>3, FromEmpty DEF ContextInv
  <2>6. QED
    BY <2>1, <2>2, <2>3, <2>4, <2>5 DEF LocalInv
<1>6. QED
  BY <1>1, <1>2, <1>5, Elsewhere

LEMMA RequestResolve ==
  ASSUME Shapes, RequestInv, NEW w \in Workers, rerank_candidates(w)
  PROVE  Shapes' /\ RequestInv'
<1> DEFINE b == resolve_reranker(req[w].reranker)
           at == CASE b = "ValueError" -> "raised"
                   [] b # "ValueError" /\ picked[w] = <<>> -> "generate"
                   [] b = "bge" /\ picked[w] # <<>> -> "load"
                   [] OTHER -> IF req[w].key THEN "post" ELSE "raised"
<1>1. /\ pc[w] = "rerank" /\ pc' = [pc EXCEPT ![w] = at] /\ loaded' = loaded
      /\ UNCHANGED <<req, dense, sparse, fused, picked, scored, timedOut, context>>
  BY DEF rerank_candidates, Goto
<1>2. b \in {"ValueError", "bge", "cohere"}
  BY DEF resolve_reranker
<1> HIDE DEF b
<1>3. \/ at = "raised"
      \/ at = "generate" /\ picked[w] = <<>>
      \/ at \in {"load", "post"} /\ picked[w] # <<>>
  <2>1. CASE b = "ValueError"
    BY <2>1
  <2>2. CASE b # "ValueError" /\ picked[w] = <<>>
    BY <2>2
  <2>3. CASE b = "bge" /\ picked[w] # <<>>
    BY <2>3
  <2>4. CASE b = "cohere" /\ picked[w] # <<>>
    BY <2>4
  <2>5. QED
    BY <1>2, <2>1, <2>2, <2>3, <2>4
<1> HIDE DEF at
<1>4. at \in Stages /\ loaded' \in BOOLEAN
  BY <1>1, <1>3 DEF Stages, Shapes
<1>5. QED
  BY <1>1, <1>3, <1>4, RequestMoves

LEMMA RequestLoad ==
  ASSUME Shapes, RequestInv, NEW w \in Workers, _get_reranker(w)
  PROVE  Shapes' /\ RequestInv'
<1>1. /\ pc[w] = "load" /\ pc' = [pc EXCEPT ![w] = "predict"] /\ loaded' \in BOOLEAN
      /\ UNCHANGED <<req, dense, sparse, fused, picked, scored, timedOut, context>>
  BY DEF _get_reranker, Goto
<1>2. "predict" \in Stages
  BY DEF Stages
<1>3. QED
  BY <1>1, <1>2, RequestMoves

LEMMA RequestRaise ==
  ASSUME Shapes, RequestInv, NEW w \in Workers, Raise(w)
  PROVE  Shapes' /\ RequestInv'
<1>1. /\ pc[w] \in {"load", "predict"} /\ pc' = [pc EXCEPT ![w] = "raised"]
      /\ loaded' \in BOOLEAN
      /\ UNCHANGED <<req, dense, sparse, fused, picked, scored, timedOut, context>>
  BY DEF Raise, Goto, Shapes
<1>2. "raised" \in Stages
  BY DEF Stages
<1>3. QED
  BY <1>1, <1>2, RequestMoves

LEMMA RequestRecord ==
  ASSUME Shapes, RequestInv, NEW w \in Workers, record_rerank(w)
  PROVE  Shapes' /\ RequestInv'
<1> DEFINE at == IF pc[w] = "count" /\ timedOut[w] THEN "breach" ELSE "rank"
<1>1. /\ pc[w] \in {"count", "breach"} /\ pc' = [pc EXCEPT ![w] = at] /\ loaded' \in BOOLEAN
      /\ UNCHANGED <<req, dense, sparse, fused, picked, scored, timedOut, context>>
  BY DEF record_rerank, Goto, Shapes
<1>2. \/ at = "breach" /\ pc[w] = "count" /\ timedOut[w]
      \/ at = "rank"
  OBVIOUS
<1> HIDE DEF at
<1>3. at \in Stages
  BY <1>2 DEF Stages
<1>4. QED
  BY <1>1, <1>2, <1>3, RequestMoves

\* A reranker answers: the scores of candidates that were sent, or the flag.
LEMMA RequestScored ==
  ASSUME Shapes, RequestInv, NEW w \in Workers, pc[w] \in {"predict", "post"},
         pc' = [pc EXCEPT ![w] = "count"], loaded' = loaded,
         UNCHANGED <<req, dense, sparse, fused, picked, context>>,
         NEW l \in Seq(Scoring(DOMAIN picked[w])), NEW t \in BOOLEAN,
         scored' = [scored EXCEPT ![w] = l], timedOut' = [timedOut EXCEPT ![w] = t],
         t \/ l # <<>>
  PROVE  Shapes' /\ RequestInv'
<1>0. LocalInv(w)
  BY DEF RequestInv
<1>1. l \in Seq(Scoring(Nat))
  <2>1. picked[w] \in Seq(AnyRow)
    BY DEF Shapes
  <2>2. DOMAIN picked[w] \subseteq Nat
    BY <2>1, Positions
  <2>3. \A r \in Scoring(DOMAIN picked[w]) : r \in Scoring(Nat)
    BY <2>2 DEF Scoring
  <2>4. \A n \in DOMAIN l : l[n] \in Scoring(Nat)
    BY <2>3
  <2>5. QED
    BY <2>4, SeqIn
<1>2. Shapes'
  BY <1>1 DEF Shapes, Stages
<1>3. \A v \in Workers \ {w} : Kept(v)
  BY DEF Kept, Shapes
<1>4. pc'[w] = "count" /\ scored'[w] = l /\ timedOut'[w] = t
  BY DEF Shapes
<1>5. LocalInv(w)'
  <2>1. RetrievedInv(w)'
    BY <1>0, <1>4 DEF LocalInv, RetrievedInv
  <2>2. FusedInv(w)'
    BY <1>0, <1>4 DEF LocalInv, FusedInv
  <2>3. PickedInv(w)'
    BY <1>0, <1>4 DEF LocalInv, PickedInv
  <2>4. ScoredInv(w)'
    BY <1>4 DEF ScoredInv
  <2>5. ContextInv(w)'
    BY <1>0, <1>4 DEF LocalInv, ContextInv
  <2>6. QED
    BY <2>1, <2>2, <2>3, <2>4, <2>5 DEF LocalInv
<1>6. QED
  BY <1>2, <1>3, <1>5, Elsewhere

LEMMA RequestPredict ==
  ASSUME Shapes, RequestInv, NEW w \in Workers, Predict(w)
  PROVE  Shapes' /\ RequestInv'
<1> DEFINE D == DOMAIN picked[w]
<1>1. /\ pc[w] = "predict" /\ pc' = [pc EXCEPT ![w] = "count"] /\ loaded' = loaded
      /\ UNCHANGED <<req, dense, sparse, fused, picked, context>>
  BY DEF Predict, Goto
<1>2. PICK v \in [D -> Scores], late \in BOOLEAN :
        /\ scored' = [scored EXCEPT ![w] = [i \in D |-> [index |-> i, score |-> v[i]]]]
        /\ timedOut' = [timedOut EXCEPT ![w] = late]
  BY DEF Predict
<1> DEFINE l == [i \in D |-> [index |-> i, score |-> v[i]]]
<1>3. picked[w] \in Seq(AnyRow) /\ picked[w] # <<>>
  BY <1>1 DEF Shapes, RequestInv, LocalInv, PickedInv
<1>4. D = 1 .. Len(picked[w]) /\ Len(picked[w]) \in Nat /\ D # {}
  BY <1>3, Positions
<1> HIDE DEF D
<1>5. \A i \in D : [index |-> i, score |-> v[i]] \in Scoring(D)
  BY RetrievalAssumption DEF Scoring
<1>6. l \in Seq(Scoring(D)) /\ DOMAIN l = D
  <2>1. l \in [1 .. Len(picked[w]) -> Scoring(D)]
    BY <1>4, <1>5
  <2>2. QED
    BY <1>4, <2>1
<1>7. l # <<>>
  BY <1>4, <1>6, Positions
<1>8. scored' = [scored EXCEPT ![w] = l]
  BY <1>2
<1> HIDE DEF l
<1>9. QED
  BY <1>1, <1>2, <1>6, <1>7, <1>8, RequestScored DEF D

LEMMA ResponsesAre ==
  ASSUME NEW n \in Nat, NEW rows \in Responses(n)
  PROVE  rows \in Seq(Scoring(0 .. n))
<1> DEFINE Q == [index : 0 .. n, score : Scores]
           R == Scoring(0 .. n)
<1>1. TopK \in Nat /\ Scores \subseteq Int
  BY RetrievalAssumption
<1>2. ASSUME NEW x \in Q PROVE x \in R
  BY <1>1 DEF Scoring
<1>3. rows \in UNION {[1 .. k -> Q] : k \in 0 .. TopK}
  BY DEF Responses
<1> HIDE DEF Q, R
<1>4. PICK k \in 0 .. TopK : rows \in [1 .. k -> Q]
  BY <1>3
<1>5. k \in Nat
  BY <1>1
<1>6. rows \in [1 .. k -> R]
  BY <1>2, <1>4
<1>7. rows \in Seq(R)
  BY <1>5, <1>6
<1>8. QED
  BY <1>7 DEF R

LEMMA RequestPost ==
  ASSUME Shapes, RequestInv, NEW w \in Workers, Post(w)
  PROVE  Shapes' /\ RequestInv'
<1> DEFINE n == Len(picked[w])
<1>1. /\ pc[w] = "post" /\ loaded' = loaded
      /\ UNCHANGED <<req, dense, sparse, fused, picked, context>>
  BY DEF Post
<1>2. picked[w] \in Seq(AnyRow)
  BY DEF Shapes
<1>3. n \in Nat /\ DOMAIN picked[w] = 1 .. n
  BY <1>2, Positions
<1>4. CASE Goto(w, "raised") /\ UNCHANGED <<scored, timedOut>>
  <2>1. "raised" \in Stages /\ loaded' \in BOOLEAN
    BY <1>1 DEF Stages, Shapes
  <2>2. pc' = [pc EXCEPT ![w] = "raised"]
    BY <1>4 DEF Goto
  <2>3. QED
    BY <1>1, <1>4, <2>1, <2>2, RequestMoves
<1>5. CASE \E rows \in Responses(n), failed \in BOOLEAN :
             LET kept == IF failed THEN <<>> ELSE At(rows, {i \in DOMAIN rows : rows[i].index # 0})
             IN /\ failed => rows = <<>>
                /\ scored' = [scored EXCEPT ![w] = kept]
                /\ timedOut' = [timedOut EXCEPT ![w] = NotContributed(failed, kept)]
                /\ Goto(w, "count")
  <2> DEFINE R == Scoring(0 .. n)
             T == Scoring(DOMAIN picked[w])
             Read(rows) == At(rows, {i \in DOMAIN rows : rows[i].index # 0})
             Kept0(rows, failed) == IF failed THEN <<>> ELSE Read(rows)
  <2>1. PICK rows \in Responses(n), failed \in BOOLEAN :
          /\ scored' = [scored EXCEPT ![w] = Kept0(rows, failed)]
          /\ timedOut' = [timedOut EXCEPT ![w] = NotContributed(failed, Kept0(rows, failed))]
          /\ pc' = [pc EXCEPT ![w] = "count"]
    BY <1>5 DEF Goto
  <2>2. rows \in Seq(R)
    BY <1>3, ResponsesAre
  <2> DEFINE K == {i \in DOMAIN rows : rows[i].index # 0}
             l == Kept0(rows, failed)
  <2>3. Read(rows) \in Seq(T)
    <3>1. K \in SUBSET DOMAIN rows
      OBVIOUS
    <3>2. ASSUME NEW i \in K PROVE rows[i] \in T
      <4>1. rows[i] \in R /\ rows[i].index # 0
        BY <2>2
      <4>2. \A x \in R : x.index # 0 => x \in T
        BY <1>3 DEF Scoring
      <4> HIDE DEF R, T
      <4>3. QED
        BY <4>1, <4>2
    <3>3. Read(rows) = At(rows, K)
      OBVIOUS
    <3> HIDE DEF K, R
    <3>4. At(rows, K) \in Seq(R)
      BY <2>2, <3>1, AtIs
    <3>5. \A m \in DOMAIN At(rows, K) : \E i \in K : At(rows, K)[m] = rows[i]
      BY <2>2, <3>1, AtFrom
    <3> HIDE DEF T
    <3>6. \A m \in 1 .. Len(At(rows, K)) : At(rows, K)[m] \in T
      BY <3>2, <3>4, <3>5
    <3>7. At(rows, K) \in Seq(T)
      BY <3>4, <3>6
    <3>8. QED
      BY <3>3, <3>7
  <2> HIDE DEF Read, T
  <2>4. l \in Seq(T)
    BY <2>3
  <2> HIDE DEF l
  <2> DEFINE t == NotContributed(failed, l)
  <2>5. t \in BOOLEAN /\ (t \/ l # <<>>)
    BY DEF NotContributed
  <2>6. scored' = [scored EXCEPT ![w] = l] /\ timedOut' = [timedOut EXCEPT ![w] = t]
    BY <2>1 DEF l
  <2> HIDE DEF t
  <2>7. QED
    BY <1>1, <2>1, <2>4, <2>5, <2>6, RequestScored DEF T
<1>6. QED
  BY <1>4, <1>5 DEF Post

\* The order of the reranker, or the order that was there.
LEMMA RequestRank ==
  ASSUME Shapes, RequestInv, NEW w \in Workers, Rank(w)
  PROVE  Shapes' /\ RequestInv'
<1> DEFINE d == dense[w]
           s == sparse[w]
           p == picked[w]
           T == Scoring(DOMAIN p)
           o == Sorted(scored[w])
           r == [n \in DOMAIN o |-> [p[o[n].index] EXCEPT !.score = o[n].score]]
           c == IF timedOut[w] THEN First(TopK, p) ELSE First(TopK, r)
<1>0. LocalInv(w)
  BY DEF RequestInv
<1>1. /\ pc[w] = "rank" /\ pc' = [pc EXCEPT ![w] = "generate"]
      /\ context' = [context EXCEPT ![w] = c]
      /\ UNCHANGED <<req, dense, sparse, fused, picked, scored, timedOut, loaded>>
  BY DEF Rank, Goto
<1>2. /\ p \in Seq(AnyRow) /\ p # <<>> /\ AllFrom(d, s, p) /\ TopK \in Nat /\ TopK # 0
      /\ scored[w] \in Seq(T) /\ (timedOut[w] \/ scored[w] # <<>>)
  BY <1>0, <1>1, RetrievalAssumption DEF LocalInv, PickedInv, ScoredInv, Shapes
<1> HIDE DEF d, s, p
<1>3. /\ AllFrom(d, s, c) /\ c # <<>> /\ (~timedOut[w] => Descending(c))
  <2>1. CASE timedOut[w]
    <3>1. c = First(TopK, p)
      BY <2>1
    <3>2. QED
      BY <1>2, <2>1, <3>1, FromFirst, FirstIs
  <2>2. CASE ~timedOut[w]
    <3>0. \A x \in T : x.index \in DOMAIN p /\ x.score \in Int
      BY DEF Scoring
    <3> HIDE DEF T
    <3>1. \A i \in DOMAIN scored[w] : scored[w][i].score \in Int
      BY <1>2, <3>0
    <3>2. /\ o \in Seq(T) /\ Len(o) = Len(scored[w])
          /\ \A m, n \in DOMAIN o : m < n => o[m].score >= o[n].score
      BY <1>2, <3>1, SortedIs
    <3>3. o # <<>>
      BY <1>2, <2>2, <3>2, Positions
    <3> HIDE DEF o
    <3>4. Len(o) \in Nat /\ DOMAIN o = 1 .. Len(o)
      BY <3>2, Positions
    <3>5. \A n \in DOMAIN o : o[n].index \in DOMAIN p /\ o[n].score \in Int
      BY <3>0, <3>2
    <3>6. ASSUME NEW n \in DOMAIN o
          PROVE  /\ r[n] \in AnyRow /\ r[n].score = o[n].score
                 /\ r[n].id = p[o[n].index].id /\ r[n].text = p[o[n].index].text
      <4>1. p[o[n].index] \in AnyRow
        BY <1>2, <3>5
      <4>2. r[n] = [p[o[n].index] EXCEPT !.score = o[n].score]
        OBVIOUS
      <4>3. QED
        BY <3>5, <4>1, <4>2, RowIs
    <3>7. DOMAIN r = DOMAIN o
      OBVIOUS
    <3>8. r = [n \in DOMAIN o |-> r[n]]
      OBVIOUS
    <3>9. c = First(TopK, r)
      BY <2>2
    <3> HIDE DEF r
    <3>10. r \in Seq(AnyRow) /\ Len(r) = Len(o)
      <4>1. r \in [1 .. Len(o) -> AnyRow]
        BY <3>4, <3>6, <3>8
      <4>2. QED
        BY <3>4, <4>1
    <3>11. r # <<>>
      BY <3>2, <3>3, <3>10, Positions
    <3>12. \A n \in DOMAIN r : From(d, s, r[n])
      <4>1. ASSUME NEW n \in DOMAIN o PROVE From(d, s, r[n])
        <5>1. From(d, s, p[o[n].index])
          BY <1>2, <3>5 DEF AllFrom
        <5>2. QED
          BY <3>6, <5>1 DEF From
      <4>2. QED
        BY <3>7, <4>1
    <3>13. AllFrom(d, s, r)
      BY <3>10, <3>12 DEF AllFrom
    <3>14. Descending(r)
      BY <3>2, <3>6, <3>7 DEF Descending
    <3> DEFINE h == First(TopK, r)
    <3>15. /\ h # <<>> /\ DOMAIN h \subseteq DOMAIN r
           /\ \A n \in DOMAIN h : h[n] = r[n]
      BY <1>2, <3>10, <3>11, FirstIs
    <3>16. AllFrom(d, s, h)
      BY <1>2, <3>13, FromFirst
    <3> HIDE DEF h
    <3>17. Descending(h)
      BY <3>14, <3>15 DEF Descending
    <3>18. c = h
      BY <3>9 DEF h
    <3>19. QED
      BY <3>15, <3>16, <3>17, <3>18
  <2>3. QED
    BY <2>1, <2>2
<1>4. timedOut[w] => c = First(TopK, p)
  OBVIOUS
<1> HIDE DEF c, o, r, T
<1>5. c \in Seq(AnyRow)
  BY <1>3 DEF AllFrom
<1>6. Shapes'
  BY <1>1, <1>5 DEF Shapes, Stages
<1>7. \A v \in Workers \ {w} : Kept(v)
  BY <1>1 DEF Kept, Shapes
<1>8. pc'[w] = "generate" /\ context'[w] = c
  BY <1>1 DEF Shapes
<1>9. LocalInv(w)'
  <2>1. RetrievedInv(w)'
    BY <1>0, <1>1, <1>8 DEF LocalInv, RetrievedInv
  <2>2. FusedInv(w)'
    BY <1>0, <1>1, <1>8 DEF LocalInv, FusedInv
  <2>3. PickedInv(w)'
    BY <1>0, <1>1, <1>8 DEF LocalInv, PickedInv
  <2>4. ScoredInv(w)'
    BY <1>0, <1>1, <1>8 DEF LocalInv, ScoredInv
  <2>5. ContextInv(w)'
    BY <1>1, <1>3, <1>4, <1>8 DEF ContextInv, d, s, p
  <2>6. QED
    BY <2>1, <2>2, <2>3, <2>4, <2>5 DEF LocalInv
<1>10. QED
  BY <1>6, <1>7, <1>9, Elsewhere

\* The request is over.
LEMMA RequestFinish ==
  ASSUME Shapes, RequestInv, NEW w \in Workers, Finish(w)
  PROVE  Shapes' /\ RequestInv'
<1>1. /\ <<>> \in Seq(Rows) /\ <<>> \in Seq(AnyRow)
      /\ <<>> \in Seq(Scoring(Nat))
  OBVIOUS
<1>2. Shapes'
  BY <1>1 DEF Finish, Goto, Clear, Shapes, Stages, Asked
<1>3. \A v \in Workers \ {w} : Kept(v)
  BY DEF Finish, Goto, Clear, Kept, Shapes
<1>4. /\ pc'[w] = "idle" /\ req'[w] = None /\ dense'[w] = <<>> /\ sparse'[w] = <<>> /\ fused'[w] = <<>>
      /\ picked'[w] = <<>> /\ context'[w] = <<>> /\ timedOut'[w] = FALSE
  BY DEF Finish, Goto, Clear, Shapes
<1>5. LocalInv(w)'
  <2>1. RetrieverK \in Nat
    BY RetrievalAssumption
  <2>2. RetrievedInv(w)'
    BY <1>4, <2>1 DEF RetrievedInv
  <2>3. FusedInv(w)' /\ PickedInv(w)' /\ ContextInv(w)'
    BY <1>4, FromEmpty DEF FusedInv, PickedInv, ContextInv
  <2>4. ScoredInv(w)'
    BY <1>4 DEF ScoredInv
  <2>5. QED
    BY <2>2, <2>3, <2>4 DEF LocalInv
<1>6. QED
  BY <1>2, <1>3, <1>5, Elsewhere

-----------------------------------------------------------------------------
(* The counters                                                              *)

LEMMA SetsAreFinite ==
  /\ IsFiniteSet(Awaiting) /\ IsFiniteSet(Flagged)
  /\ Cardinality(Awaiting) \in Nat /\ Cardinality(Flagged) \in Nat
  /\ Cardinality(Flagged) <= Cardinality(Awaiting)
<1>1. IsFiniteSet(Workers)
  BY RetrievalAssumption
<1>2. Awaiting \in SUBSET Workers /\ Flagged \in SUBSET Awaiting
  BY DEF Awaiting, Flagged
<1>3. IsFiniteSet(Awaiting)
  BY <1>1, <1>2, FS_Subset
<1>4. IsFiniteSet(Flagged) /\ Cardinality(Flagged) <= Cardinality(Awaiting)
  BY <1>2, <1>3, FS_Subset
<1>5. QED
  BY <1>3, <1>4, FS_CardinalityType

\* A step that is neither of record_rerank nor the end of the reranking counts nothing.
LEMMA CountSame ==
  ASSUME Shapes, CountInv, NEW w \in Workers, NEW at, pc' = [pc EXCEPT ![w] = at],
         pc[w] \notin {"breach", "rank"}, at \notin {"breach", "rank"},
         \A v \in Workers \ {w} : timedOut'[v] = timedOut[v],
         UNCHANGED <<requests, timeouts, reranked, degraded>>
  PROVE  CountInv'
<1>1. pc'[w] = at /\ \A v \in Workers \ {w} : pc'[v] = pc[v]
  BY DEF Shapes
<1>2. Awaiting' = Awaiting
  BY <1>1 DEF Awaiting
<1>3. Flagged' = Flagged
  BY <1>1 DEF Flagged
<1>4. QED
  BY <1>2, <1>3 DEF CountInv

LEMMA CountRecord ==
  ASSUME Shapes, RequestInv, CountInv, NEW w \in Workers, record_rerank(w)
  PROVE  CountInv'
<1>0. /\ UNCHANGED <<timedOut, reranked, degraded>>
      /\ IsFiniteSet(Awaiting) /\ IsFiniteSet(Flagged)
      /\ Cardinality(Awaiting) \in Nat /\ Cardinality(Flagged) \in Nat
  BY SetsAreFinite DEF record_rerank
<1>1. CASE pc[w] = "count"
  <2>1. /\ requests' = requests + 1 /\ timeouts' = timeouts
        /\ pc' = [pc EXCEPT ![w] = IF timedOut[w] THEN "breach" ELSE "rank"]
    BY <1>1 DEF record_rerank, Goto
  <2>2. w \notin Awaiting /\ Awaiting' = Awaiting \cup {w}
    BY <1>1, <2>1 DEF Shapes, Awaiting
  <2>3. Flagged' = Flagged
    BY <1>0, <1>1, <2>1 DEF Shapes, Flagged
  <2>4. Cardinality(Awaiting') = Cardinality(Awaiting) + 1
    BY <1>0, <2>2, FS_AddElement
  <2>5. QED
    BY <1>0, <2>1, <2>3, <2>4 DEF CountInv
<1>2. CASE pc[w] = "breach"
  <2>1. /\ requests' = requests /\ timeouts' = timeouts + 1
        /\ pc' = [pc EXCEPT ![w] = "rank"]
    BY <1>2 DEF record_rerank, Goto
  <2>2. timedOut[w]
    BY <1>2 DEF RequestInv, LocalInv, ScoredInv
  <2>3. Awaiting' = Awaiting
    BY <1>2, <2>1 DEF Shapes, Awaiting
  <2>4. w \notin Flagged /\ Flagged' = Flagged \cup {w}
    BY <1>0, <1>2, <2>1, <2>2 DEF Shapes, Flagged
  <2>5. Cardinality(Flagged') = Cardinality(Flagged) + 1
    BY <1>0, <2>4, FS_AddElement
  <2>6. QED
    BY <1>0, <2>1, <2>3, <2>5 DEF CountInv
<1>3. QED
  BY <1>1, <1>2 DEF record_rerank

LEMMA CountRank ==
  ASSUME Shapes, CountInv, NEW w \in Workers, Rank(w)
  PROVE  CountInv'
<1>0. /\ pc[w] = "rank" /\ pc' = [pc EXCEPT ![w] = "generate"]
      /\ UNCHANGED <<timedOut, requests, timeouts>> /\ reranked' = reranked + 1
      /\ degraded' = IF timedOut[w] THEN degraded + 1 ELSE degraded
  BY DEF Rank, Goto
<1>1. /\ IsFiniteSet(Awaiting) /\ IsFiniteSet(Flagged)
      /\ Cardinality(Awaiting) \in Nat /\ Cardinality(Flagged) \in Nat
  BY SetsAreFinite
<1>2. w \in Awaiting /\ Awaiting' = Awaiting \ {w}
  BY <1>0 DEF Shapes, Awaiting
<1>3. Cardinality(Awaiting') = Cardinality(Awaiting) - 1
  BY <1>1, <1>2, FS_RemoveElement
<1>4. CASE timedOut[w]
  <2>1. w \in Flagged /\ Flagged' = Flagged \ {w}
    BY <1>0, <1>4 DEF Shapes, Flagged
  <2>2. Cardinality(Flagged') = Cardinality(Flagged) - 1
    BY <1>1, <2>1, FS_RemoveElement
  <2>3. degraded' = degraded + 1
    BY <1>0, <1>4
  <2>4. QED
    BY <1>0, <1>1, <1>3, <2>2, <2>3 DEF CountInv
<1>5. CASE ~timedOut[w]
  <2>1. Flagged' = Flagged
    BY <1>0, <1>5 DEF Shapes, Flagged
  <2>2. degraded' = degraded
    BY <1>0, <1>5
  <2>3. QED
    BY <1>0, <1>1, <1>3, <2>1, <2>2 DEF CountInv
<1>6. QED
  BY <1>4, <1>5

LEMMA CountInit ==
  ASSUME Init
  PROVE  CountInv
<1>1. Awaiting = {} /\ Flagged = {}
  BY DEF Init, Awaiting, Flagged
<1>2. Cardinality(Awaiting) = 0 /\ Cardinality(Flagged) = 0
  BY <1>1, FS_EmptySet
<1>3. QED
  BY <1>2 DEF Init, CountInv

LEMMA CountRestart == Restart => CountInv'
<1>1. Restart => Init'
  BY DEF Restart, Init
<1>2. Init => CountInv
  BY CountInit
<1>3. QED
  BY <1>1, <1>2, PTL

-----------------------------------------------------------------------------
(* The specification                                                         *)

\* One step of one thread.
LEMMA InvStep ==
  ASSUME Inv, NEW w \in Workers, Step(w)
  PROVE  Inv'
<1>0. Shapes /\ RequestInv /\ CountInv
  BY DEF Inv
<1>1. CASE Fuse(w)
  <2>1. /\ pc[w] = "fuse" /\ pc' = [pc EXCEPT ![w] = "diversify"]
        /\ UNCHANGED <<timedOut, requests, timeouts, reranked, degraded>>
    BY <1>1 DEF Fuse, Goto, counters
  <2>2. CountInv'
    BY <1>0, <2>1, CountSame
  <2>3. QED
    BY <1>0, <1>1, <2>2, RequestFuse DEF Inv
<1>2. CASE Diversify(w)
  <2>1. PICK at \in {"rerank", "generate"} : pc' = [pc EXCEPT ![w] = at]
    BY <1>2 DEF Diversify, Goto
  <2>2. pc[w] = "diversify" /\ UNCHANGED <<timedOut, requests, timeouts, reranked, degraded>>
    BY <1>2 DEF Diversify, counters
  <2>3. CountInv'
    BY <1>0, <2>1, <2>2, CountSame
  <2>4. QED
    BY <1>0, <1>2, <2>3, RequestDiversify DEF Inv
<1>3. CASE rerank_candidates(w)
  <2>1. PICK at \in {"raised", "generate", "load", "post"} : pc' = [pc EXCEPT ![w] = at]
    BY <1>3 DEF rerank_candidates, Goto
  <2>2. pc[w] = "rerank" /\ UNCHANGED <<timedOut, requests, timeouts, reranked, degraded>>
    BY <1>3 DEF rerank_candidates, counters
  <2>3. CountInv'
    BY <1>0, <2>1, <2>2, CountSame
  <2>4. QED
    BY <1>0, <1>3, <2>3, RequestResolve DEF Inv
<1>4. CASE _get_reranker(w)
  <2>1. /\ pc[w] = "load" /\ pc' = [pc EXCEPT ![w] = "predict"]
        /\ UNCHANGED <<timedOut, requests, timeouts, reranked, degraded>>
    BY <1>4 DEF _get_reranker, Goto, counters
  <2>2. CountInv'
    BY <1>0, <2>1, CountSame
  <2>3. QED
    BY <1>0, <1>4, <2>2, RequestLoad DEF Inv
<1>5. CASE Predict(w)
  <2>1. /\ pc[w] = "predict" /\ pc' = [pc EXCEPT ![w] = "count"]
        /\ UNCHANGED <<requests, timeouts, reranked, degraded>>
    BY <1>5 DEF Predict, Goto, counters
  <2>2. \A v \in Workers \ {w} : timedOut'[v] = timedOut[v]
    BY <1>0, <1>5 DEF Predict, Shapes
  <2>3. CountInv'
    BY <1>0, <2>1, <2>2, CountSame
  <2>4. QED
    BY <1>0, <1>5, <2>3, RequestPredict DEF Inv
<1>6. CASE Post(w)
  <2>1. PICK at \in {"count", "raised"} : pc' = [pc EXCEPT ![w] = at]
    BY <1>6 DEF Post, Goto
  <2>2. pc[w] = "post" /\ UNCHANGED <<requests, timeouts, reranked, degraded>>
    BY <1>6 DEF Post, counters
  <2>3. \A v \in Workers \ {w} : timedOut'[v] = timedOut[v]
    BY <1>0, <1>6 DEF Post, Shapes
  <2>4. CountInv'
    BY <1>0, <2>1, <2>2, <2>3, CountSame
  <2>5. QED
    BY <1>0, <1>6, <2>4, RequestPost DEF Inv
<1>7. CASE record_rerank(w)
  BY <1>0, <1>7, CountRecord, RequestRecord DEF Inv
<1>8. CASE Rank(w)
  BY <1>0, <1>8, CountRank, RequestRank DEF Inv
<1>9. CASE Finish(w)
  <2>1. /\ pc[w] \in {"generate", "raised"} /\ pc' = [pc EXCEPT ![w] = "idle"]
        /\ UNCHANGED <<requests, timeouts, reranked, degraded>>
    BY <1>9 DEF Finish, Goto, counters
  <2>2. \A v \in Workers \ {w} : timedOut'[v] = timedOut[v]
    BY <1>0, <1>9 DEF Finish, Clear, Shapes
  <2>3. CountInv'
    BY <1>0, <2>1, <2>2, CountSame
  <2>4. QED
    BY <1>0, <1>9, <2>3, RequestFinish DEF Inv
<1>10. CASE Raise(w)
  <2>1. /\ pc[w] \in {"load", "predict"} /\ pc' = [pc EXCEPT ![w] = "raised"]
        /\ UNCHANGED <<timedOut, requests, timeouts, reranked, degraded>>
    BY <1>10 DEF Raise, Goto, counters
  <2>2. CountInv'
    BY <1>0, <2>1, CountSame
  <2>3. QED
    BY <1>0, <1>10, <2>2, RequestRaise DEF Inv
<1>11. QED
  BY <1>1, <1>2, <1>3, <1>4, <1>5, <1>6, <1>7, <1>8, <1>9, <1>10 DEF Step

LEMMA InvRetrieve ==
  ASSUME Inv, NEW w \in Workers, NEW q \in Inputs[w], Retrieve(w, q)
  PROVE  Inv'
<1>0. Shapes /\ RequestInv /\ CountInv
  BY DEF Inv
<1>1. /\ pc[w] = "idle" /\ pc' = [pc EXCEPT ![w] = "fuse"]
      /\ UNCHANGED <<timedOut, requests, timeouts, reranked, degraded>>
  BY DEF Retrieve, Goto, counters
<1>2. CountInv'
  BY <1>0, <1>1, CountSame
<1>3. QED
  BY <1>0, <1>2, RequestRetrieve DEF Inv

LEMMA InvStutter ==
  ASSUME Inv, UNCHANGED vars
  PROVE  Inv'
<1>0. Shapes /\ RequestInv /\ CountInv
  BY DEF Inv
<1>1. UNCHANGED <<pc, req, dense, sparse, fused, picked, scored, timedOut, context, loaded,
                  requests, timeouts, reranked, degraded>>
  BY DEF vars, local, counters
<1>2. Shapes'
  BY <1>0, <1>1 DEF Shapes
<1>3. RequestInv'
  <2>1. ASSUME NEW w \in Workers PROVE LocalInv(w)'
    <3>1. LocalInv(w)
      BY <1>0 DEF RequestInv
    <3>2. RetrievedInv(w)' /\ FusedInv(w)' /\ PickedInv(w)'
      BY <1>1, <3>1 DEF LocalInv, RetrievedInv, FusedInv, PickedInv
    <3>3. ScoredInv(w)' /\ ContextInv(w)'
      BY <1>1, <3>1 DEF LocalInv, ScoredInv, ContextInv
    <3>4. QED
      BY <3>2, <3>3 DEF LocalInv
  <2>2. QED
    BY <2>1 DEF RequestInv
<1>4. CountInv'
  BY <1>0, <1>1 DEF CountInv, Awaiting, Flagged
<1>5. QED
  BY <1>2, <1>3, <1>4 DEF Inv

LEMMA InvInductive == Spec => []Inv
<1>1. Init => Inv
  BY RequestInit, CountInit DEF Inv
<1>2. Inv /\ [Next]_vars => Inv'
  <2> SUFFICES ASSUME Inv, [Next]_vars PROVE Inv'
    OBVIOUS
  <2>1. CASE \E w \in Workers : Step(w) \/ \E q \in Inputs[w] : Retrieve(w, q)
    BY <2>1, InvStep, InvRetrieve
  <2>2. CASE Restart
    BY <2>2, RequestRestart, CountRestart DEF Inv
  <2>3. CASE UNCHANGED vars
    BY <2>3, InvStutter
  <2>4. QED
    BY <2>1, <2>2, <2>3 DEF Next
<1>3. QED
  BY <1>1, <1>2, PTL DEF Spec

\* Every variable keeps its type, at any number of threads: a request in flight carries a
\* question its thread was asked, and the counters are numbers.
THEOREM RetrievalTypeCorrect == Spec => []TypeOK
<1>1. Inv => TypeOK
  <2> SUFFICES ASSUME Inv PROVE TypeOK
    OBVIOUS
  <2>1. Shapes /\ CountInv /\ RequestInv
    BY DEF Inv
  <2>2. requests \in Nat /\ timeouts \in Nat /\ reranked \in Nat /\ degraded \in Nat
    BY <2>1, SetsAreFinite DEF CountInv
  <2>3. \A w \in Workers : req[w] = None \/ req[w] \in Inputs[w]
    BY <2>1 DEF RequestInv, LocalInv, RetrievedInv
  <2>4. QED
    BY <2>1, <2>2, <2>3 DEF TypeOK, Shapes
<1>2. QED
  BY <1>1, InvInductive, PTL

\* rrf_fuse, for every pair of lists and every rank: a chunk both retrievers found comes
\* before every chunk that one of them found. It needs DEFAULT_RETRIEVER_K <= K_CONST + 1:
\* the share of the first rank is then less than twice the share of the last.
THEOREM FusionPrefersBoth == Spec => []BothBeatEither
<1>1. Inv => BothBeatEither
  <2> SUFFICES ASSUME Inv, NEW w \in Workers, pc[w] = "diversify", req[w].hybrid,
                      Once(sparse[w]), NEW i \in DOMAIN fused[w], NEW j \in DOMAIN fused[w],
                      fused[w][i].id \in Ids(dense[w]) \cap Ids(sparse[w]),
                      fused[w][j].id \notin Ids(dense[w]) \cap Ids(sparse[w])
               PROVE  i < j
    BY DEF BothBeatEither
  <2>1. LocalInv(w) /\ dense[w] \in Seq(Rows) /\ sparse[w] \in Seq(Rows)
    BY DEF Inv, RequestInv, Shapes
  <2>2. /\ fused[w] = rrf_fuse(dense[w], sparse[w])
        /\ Len(dense[w]) <= RetrieverK /\ Len(sparse[w]) <= RetrieverK
        /\ \A m, n \in DOMAIN dense[w] : dense[w][m].id = dense[w][n].id => m = n
    BY <2>1 DEF LocalInv, FusedInv, RetrievedInv
  <2>3. QED
    BY <2>1, <2>2, BothFirst
<1>2. QED
  BY <1>1, InvInductive, PTL

\* mmr_pick, for every list of candidates, every similarity and every weight: it passes
\* over no candidate that is nearer to the question and less like what it has picked.
THEOREM MmrPassesOverNoBetter == Spec => []NoneDominated
<1>1. Inv => NoneDominated
  <2> SUFFICES ASSUME Inv, NEW w \in Workers
               PROVE  LET c == fused[w]
                          p == Picks(c)
                      IN \A n \in 2 .. Len(p) : \A i \in DOMAIN c :
                           (\A q \in DOMAIN p : p[q] # i) =>
                             ~ /\ SimQuery[c[i].text] > SimQuery[c[p[n]].text]
                               /\ Redundancy(c, SubSeq(p, 1, n - 1), i)
                                    < Redundancy(c, SubSeq(p, 1, n - 1), p[n])
    BY DEF NoneDominated
  <2>1. fused[w] \in Seq(AnyRow)
    BY DEF Inv, Shapes
  <2>2. WithTexts(fused[w])
    BY <2>1, RowIs DEF WithTexts
  <2>3. QED
    BY <2>1, <2>2, NotDominated
<1>2. QED
  BY <1>1, InvInductive, PTL

\* Whatever the reranker does, the prompt is built from what was retrieved: the chunks and
\* the texts are the retrievers', an answer to a question that found something has a
\* context, and the order is the retrievers' exactly when rerank_timed_out says so.
THEOREM ContextIsHonest == Spec => []HonestContext
<1>1. Inv => HonestContext
  <2> SUFFICES ASSUME Inv, NEW w \in Workers, pc[w] = "generate"
               PROVE  /\ \A c \in Cited(w) : c[1] \in Ids(dense[w]) \cup Ids(sparse[w])
                      /\ \A c \in Cited(w), i \in DOMAIN dense[w] :
                           dense[w][i].id = c[1] => dense[w][i].text = c[2]
                      /\ dense[w] # <<>> => context[w] # <<>>
                      /\ timedOut[w] => context[w] = First(TopK, picked[w])
                      /\ req[w].rerank /\ ~timedOut[w] =>
                           \A i, j \in DOMAIN context[w] :
                             i < j => context[w][i].score >= context[w][j].score
    BY DEF HonestContext
  <2>1. ContextInv(w)
    BY DEF Inv, RequestInv, LocalInv
  <2>2. ASSUME NEW c \in Cited(w)
        PROVE  /\ c[1] \in Ids(dense[w]) \cup Ids(sparse[w])
               /\ \A i \in DOMAIN dense[w] : dense[w][i].id = c[1] => dense[w][i].text = c[2]
    <3>1. PICK n \in DOMAIN context[w] : c = <<context[w][n].id, context[w][n].text>>
      BY DEF Cited
    <3>2. From(dense[w], sparse[w], context[w][n])
      BY <2>1 DEF ContextInv, AllFrom
    <3>3. c[1] = context[w][n].id /\ c[2] = context[w][n].text
      BY <3>1
    <3>4. QED
      BY <3>2, <3>3 DEF From
  <2>3. /\ dense[w] # <<>> => context[w] # <<>>
        /\ timedOut[w] => context[w] = First(TopK, picked[w])
        /\ req[w].rerank /\ ~timedOut[w] => Descending(context[w])
    BY <2>1 DEF ContextInv
  <2>4. QED
    BY <2>2, <2>3 DEF Descending
<1>2. QED
  BY <1>1, InvInductive, PTL

\* record_rerank, for any number of threads: at every scrape the breaches are at most the
\* requests, what returned was counted, and at rest the counters are what happened.
THEOREM AlertIsARatio == Spec => []AlertTells
<1>1. Inv => AlertTells
  <2> SUFFICES ASSUME Inv PROVE AlertTells
    OBVIOUS
  <2>1. CountInv
    BY DEF Inv
  <2>2. /\ Cardinality(Awaiting) \in Nat /\ Cardinality(Flagged) \in Nat
        /\ Cardinality(Flagged) <= Cardinality(Awaiting)
    BY SetsAreFinite
  <2>3. timeouts <= requests /\ reranked <= requests /\ degraded <= timeouts
    BY <2>1, <2>2 DEF CountInv
  <2>4. ASSUME \A w \in Workers : pc[w] \notin {"breach", "rank"}
        PROVE  reranked = requests /\ degraded = timeouts
    <3>1. Awaiting = {} /\ Flagged = {}
      BY <2>4 DEF Awaiting, Flagged
    <3>2. Cardinality(Awaiting) = 0 /\ Cardinality(Flagged) = 0
      BY <3>1, FS_EmptySet
    <3>3. QED
      BY <2>1, <3>2 DEF CountInv
  <2>5. QED
    BY <2>3, <2>4 DEF AlertTells
<1>2. QED
  BY <1>1, InvInductive, PTL
=============================================================================
