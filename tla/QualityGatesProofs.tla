------------------------- MODULE QualityGatesProofs -------------------------
(***************************************************************************)
(* Proofs about QualityGates, for any golden set, command lines, outcomes  *)
(* of the scenarios and of the judge, timings, columns and number of jobs. *)
(* That a column grades no other's answers follows from an invariant on    *)
(* the epochs of the cache entries (CacheInv); that a green gate means     *)
(* what it says from lemmas on the algorithms the verdict is made of: the  *)
(* subsequence test, the sums and the percentile.                          *)
(***************************************************************************)
EXTENDS QualityGates, FiniteSetTheorems, WellFoundedInduction, TLAPS

-----------------------------------------------------------------------------
(* Numbers                                                                   *)

\* Induction, for the members of a set.
LEMMA NatSetInduction ==
  ASSUME NEW G, 0 \in G, \A n \in Nat : n \in G => n + 1 \in G
  PROVE  Nat \subseteq G
<1> DEFINE R == OpToRel(<, Nat)
           B == {n \in Nat : n \notin G}
<1>1. IsWellFoundedOn(R, Nat)
  BY NatLessThanWellFounded
<1>2. SUFFICES ASSUME B # {} PROVE FALSE
  OBVIOUS
<1>3. PICK n \in B : \A m \in B : ~(<<m, n>> \in R)
  <2> HIDE DEF R
  <2>1. QED
    BY <1>1, <1>2, WFMin
<1>4. n \in Nat /\ n # 0 /\ n \notin G
  OBVIOUS
<1>5. n - 1 \in Nat /\ n - 1 < n /\ (n - 1) + 1 = n
  BY <1>4
<1>6. <<n - 1, n>> \in R
  BY <1>4, <1>5 DEF OpToRel
<1>7. n - 1 \in G
  BY <1>3, <1>5, <1>6
<1>8. QED
  BY <1>4, <1>5, <1>7

\* A set of numbers has a least one, and Min is it.
LEMMA MinOf ==
  ASSUME NEW S \in SUBSET Nat, S # {}
  PROVE  Min(S) \in S /\ \A y \in S : Min(S) <= y
<1> DEFINE R == OpToRel(<, Nat)
<1>1. IsWellFoundedOn(R, Nat)
  BY NatLessThanWellFounded
<1>2. PICK n \in S : \A m \in S : ~(<<m, n>> \in R)
  <2> HIDE DEF R
  <2>1. QED
    BY <1>1, WFMin
<1>3. \A m \in S : n <= m
  <2> SUFFICES ASSUME NEW m \in S, ~(n <= m) PROVE FALSE
    OBVIOUS
  <2>1. m \in Nat /\ n \in Nat /\ m < n
    OBVIOUS
  <2>2. <<m, n>> \in R
    BY <2>1 DEF OpToRel
  <2>3. QED
    BY <1>2, <2>2
<1>4. QED
  BY <1>3, Zenon DEF Min

\* Max and Min of two numbers.
LEMMA MaxOfTwo ==
  ASSUME NEW a \in Int, NEW b \in Int
  PROVE  Max({a, b}) = IF a >= b THEN a ELSE b
<1>1. CASE a >= b
  BY <1>1 DEF Max
<1>2. CASE ~(a >= b)
  BY <1>2 DEF Max
<1>3. QED
  BY <1>1, <1>2

LEMMA MinOfTwo ==
  ASSUME NEW a \in Int, NEW b \in Int
  PROVE  Min({a, b}) = IF a <= b THEN a ELSE b
<1>1. CASE a <= b
  BY <1>1 DEF Min
<1>2. CASE ~(a <= b)
  BY <1>2 DEF Min
<1>3. QED
  BY <1>1, <1>2

-----------------------------------------------------------------------------
(* The subsequence test                                                      *)

\* The search goes forward: to a node that is the one it looks for, or off the end.
LEMMA NextAtForward ==
  ASSUME NEW actual \in Seq(STRING), NEW after \in Nat, NEW node
  PROVE  LET a == NextAt(actual, after, node) IN
         /\ a \in Nat
         /\ a <= Len(actual) => a \in 1 .. Len(actual) /\ after < a /\ actual[a] = node
<1> DEFINE found == {i \in after + 1 .. Len(actual) : actual[i] = node}
<1>0. Len(actual) \in Nat
  OBVIOUS
<1>1. CASE found = {}
  BY <1>0, <1>1 DEF NextAt
<1>2. CASE found # {}
  <2>1. found \in SUBSET Nat
    BY <1>0
  <2>2. Min(found) \in found
    <3> HIDE DEF found
    <3>1. QED
      BY <1>2, <2>1, MinOf
  <2>3. NextAt(actual, after, node) = Min(found)
    BY <1>2 DEF NextAt
  <2>4. QED
    BY <1>0, <2>2, <2>3
<1>3. QED
  BY <1>1, <1>2

\* The search takes the first one.
LEMMA NextAtFirst ==
  ASSUME NEW actual \in Seq(STRING), NEW after \in Nat, NEW node,
         NEW i \in 1 .. Len(actual), after < i, actual[i] = node
  PROVE  NextAt(actual, after, node) <= i
<1> DEFINE found == {k \in after + 1 .. Len(actual) : actual[k] = node}
<1>1. i \in found /\ found \in SUBSET Nat
  OBVIOUS
<1>2. NextAt(actual, after, node) = Min(found)
  BY <1>1 DEF NextAt
<1> HIDE DEF found
<1>3. QED
  BY <1>1, <1>2, MinOf

\* The functions that satisfy the recursion of trajectory_match for the first n nodes.
Walks(actual, expected, n) ==
  {g \in [0 .. n -> Nat] : /\ g[0] = 0
                           /\ \A m \in 1 .. n : g[m] = NextAt(actual, g[m - 1], expected[m])}

\* There is one.
LEMMA WalkExists ==
  ASSUME NEW actual \in Seq(STRING), NEW expected, NEW n \in Nat
  PROVE  Walks(actual, expected, n) # {}
<1> DEFINE G == {m \in Nat : Walks(actual, expected, m) # {}}
<1>1. 0 \in G
  <2>1. [m \in 0 .. 0 |-> 0] \in Walks(actual, expected, 0)
    BY DEF Walks
  <2>2. QED
    BY <2>1
<1>2. ASSUME NEW m \in Nat, m \in G PROVE m + 1 \in G
  <2>1. PICK g \in Walks(actual, expected, m) : TRUE
    BY <1>2
  <2> DEFINE a == NextAt(actual, g[m], expected[m + 1])
             h == [k \in 0 .. m + 1 |-> IF k = m + 1 THEN a ELSE g[k]]
  <2>2. g \in [0 .. m -> Nat] /\ g[0] = 0
        /\ \A k \in 1 .. m : g[k] = NextAt(actual, g[k - 1], expected[k])
    BY <2>1 DEF Walks
  <2>3. a \in Nat
    BY <2>2, NextAtForward
  <2>4. h \in [0 .. m + 1 -> Nat] /\ h[0] = 0
    BY <2>2, <2>3
  <2>5. ASSUME NEW k \in 1 .. m + 1 PROVE h[k] = NextAt(actual, h[k - 1], expected[k])
    <3>1. CASE k = m + 1
      <4>1. h[k] = a /\ h[k - 1] = g[m]
        BY <3>1
      <4>2. QED
        BY <3>1, <4>1
    <3>2. CASE k \in 1 .. m
      <4>1. h[k] = g[k] /\ h[k - 1] = g[k - 1]
        BY <3>2
      <4>2. QED
        BY <2>2, <3>2, <4>1
    <3>3. QED
      BY <3>1, <3>2
  <2> HIDE DEF h
  <2>6. h \in Walks(actual, expected, m + 1)
    BY <2>4, <2>5 DEF Walks
  <2>7. QED
    BY <2>6
<1> HIDE DEF G
<1>3. Nat \subseteq G
  BY <1>1, <1>2, NatSetInduction
<1>4. QED
  BY <1>3 DEF G

\* A walk that has not run off the end has found every node, each after the one before.
LEMMA WalkFinds ==
  ASSUME NEW actual \in Seq(STRING), NEW expected, NEW N \in Nat,
         NEW g \in Walks(actual, expected, N)
  PROVE  \A n \in 0 .. N : g[n] <= Len(actual) =>
           \A m \in 1 .. n : /\ g[m] \in 1 .. Len(actual) /\ g[m] <= g[n]
                             /\ actual[g[m]] = expected[m]
                             /\ m < n => g[m] < g[n]
<1> DEFINE Reached(n) == g[n] <= Len(actual) =>
             \A m \in 1 .. n : /\ g[m] \in 1 .. Len(actual) /\ g[m] <= g[n]
                               /\ actual[g[m]] = expected[m]
                               /\ m < n => g[m] < g[n]
           G == {n \in Nat : n <= N => Reached(n)}
<1>0. Len(actual) \in Nat
  OBVIOUS
<1>1. 0 \in G
  OBVIOUS
<1>2. ASSUME NEW n \in Nat, n \in G PROVE n + 1 \in G
  <2> SUFFICES ASSUME n + 1 <= N, g[n + 1] <= Len(actual), NEW m \in 1 .. n + 1
               PROVE  /\ g[m] \in 1 .. Len(actual) /\ g[m] <= g[n + 1]
                      /\ actual[g[m]] = expected[m]
                      /\ m < n + 1 => g[m] < g[n + 1]
    OBVIOUS
  <2>1. g[n + 1] = NextAt(actual, g[n], expected[n + 1]) /\ g[n] \in Nat /\ g[n + 1] \in Nat
    <3>1. n + 1 \in 1 .. N /\ (n + 1) - 1 = n /\ n \in 0 .. N /\ n + 1 \in 0 .. N
      OBVIOUS
    <3>2. \A k \in 1 .. N : g[k] = NextAt(actual, g[k - 1], expected[k])
      BY DEF Walks
    <3>3. g[n + 1] = NextAt(actual, g[(n + 1) - 1], expected[n + 1])
      BY <3>1, <3>2
    <3>4. QED
      BY <3>1, <3>3 DEF Walks
  <2>2. g[n + 1] \in 1 .. Len(actual) /\ g[n] < g[n + 1] /\ actual[g[n + 1]] = expected[n + 1]
    BY <2>1, NextAtForward
  <2>3. CASE m = n + 1
    BY <2>2, <2>3
  <2>4. CASE m \in 1 .. n
    <3>1. g[n] <= Len(actual) /\ n <= N
      BY <1>0, <2>1, <2>2
    <3>2. g[m] \in 1 .. Len(actual) /\ g[m] <= g[n] /\ actual[g[m]] = expected[m]
      BY <1>2, <2>4, <3>1
    <3>3. QED
      BY <2>1, <2>2, <3>2
  <2>5. QED
    BY <2>3, <2>4
<1> HIDE DEF G
<1>3. Nat \subseteq G
  BY <1>1, <1>2, NatSetInduction
<1>4. QED
  BY <1>3 DEF G

\* trajectory_match walks, and accepts when the walk has not run off the end.
LEMMA MatchIsWalk ==
  ASSUME NEW actual \in Seq(STRING), NEW expected \in Seq(STRING)
  PROVE  \E g \in Walks(actual, expected, Len(expected)) :
           trajectory_match(actual, expected) <=> g[Len(expected)] <= Len(actual)
<1> DEFINE N == Len(expected)
           Body(it) == [n \in 0 .. N |->
                          IF n = 0 THEN 0 ELSE NextAt(actual, it[n - 1], expected[n])]
           at == CHOOSE it : it = Body(it)
<1>0. N \in Nat /\ Len(actual) \in Nat /\ DOMAIN expected = 1 .. N
      /\ DOMAIN actual = 1 .. Len(actual)
  OBVIOUS
<1>1. PICK g \in Walks(actual, expected, N) : TRUE
  BY <1>0, WalkExists
<1>2. g = Body(g)
  <2>1. g \in [0 .. N -> Nat]
    BY DEF Walks
  <2>2. \A n \in 0 .. N : g[n] = IF n = 0 THEN 0 ELSE NextAt(actual, g[n - 1], expected[n])
    BY <1>0 DEF Walks
  <2>3. g = [n \in 0 .. N |-> g[n]]
    BY <2>1
  <2>4. QED
    BY <2>2, <2>3
<1> HIDE DEF Body
<1>3. at = Body(at)
  BY <1>2, Zenon
<1> USE DEF Body
<1>4. trajectory_match(actual, expected) <=> at[N] <= Len(actual)
  BY DEF trajectory_match
<1> HIDE DEF at
<1>5. at \in Walks(actual, expected, N)
  <2> DEFINE G == {n \in Nat : n <= N => at[n] \in Nat}
  <2>1. at = [n \in 0 .. N |-> at[n]]
    BY <1>3, Zenon
  <2>2. \A n \in 0 .. N : at[n] = IF n = 0 THEN 0 ELSE NextAt(actual, at[n - 1], expected[n])
    BY <1>3, Zenon
  <2>3. at[0] = 0 /\ \A n \in 1 .. N : at[n] = NextAt(actual, at[n - 1], expected[n])
    BY <1>0, <2>2
  <2>4. 0 \in G
    BY <2>3
  <2>5. ASSUME NEW n \in Nat, n \in G PROVE n + 1 \in G
    <3> SUFFICES ASSUME n + 1 <= N PROVE at[n + 1] \in Nat
      OBVIOUS
    <3>1. n + 1 \in 1 .. N /\ (n + 1) - 1 = n /\ at[n] \in Nat
      BY <1>0, <2>5
    <3>2. at[n + 1] = NextAt(actual, at[n], expected[n + 1])
      BY <2>3, <3>1
    <3>3. QED
      BY <3>1, <3>2, NextAtForward
  <2> HIDE DEF G
  <2>6. Nat \subseteq G
    BY <2>4, <2>5, NatSetInduction
  <2>7. \A n \in 0 .. N : at[n] \in Nat
    BY <1>0, <2>6 DEF G
  <2>8. at \in [0 .. N -> Nat]
    BY <2>1, <2>7
  <2>9. QED
    BY <2>3, <2>8 DEF Walks
<1>6. QED
  BY <1>4, <1>5

\* What it accepts holds the nodes in their order.
LEMMA MatchOnlyInOrder ==
  ASSUME NEW actual \in Seq(STRING), NEW expected \in Seq(STRING),
         trajectory_match(actual, expected)
  PROVE  InOrder(actual, expected)
<1> DEFINE N == Len(expected)
<1>0. N \in Nat /\ Len(actual) \in Nat /\ DOMAIN expected = 1 .. N
      /\ DOMAIN actual = 1 .. Len(actual)
  OBVIOUS
<1>1. PICK at \in Walks(actual, expected, N) :
        trajectory_match(actual, expected) <=> at[N] <= Len(actual)
  BY MatchIsWalk
<1>2. at[N] <= Len(actual)
  BY <1>1
<1> DEFINE place == [i \in DOMAIN expected |-> at[i]]
<1>3. \A n \in 1 .. N : at[n] \in 1 .. Len(actual) /\ actual[at[n]] = expected[n]
  BY <1>0, <1>2, <1>1, WalkFinds
<1>4. ASSUME NEW i \in 1 .. N, NEW j \in 1 .. N, i < j PROVE at[i] < at[j]
  <2>1. j \in 0 .. N /\ i \in 1 .. j /\ at[j] <= Len(actual)
    BY <1>0, <1>3, <1>4
  <2>2. QED
    BY <1>0, <1>1, <1>4, <2>1, WalkFinds
<1>5. place \in [DOMAIN expected -> DOMAIN actual]
  BY <1>0, <1>3
<1>6. /\ \A i \in DOMAIN expected : actual[place[i]] = expected[i]
      /\ \A i, j \in DOMAIN expected : i < j => place[i] < place[j]
  BY <1>0, <1>3, <1>4
<1> HIDE DEF place
<1>7. QED
  BY <1>5, <1>6 DEF InOrder

\* No walk is behind a path through the nodes.
LEMMA WalkLeads ==
  ASSUME NEW actual \in Seq(STRING), NEW expected \in Seq(STRING),
         NEW g \in Walks(actual, expected, Len(expected)),
         NEW place \in [DOMAIN expected -> DOMAIN actual],
         \A i \in DOMAIN expected : actual[place[i]] = expected[i],
         \A i, j \in DOMAIN expected : i < j => place[i] < place[j]
  PROVE  \A n \in 1 .. Len(expected) : g[n] <= place[n]
<1> DEFINE N == Len(expected)
           G == {n \in Nat : n \in 1 .. N => g[n] <= place[n]}
<1>0. N \in Nat /\ Len(actual) \in Nat /\ DOMAIN expected = 1 .. N
      /\ DOMAIN actual = 1 .. Len(actual)
  OBVIOUS
<1>1. g \in [0 .. N -> Nat] /\ g[0] = 0
      /\ \A m \in 1 .. N : g[m] = NextAt(actual, g[m - 1], expected[m])
  BY DEF Walks
<1>2. 0 \in G
  OBVIOUS
<1>3. ASSUME NEW n \in Nat, n \in G PROVE n + 1 \in G
  <2> SUFFICES ASSUME n + 1 \in 1 .. N PROVE g[n + 1] <= place[n + 1]
    OBVIOUS
  <2>1. (n + 1) - 1 = n /\ n \in 0 .. N /\ place[n + 1] \in 1 .. Len(actual)
    BY <1>0
  <2>2. g[n + 1] = NextAt(actual, g[n], expected[n + 1]) /\ g[n] \in Nat
    BY <1>1, <2>1
  <2>3. g[n] < place[n + 1]
    <3>1. CASE n = 0
      BY <1>1, <2>1, <3>1
    <3>2. CASE n # 0
      <4>1. n \in 1 .. N /\ n < n + 1
        BY <1>0, <3>2
      <4>2. g[n] <= place[n] /\ place[n] < place[n + 1]
        BY <1>0, <1>3, <4>1
      <4>3. place[n] \in Nat /\ place[n + 1] \in Nat
        BY <1>0, <2>1, <4>1
      <4>4. QED
        BY <2>2, <4>2, <4>3
    <3>3. QED
      BY <3>1, <3>2
  <2>4. actual[place[n + 1]] = expected[n + 1]
    BY <1>0
  <2> HIDE DEF N
  <2>5. QED
    BY <2>1, <2>2, <2>3, <2>4, NextAtFirst
<1> HIDE DEF G
<1>4. Nat \subseteq G
  BY <1>2, <1>3, NatSetInduction
<1>5. QED
  BY <1>0, <1>4 DEF G

\* trajectory_match accepts exactly the paths that hold the golden nodes in their order.
THEOREM MatchIsSubsequence ==
  ASSUME NEW actual \in Seq(STRING), NEW expected \in Seq(STRING)
  PROVE  trajectory_match(actual, expected) <=> InOrder(actual, expected)
<1>1. trajectory_match(actual, expected) => InOrder(actual, expected)
  BY MatchOnlyInOrder
<1>2. ASSUME InOrder(actual, expected) PROVE trajectory_match(actual, expected)
  <2> DEFINE N == Len(expected)
  <2>0. N \in Nat /\ Len(actual) \in Nat /\ DOMAIN expected = 1 .. N
        /\ DOMAIN actual = 1 .. Len(actual)
    OBVIOUS
  <2>1. PICK g \in Walks(actual, expected, N) :
          trajectory_match(actual, expected) <=> g[N] <= Len(actual)
    BY MatchIsWalk
  <2>2. PICK place \in [DOMAIN expected -> DOMAIN actual] :
          /\ \A i \in DOMAIN expected : actual[place[i]] = expected[i]
          /\ \A i, j \in DOMAIN expected : i < j => place[i] < place[j]
    BY <1>2 DEF InOrder
  <2>3. g \in [0 .. N -> Nat] /\ g[0] = 0
    BY DEF Walks
  <2>4. CASE N = 0
    BY <2>0, <2>1, <2>3, <2>4
  <2>5. CASE N # 0
    <3>1. N \in 1 .. N /\ N \in 0 .. N
      BY <2>0, <2>5
    <3>2. g[N] <= place[N]
      BY <2>2, <3>1, WalkLeads
    <3>3. place[N] \in 1 .. Len(actual) /\ g[N] \in Nat
      BY <2>0, <2>3, <3>1
    <3>4. g[N] <= Len(actual)
      BY <2>0, <3>2, <3>3
    <3>5. QED
      BY <2>1, <3>4
  <2>6. QED
    BY <2>4, <2>5
<1>3. QED
  BY <1>1, <1>2

-----------------------------------------------------------------------------
(* The percentile                                                            *)

NotAbove(s, t) == {i \in DOMAIN s : s[i] <= t}

\* What NotAbove counts is a number of at most the length.
LEMMA CountType ==
  ASSUME NEW s \in Seq(Nat), NEW t
  PROVE  /\ IsFiniteSet(DOMAIN s) /\ Cardinality(DOMAIN s) = Len(s) /\ Len(s) \in Nat
         /\ IsFiniteSet(NotAbove(s, t)) /\ Cardinality(NotAbove(s, t)) \in Nat
<1>1. DOMAIN s = 1 .. Len(s) /\ Len(s) \in Nat
  OBVIOUS
<1>2. IsFiniteSet(1 .. Len(s)) /\ Cardinality(1 .. Len(s)) = Len(s)
  BY <1>1, FS_Interval, SMTT(40)
<1>3. NotAbove(s, t) \in SUBSET DOMAIN s
  BY DEF NotAbove
<1>4. QED
  BY <1>1, <1>2, <1>3, FS_Subset, FS_CardinalityType

\* Samples are bounded.
LEMMA Bounded ==
  ASSUME NEW s \in Seq(Nat)
  PROVE  \E b \in Nat : \A i \in DOMAIN s : s[i] <= b
<1> DEFINE G == {n \in Nat : n <= Len(s) => \E b \in Nat : \A i \in 1 .. n : s[i] <= b}
<1>0. DOMAIN s = 1 .. Len(s) /\ Len(s) \in Nat /\ \A i \in 1 .. Len(s) : s[i] \in Nat
  OBVIOUS
<1>1. 0 \in G
  OBVIOUS
<1>2. ASSUME NEW n \in Nat, n \in G PROVE n + 1 \in G
  <2> SUFFICES ASSUME n + 1 <= Len(s) PROVE \E b \in Nat : \A i \in 1 .. n + 1 : s[i] <= b
    OBVIOUS
  <2>1. PICK b \in Nat : \A i \in 1 .. n : s[i] <= b
    BY <1>0, <1>2
  <2>2. s[n + 1] \in Nat
    BY <1>0
  <2> DEFINE c == IF b >= s[n + 1] THEN b ELSE s[n + 1]
  <2>3. c \in Nat /\ b <= c /\ s[n + 1] <= c
    BY <2>2
  <2>4. ASSUME NEW i \in 1 .. n + 1 PROVE s[i] <= c
    <3> HIDE DEF c
    <3>1. CASE i = n + 1
      BY <2>3, <3>1
    <3>2. CASE i \in 1 .. n
      BY <1>0, <2>1, <2>3, <3>2
    <3>3. QED
      BY <3>1, <3>2
  <2>5. QED
    BY <2>3, <2>4
<1> HIDE DEF G
<1>3. Nat \subseteq G
  BY <1>1, <1>2, NatSetInduction
<1>4. Len(s) \in G
  BY <1>0, <1>3
<1>5. QED
  BY <1>0, <1>4 DEF G

\* There is a k-th smallest sample, and Ordered is one: k samples or more are not above it.
LEMMA OrderedIs ==
  ASSUME NEW s \in Seq(Nat), NEW k \in 1 .. Len(s)
  PROVE  LET t == Ordered(s, k) IN
         /\ t \in ToSet(s) /\ t \in Nat
         /\ Cardinality({i \in DOMAIN s : s[i] < t}) < k
         /\ Cardinality(NotAbove(s, t)) >= k
<1> DEFINE W == {t \in Nat : Cardinality(NotAbove(s, t)) >= k}
           w == Min(W)
<1>0. Len(s) \in Nat /\ k \in Nat /\ DOMAIN s = 1 .. Len(s) /\ \A i \in DOMAIN s : s[i] \in Nat
  OBVIOUS
<1>1. W # {}
  <2>1. PICK b \in Nat : \A i \in DOMAIN s : s[i] <= b
    BY Bounded
  <2>2. NotAbove(s, b) = DOMAIN s
    BY <2>1 DEF NotAbove
  <2>3. b \in W
    BY <1>0, <2>2, CountType
  <2>4. QED
    BY <2>3
<1>2. w \in W /\ \A t \in W : w <= t
  <2> HIDE DEF W
  <2>1. W \in SUBSET Nat
    BY DEF W
  <2>2. QED
    BY <1>1, <2>1, MinOf
<1> HIDE DEF w
<1>3. w \in Nat /\ Cardinality(NotAbove(s, w)) >= k
  BY <1>2
<1> DEFINE below == {i \in DOMAIN s : s[i] < w}
<1>4. below = NotAbove(s, w - 1)
  BY <1>0, <1>3 DEF NotAbove
<1>5. Cardinality(below) < k
  <2> HIDE DEF below
  <2>1. CASE w = 0
    <3>1. NotAbove(s, w - 1) = {}
      BY <1>0, <2>1 DEF NotAbove
    <3>2. Cardinality(below) = 0
      BY <1>4, <3>1, FS_EmptySet
    <3>3. k >= 1
      BY <1>0
    <3>4. QED
      BY <1>0, <3>2, <3>3
  <2>2. CASE w # 0
    <3>1. w - 1 \in Nat /\ w - 1 < w /\ w - 1 \notin W
      BY <1>2, <1>3, <2>2
    <3>2. ~(Cardinality(NotAbove(s, w - 1)) >= k)
      BY <3>1
    <3>3. Cardinality(NotAbove(s, w - 1)) \in Nat
      BY CountType
    <3>4. QED
      BY <1>0, <1>4, <3>2, <3>3
  <2>3. QED
    BY <2>1, <2>2
<1>6. w \in ToSet(s)
  <2> SUFFICES ASSUME w \notin ToSet(s) PROVE FALSE
    OBVIOUS
  <2>1. \A i \in DOMAIN s : s[i] # w
    BY DEF ToSet
  <2>2. NotAbove(s, w) = below
    BY <1>0, <1>3, <2>1 DEF NotAbove
  <2> HIDE DEF below
  <2>3. Cardinality(NotAbove(s, w)) \in Nat
    BY CountType
  <2>4. QED
    BY <1>0, <1>3, <1>5, <2>2, <2>3
<1> DEFINE Kth(t) == /\ Cardinality({i \in DOMAIN s : s[i] < t}) < k
                     /\ Cardinality({i \in DOMAIN s : s[i] <= t}) >= k
<1>7. Kth(w)
  BY <1>3, <1>5 DEF NotAbove
<1>8. Ordered(s, k) = CHOOSE t \in ToSet(s) : Kth(t)
  BY DEF Ordered
<1>9. Ordered(s, k) \in ToSet(s) /\ Kth(Ordered(s, k))
  <2> HIDE DEF Kth
  <2>1. QED
    BY <1>6, <1>7, <1>8, Zenon
<1>10. \A t \in ToSet(s) : t \in Nat
  BY <1>0 DEF ToSet
<1>11. QED
  BY <1>9, <1>10 DEF NotAbove

\* Round is within half of its divisor.
LEMMA RoundNear ==
  ASSUME NEW a \in Nat, NEW b \in Nat \ {0}
  PROVE  /\ Round(a, b) \in Nat
         /\ 2 * a <= b * (2 * Round(a, b) + 1)
         /\ b * (2 * Round(a, b) - 1) <= 2 * a
<1> DEFINE k == a \div b
           r == a % b
           u == b * k
           m == Round(a, b)
<1>1. k \in Nat /\ r \in 0 .. b - 1 /\ u \in Nat /\ a = u + r
  OBVIOUS
<1>2. m = IF 2 * r > b \/ (2 * r = b /\ k % 2 = 1) THEN k + 1 ELSE k
  BY DEF Round
<1>3. /\ b * (2 * k + 1) = 2 * u + b /\ b * (2 * k - 1) = 2 * u - b
      /\ b * (2 * (k + 1) + 1) = 2 * u + 3 * b /\ b * (2 * (k + 1) - 1) = 2 * u + b
  <2> HIDE DEF k
  <2>1. QED
    BY <1>1
<1> HIDE DEF k, r, u, m
<1>4. CASE 2 * r > b \/ (2 * r = b /\ k % 2 = 1)
  <2>1. m = k + 1 /\ 2 * r >= b
    BY <1>1, <1>2, <1>4
  <2>2. m \in Nat /\ 2 * a <= b * (2 * m + 1) /\ b * (2 * m - 1) <= 2 * a
    BY <1>1, <1>3, <2>1
  <2>3. QED
    BY <2>2 DEF m
<1>5. CASE ~(2 * r > b \/ (2 * r = b /\ k % 2 = 1))
  <2>1. m = k /\ 2 * r <= b
    BY <1>1, <1>2, <1>5
  <2>2. m \in Nat /\ 2 * a <= b * (2 * m + 1) /\ b * (2 * m - 1) <= 2 * a
    BY <1>1, <1>3, <2>1
  <2>3. QED
    BY <2>2 DEF m
<1>6. QED
  BY <1>4, <1>5

\* The rank pick takes for the 95th percentile is one of the samples', and no lower than 95
\* in a hundred of them.
LEMMA RankHigh ==
  ASSUME NEW s \in Seq(Nat), s # <<>>
  PROVE  Rank(s, 95) \in 1 .. Len(s) /\ 100 * Rank(s, 95) >= 95 * Len(s)
<1> DEFINE n == Len(s)
           a == 95 * n + 50
           m == Round(a, 100)
           k == Rank(s, 95)
<1>1. n \in Nat \ {0} /\ a \in Nat
  OBVIOUS
<1>2. m \in Nat /\ 2 * a <= 100 * (2 * m + 1)
  <2> HIDE DEF a
  <2>1. 100 \in Nat \ {0}
    OBVIOUS
  <2>2. Round(a, 100) \in Nat /\ 2 * a <= 100 * (2 * Round(a, 100) + 1)
    BY <1>1, <2>1, RoundNear, Zenon
  <2>3. QED
    BY <2>2
<1>3. k = Max({1, Min({n, m})})
  BY DEF Rank
<1> HIDE DEF m, n, k
<1> DEFINE l == Min({n, m})
<1>4. l = (IF n <= m THEN n ELSE m)
  BY <1>1, <1>2, MinOfTwo
<1>5. l \in Int
  BY <1>1, <1>2, <1>4
<1>6. k = IF 1 >= l THEN 1 ELSE l
  <2>1. k = Max({1, l})
    BY <1>3
  <2> HIDE DEF l
  <2>2. QED
    BY <1>5, <2>1, MaxOfTwo
<1>7. 100 * m >= 95 * n
  BY <1>1, <1>2
<1>8. k \in 1 .. n /\ 100 * k >= 95 * n
  <2> HIDE DEF l, a
  <2>1. QED
    BY <1>1, <1>2, <1>4, <1>6, <1>7
<1>9. QED
  BY <1>8 DEF n, k

\* The samples above p by more than half a microsecond, the last digit that is reported.
Above(s, p) == {i \in DOMAIN s : 2 * s[i] > Grain * (2 * p + 1)}

\* Of the samples of a tool at most five in a hundred are above its p95 by more than half of
\* the last digit it is reported with, and there is a sample that is no further from it.
THEOREM PercentileHolds ==
  ASSUME NEW s \in Seq(Nat), s # <<>>
  PROVE  LET p == pick(s, 95) IN
         /\ p \in Nat
         /\ 100 * Cardinality({i \in DOMAIN s : 2 * s[i] > Grain * (2 * p + 1)}) <= 5 * Len(s)
         /\ \E i \in DOMAIN s :
              Grain * (2 * p - 1) <= 2 * s[i] /\ 2 * s[i] <= Grain * (2 * p + 1)
<1> DEFINE n == Len(s)
           k == Rank(s, 95)
           t == Ordered(s, k)
           p == pick(s, 95)
           slow == Above(s, p)
           over == DOMAIN s \ NotAbove(s, t)
<1>1. n \in Nat /\ (\A i \in DOMAIN s : s[i] \in Nat) /\ Grain \in Nat \ {0}
  BY GatesAssumption
<1>2. k \in 1 .. n /\ 100 * k >= 95 * n
  BY RankHigh
<1>3. p = Round(t, Grain)
  BY DEF pick
<1> HIDE DEF k
<1>4. t \in ToSet(s) /\ t \in Nat /\ Cardinality(NotAbove(s, t)) >= k
  BY <1>2, OrderedIs
<1> HIDE DEF t, p
<1>5. p \in Nat /\ 2 * t <= Grain * (2 * p + 1) /\ Grain * (2 * p - 1) <= 2 * t
  BY <1>1, <1>3, <1>4, RoundNear
<1>6. slow \subseteq over
  <2> SUFFICES ASSUME NEW i \in DOMAIN s, 2 * s[i] > Grain * (2 * p + 1) PROVE ~(s[i] <= t)
    BY DEF Above, NotAbove
  <2> DEFINE g == Grain * (2 * p + 1)
  <2>1. g \in Int /\ 2 * s[i] > g /\ 2 * t <= g /\ s[i] \in Nat
    BY <1>1, <1>5
  <2> HIDE DEF g
  <2>2. QED
    BY <1>4, <2>1
<1>7. /\ IsFiniteSet(DOMAIN s) /\ Cardinality(DOMAIN s) = n
      /\ Cardinality(NotAbove(s, t)) \in Nat
      /\ DOMAIN s \cap NotAbove(s, t) = NotAbove(s, t)
  BY CountType DEF NotAbove
<1>8. Cardinality(over) = n - Cardinality(NotAbove(s, t)) /\ IsFiniteSet(over)
  BY <1>7, FS_Difference
<1> HIDE DEF slow, over
<1>9. Cardinality(slow) <= Cardinality(over) /\ Cardinality(slow) \in Nat
  BY <1>6, <1>8, FS_Subset, FS_CardinalityType
<1>10. 100 * Cardinality(slow) <= 5 * n
  <2> DEFINE c == Cardinality(NotAbove(s, t))
             d == Cardinality(over)
             e == Cardinality(slow)
  <2>1. n \in Nat /\ k \in Nat /\ c \in Nat /\ c >= k /\ d = n - c /\ e \in Nat /\ e <= d
    BY <1>1, <1>2, <1>4, <1>7, <1>8, <1>9
  <2> HIDE DEF c, d, e
  <2>2. 100 * e <= 5 * n
    BY <1>2, <2>1
  <2>3. QED
    BY <2>2 DEF e
<1>11. PICK i \in DOMAIN s : s[i] = t
  BY <1>4 DEF ToSet
<1>12. QED
  BY <1>5, <1>10, <1>11 DEF p, slow, Above

-----------------------------------------------------------------------------
(* Sums                                                                      *)

\* The element MapThenSumSet takes out of a set next, and what it leaves.
OneOf(T) == CHOOSE x \in T : TRUE
Others(T) == T \ {OneOf(T)}

\* Its recursion, and the functions that satisfy it on the subsets of up to n elements.
Plus(f, g, T) == IF T = {} THEN 0 ELSE f[OneOf(T)] + g[Others(T)]
Level(S, n) == {T \in SUBSET S : Cardinality(T) <= n}
SumsTo(f, S, n) == {g \in [Level(S, n) -> Int] : \A T \in Level(S, n) : g[T] = Plus(f, g, T)}

\* What is left is one smaller.
LEMMA OthersSmaller ==
  ASSUME NEW S, IsFiniteSet(S), NEW n \in Nat, NEW T \in Level(S, n + 1), T # {}
  PROVE  Others(T) \in Level(S, n) /\ OneOf(T) \in T
<1>1. OneOf(T) \in T
  BY DEF OneOf
<1>2. T \in SUBSET S /\ Cardinality(T) <= n + 1 /\ IsFiniteSet(T)
  BY FS_Subset DEF Level
<1>3. Cardinality(Others(T)) = Cardinality(T) - 1 /\ Cardinality(T) \in Nat
  BY <1>1, <1>2, FS_RemoveElement, FS_CardinalityType DEF Others
<1>4. QED
  BY <1>1, <1>2, <1>3 DEF Level, Others

\* There is such a function, level by level.
LEMMA SumExists ==
  ASSUME NEW S, IsFiniteSet(S), NEW f \in [S -> Int], NEW n \in Nat
  PROVE  SumsTo(f, S, n) # {}
<1> DEFINE G == {m \in Nat : SumsTo(f, S, m) # {}}
<1>1. 0 \in G
  <2> DEFINE g == [T \in Level(S, 0) |-> 0]
  <2>1. \A T \in Level(S, 0) : T = {}
    BY FS_Subset, FS_EmptySet, FS_CardinalityType DEF Level
  <2>2. g \in SumsTo(f, S, 0)
    BY <2>1 DEF SumsTo, Plus
  <2>3. QED
    BY <2>2
<1>2. ASSUME NEW m \in Nat, m \in G PROVE m + 1 \in G
  <2>1. PICK g \in SumsTo(f, S, m) : TRUE
    BY <1>2
  <2> DEFINE h == [T \in Level(S, m + 1) |-> Plus(f, g, T)]
  <2>2. ASSUME NEW T \in Level(S, m + 1) PROVE h[T] \in Int /\ h[T] = Plus(f, h, T)
    <3>1. CASE T = {}
      BY <3>1 DEF Plus
    <3>2. CASE T # {}
      <4>1. Others(T) \in Level(S, m) /\ OneOf(T) \in T /\ T \in SUBSET S
        BY <3>2, OthersSmaller DEF Level
      <4>2. Others(T) \in Level(S, m + 1)
        BY <4>1, FS_Subset, FS_CardinalityType DEF Level
      <4>3. h[Others(T)] = g[Others(T)] /\ g[Others(T)] \in Int
        BY <4>1, <4>2 DEF SumsTo
      <4>4. h[T] = f[OneOf(T)] + g[Others(T)] /\ f[OneOf(T)] \in Int
        BY <3>2, <4>1 DEF Plus
      <4>5. QED
        BY <3>2, <4>3, <4>4 DEF Plus
    <3>3. QED
      BY <3>1, <3>2
  <2>3. h \in SumsTo(f, S, m + 1)
    <3> HIDE DEF h
    <3>1. h \in [Level(S, m + 1) -> Int]
      BY <2>2 DEF h
    <3>2. QED
      BY <2>2, <3>1 DEF SumsTo
  <2>4. QED
    BY <2>3
<1> HIDE DEF G
<1>3. Nat \subseteq G
  BY <1>1, <1>2, NatSetInduction
<1>4. QED
  BY <1>3 DEF G

\* So the sum satisfies its recursion.
LEMMA SumOfPlus ==
  ASSUME NEW S, IsFiniteSet(S), NEW f \in [S -> Int]
  PROVE  \E g : /\ SumOf(f, S) = g[S]
                /\ \A T \in SUBSET S : g[T] = Plus(f, g, T)
<1> DEFINE n == Cardinality(S)
           Body(it) == [s \in SUBSET S |->
                          IF s = {} THEN 0
                          ELSE f[CHOOSE x \in s : TRUE] + it[s \ {CHOOSE x \in s : TRUE}]]
           iter == CHOOSE it : it = Body(it)
<1>1. n \in Nat /\ Level(S, n) = SUBSET S
  BY FS_Subset, FS_CardinalityType DEF Level
<1>2. PICK g \in SumsTo(f, S, n) : TRUE
  BY <1>1, SumExists
<1>3. g \in [SUBSET S -> Int] /\ g = [s \in SUBSET S |-> Plus(f, g, s)]
  BY <1>1, <1>2 DEF SumsTo
<1>4. g = Body(g)
  BY <1>3, Zenon DEF Plus, OneOf, Others
<1> HIDE DEF Body
<1>5. iter = Body(iter)
  BY <1>4, Zenon
<1> USE DEF Body
<1>6. SumOf(f, S) = iter[S]
  BY DEF SumOf, MapThenSumSet, MapThenFoldSet
<1> HIDE DEF iter
<1>7. iter = [s \in SUBSET S |-> Plus(f, iter, s)]
  BY <1>5, Zenon DEF Plus, OneOf, Others
<1>8. \A T \in SUBSET S : iter[T] = Plus(f, iter, T)
  BY <1>7, Zenon
<1>9. QED
  BY <1>6, <1>8

\* A sum of numbers.
LEMMA SumNat ==
  ASSUME NEW S, IsFiniteSet(S), NEW f \in [S -> Nat]
  PROVE  SumOf(f, S) \in Nat
<1>0. f \in [S -> Int]
  OBVIOUS
<1>1. PICK g : SumOf(f, S) = g[S] /\ \A T \in SUBSET S : g[T] = Plus(f, g, T)
  BY <1>0, SumOfPlus
<1> DEFINE G == {n \in Nat : \A T \in Level(S, n) : g[T] \in Nat}
<1>2. 0 \in G
  <2>1. \A T \in Level(S, 0) : T = {}
    BY FS_Subset, FS_EmptySet, FS_CardinalityType DEF Level
  <2>2. g[{}] = 0
    BY <1>1 DEF Plus
  <2>3. ASSUME NEW T \in Level(S, 0) PROVE g[T] \in Nat
    <3>1. g[T] = g[{}]
      BY <2>1
    <3>2. QED
      BY <2>2, <3>1
  <2>4. QED
    BY <2>3
<1>3. ASSUME NEW n \in Nat, n \in G PROVE n + 1 \in G
  <2>1. ASSUME NEW T \in Level(S, n + 1) PROVE g[T] \in Nat
    <3>1. CASE T = {}
      BY <1>1, <3>1 DEF Plus
    <3>2. CASE T # {}
      <4>1. Others(T) \in Level(S, n) /\ OneOf(T) \in T /\ T \in SUBSET S
        BY <3>2, OthersSmaller DEF Level
      <4>2. g[Others(T)] \in Nat /\ f[OneOf(T)] \in Nat /\ g[T] = f[OneOf(T)] + g[Others(T)]
        BY <1>1, <1>3, <3>2, <4>1 DEF Plus
      <4>3. QED
        BY <4>2
    <3>3. QED
      BY <3>1, <3>2
  <2>2. QED
    BY <2>1
<1> HIDE DEF G
<1>4. Nat \subseteq G
  BY <1>2, <1>3, NatSetInduction
<1>5. S \in Level(S, Cardinality(S)) /\ Cardinality(S) \in Nat
  BY FS_CardinalityType DEF Level
<1>6. QED
  BY <1>1, <1>4, <1>5 DEF G

-----------------------------------------------------------------------------
(* Type correctness                                                          *)

RowType == [visited : Seq(STRING), grade : {o.grade : o \in Outcomes} \cup {None}, cost : Nat]

\* A job is at a step of its own kind, and a report at one of the columns it was asked for.
JobOK(label, options, col) ==
  /\ label = "eval" => options.kind = "eval" /\ options.price \in Nat
  /\ label \in {"column", "ask"} =>
       /\ options.kind = "report"
       /\ options.selected \in Seq(ToSet(Configurations))
       /\ Len(options.selected) <= Len(Configurations)
       /\ col \in 1 .. Len(options.selected)
  /\ label \in {"flush", "poll"} => options.kind = "trace" /\ options.script \in Scripts
  /\ label = "replay" => options.kind = "replay"

TypeInv ==
  /\ TypeOK
  /\ rows \in Seq(RowType)
  /\ pc # "idle" => jobs > 0
  /\ JobOK(pc, args, column)
  /\ \A tool \in DOMAIN promoted : promoted[tool] \in Nat

\* The configured columns, of which there are some.
LEMMA ConfigurationsType ==
  /\ Configurations \in Seq(ToSet(Configurations))
  /\ Len(Configurations) \in Nat /\ Len(Configurations) >= 2
  /\ \A i \in 1 .. Len(Configurations) : Configurations[i] \in ToSet(Configurations)
<1>1. Configurations \in Seq(STRING) /\ Len(Configurations) >= 2
  BY GatesAssumption
<1>2. /\ DOMAIN Configurations = 1 .. Len(Configurations) /\ Len(Configurations) \in Nat
      /\ Configurations \in [1 .. Len(Configurations) -> STRING]
  BY <1>1
<1>3. \A i \in 1 .. Len(Configurations) : Configurations[i] \in ToSet(Configurations)
  BY <1>2 DEF ToSet
<1>4. Configurations \in [1 .. Len(Configurations) -> ToSet(Configurations)]
  BY <1>2, <1>3
<1>5. QED
  BY <1>1, <1>2, <1>3, <1>4

LEMMA TypeInit == Init => TypeInv
<1> SUFFICES ASSUME Init PROVE TypeInv
  OBVIOUS
<1>1. Len(Golden) \in Nat /\ Committed \subseteq Nat /\ MaxJobs \in Nat /\ PollAttempts \in Nat
  BY GatesAssumption
<1>2. TypeOK
  BY <1>1, ConfigurationsType DEF Init, TypeOK
<1>3. rows \in Seq(RowType) /\ JobOK(pc, args, column)
  BY DEF Init, JobOK
<1>4. DOMAIN promoted = {}
  BY DEF Init
<1>5. QED
  BY <1>2, <1>3, <1>4 DEF TypeInv, Init

\* A job that starts.
LEMMA StartType ==
  ASSUME TypeInv, NEW options, NEW label \in {"eval", "column", "flush", "replay"},
         JobOK(label, options, 1), Start(options, label)
  PROVE  TypeInv'
<1>1. jobs \in Nat /\ MaxJobs \in Nat /\ jobs < MaxJobs /\ Len(Golden) \in Nat /\ PollAttempts \in Nat
  BY GatesAssumption DEF TypeInv, TypeOK, Start
<1>2. jobs' = jobs + 1 /\ pc' = label /\ args' = options /\ column' = 1 /\ rows' = <<>>
      /\ exit' = None /\ hung' = hung /\ scored' = {} /\ polls' = 0
      /\ lastRun' = lastRun /\ epoch' = epoch /\ report' = report /\ sent' = sent
      /\ visible' = visible /\ promoted' = promoted
  BY DEF Start, left
<1>3. TypeOK'
  BY <1>1, <1>2, ConfigurationsType DEF TypeInv, TypeOK
<1>4. rows' \in Seq(RowType) /\ (pc' # "idle" => jobs' > 0)
  BY <1>1, <1>2
<1>5. JobOK(pc, args, column)'
  BY <1>2 DEF JobOK
<1>6. QED
  BY <1>2, <1>3, <1>4, <1>5 DEF TypeInv

\* A job that ends.
LEMMA ExitsType ==
  ASSUME TypeInv, NEW code \in {0, 1}, NEW baseline, Exits(code, baseline)
  PROVE  /\ pc' = "idle" /\ exit' = code /\ base' = baseline
         /\ jobs' = jobs /\ args' = args /\ hung' = {}
         /\ JobOK(pc, args, column)'
BY DEF Exits, JobOK

\* The columns a report is started with are configured ones.
LEMMA Selected ==
  ASSUME NEW matrix \in BOOLEAN
  PROVE  LET s == IF matrix THEN Configurations
                  ELSE <<Configurations[1], Configurations[Len(Configurations)]>>
         IN s \in Seq(ToSet(Configurations)) /\ Len(s) \in 1 .. Len(Configurations)
<1>1. CASE matrix
  BY <1>1, ConfigurationsType
<1>2. CASE ~matrix
  <2>1. /\ Configurations[1] \in ToSet(Configurations)
        /\ Configurations[Len(Configurations)] \in ToSet(Configurations)
    BY ConfigurationsType
  <2>2. QED
    BY <1>2, <2>1, ConfigurationsType
<1>3. QED
  BY <1>1, <1>2

Starts ==
  \/ \E line \in CommandLines, price \in Prices : StartEval(line, price)
  \/ \E matrix \in BOOLEAN : StartReport(matrix)
  \/ \E script \in Scripts, key, works \in BOOLEAN :
       \E recent \in SUBSET Recent(script) : StartTrace(script, key, key /\ works, recent)
  \/ StartReplay

LEMMA StartsType ==
  ASSUME TypeInv, Starts
  PROVE  TypeInv'
<1>1. ASSUME NEW line \in CommandLines, NEW price \in Prices, StartEval(line, price)
      PROVE  TypeInv'
  <2> DEFINE o == [kind |-> "eval", line |-> line,
                   price |-> price]
  <2>1. o.kind = "eval" /\ o.price \in Nat
    BY GatesAssumption
  <2>2. JobOK("eval", o, 1)
    BY <2>1 DEF JobOK
  <2>3. Start(o, "eval")
    BY <1>1 DEF StartEval
  <2> HIDE DEF o
  <2>4. QED
    BY <2>2, <2>3, StartType
<1>2. ASSUME NEW matrix \in BOOLEAN, StartReport(matrix) PROVE TypeInv'
  <2> DEFINE s == IF matrix THEN Configurations
                  ELSE <<Configurations[1], Configurations[Len(Configurations)]>>
             o == [kind |-> "report", selected |-> s]
  <2>1. s \in Seq(ToSet(Configurations)) /\ Len(s) \in 1 .. Len(Configurations)
    BY Selected
  <2>2. Start(o, "column")
    BY <1>2 DEF StartReport
  <2> HIDE DEF s
  <2>3. JobOK("column", o, 1)
    BY <2>1, ConfigurationsType DEF JobOK
  <2> HIDE DEF o
  <2>4. QED
    BY <2>2, <2>3, StartType
<1>3. ASSUME NEW script \in Scripts, NEW key \in BOOLEAN, NEW works \in BOOLEAN,
             NEW recent, StartTrace(script, key, key /\ works, recent)
      PROVE  TypeInv'
  <2> DEFINE o == [kind |-> "trace", script |-> script, key |-> key, works |-> key /\ works,
                   recent |-> recent]
  <2>1. o.kind = "trace" /\ o.script \in Scripts
    OBVIOUS
  <2>2. JobOK("flush", o, 1)
    BY <2>1 DEF JobOK
  <2>3. Start(o, "flush")
    BY <1>3 DEF StartTrace
  <2> HIDE DEF o
  <2>4. QED
    BY <2>2, <2>3, StartType
<1>4. ASSUME StartReplay PROVE TypeInv'
  <2>1. JobOK("replay", [kind |-> "replay"], 1)
    BY DEF JobOK
  <2>2. QED
    BY <1>4, <2>1, StartType DEF StartReplay
<1>5. QED
  BY <1>1, <1>2, <1>3, <1>4 DEF Starts

\* The mean cost of the rows is a number.
LEMMA MeanCostType ==
  ASSUME TypeInv
  PROVE  /\ Len(Golden) \in Nat \ {0}
         /\ SumOf(costs, DOMAIN rows) \in Nat
         /\ mean_cost \in Nat
         /\ SumOf(costs, DOMAIN rows) < Len(Golden) * (mean_cost + 1)
<1>1. Len(Golden) \in Nat \ {0}
  BY GatesAssumption
<1>2. rows \in Seq(RowType) /\ DOMAIN rows = 1 .. Len(rows) /\ Len(rows) \in Nat
  BY DEF TypeInv
<1>3. costs \in [DOMAIN rows -> Nat]
  <2>1. ASSUME NEW i \in DOMAIN rows PROVE rows[i].cost \in Nat
    <3>1. rows[i] \in RowType
      BY <1>2
    <3>2. QED
      BY <3>1 DEF RowType
  <2>2. QED
    BY <2>1 DEF costs
<1>4. IsFiniteSet(DOMAIN rows)
  BY <1>2, FS_Interval
<1>5. SumOf(costs, DOMAIN rows) \in Nat
  BY <1>3, <1>4, SumNat
<1> DEFINE a == SumOf(costs, DOMAIN rows)
           b == Len(Golden)
<1>6. mean_cost = a \div b
  BY DEF mean_cost
<1>7. a \in Nat /\ b \in Nat /\ b > 0
  BY <1>1, <1>5
<1> HIDE DEF a, b
<1>8. a \div b \in Nat
  BY <1>7
<1>9. a < b * ((a \div b) + 1)
  BY <1>7
<1>10. QED
  BY <1>1, <1>6, <1>7, <1>8, <1>9 DEF a, b

\* What stubbed nodes cost is a number.
LEMMA StubCostsType ==
  ASSUME NEW visited \in Seq(STRING)
  PROVE  StubCosts(visited) \in Nat
<1> DEFINE f == [i \in DOMAIN visited |-> StubCost(visited[i])]
<1>1. \A node : StubCost(node) \in Nat
  BY DEF StubCost
<1>2. f \in [DOMAIN visited -> Nat]
  BY <1>1
<1>3. IsFiniteSet(DOMAIN visited)
  <2>1. DOMAIN visited = 1 .. Len(visited) /\ Len(visited) \in Nat
    OBVIOUS
  <2>2. QED
    BY <2>1, FS_Interval
<1> HIDE DEF f
<1>4. SumOf(f, DOMAIN visited) \in Nat
  BY <1>2, <1>3, SumNat
<1>5. QED
  BY <1>4 DEF StubCosts, f

LEMMA EvalType ==
  ASSUME TypeInv, Eval
  PROVE  TypeInv'
<1>1. ASSUME NEW row \in {Ran(o) : o \in Outcomes} \cup {Raised}, pc = "eval", Scenario(row)
      PROVE  TypeInv'
  <2>1. args.price \in Nat
    BY <1>1 DEF TypeInv, JobOK
  <2>2. row \in RowType
    <3>1. CASE row = Raised
      BY <3>1 DEF Raised, RowType
    <3>2. ASSUME NEW o \in Outcomes, row = Ran(o) PROVE row \in RowType
      <4>1. o.visited \in Seq(STRING)
        BY GatesAssumption
      <4>2. StubCosts(o.visited) \in Nat
        BY <4>1, StubCostsType
      <4>3. QED
        BY <2>1, <3>2, <4>1, <4>2 DEF Ran, RowType
    <3>3. QED
      BY <1>1, <3>1, <3>2
  <2>3. rows \in Seq(RowType) /\ rows' = Append(rows, row) /\ Len(rows) < Len(Golden)
        /\ Len(Golden) \in Nat
    BY <1>1, GatesAssumption DEF TypeInv, Scenario
  <2>4. rows' \in Seq(RowType) /\ Len(rows') \in 0 .. Len(Golden)
    BY <2>2, <2>3
  <2>5. pc' = pc /\ UNCHANGED <<jobs, args, exit, hung, column, scored, polls, left>>
    BY <1>1 DEF Scenario, Goto
  <2>6. TypeOK'
    BY <2>4, <2>5 DEF TypeInv, TypeOK, left
  <2>7. JobOK(pc, args, column)'
    BY <2>5 DEF TypeInv
  <2>8. QED
    BY <2>4, <2>5, <2>6, <2>7 DEF TypeInv, left
<1>2. ASSUME NEW shape, pc = "eval", run_eval(shape) PROVE TypeInv'
  <2>1. PICK code \in {0, 1} : Exits(code, lastRun)
    BY <1>2 DEF run_eval
  <2>2. /\ pc' = "idle" /\ exit' = code /\ jobs' = jobs /\ hung' = {} /\ JobOK(pc, args, column)'
    BY <2>1, ExitsType
  <2>3. lastRun' = mean_cost /\ UNCHANGED <<work, epoch, report, sent, visible, promoted>>
    BY <1>2 DEF run_eval
  <2>4. lastRun' \in Nat
    BY <2>3, MeanCostType
  <2>5. TypeOK'
    BY <2>2, <2>3, <2>4 DEF TypeInv, TypeOK, work
  <2>6. QED
    BY <2>2, <2>3, <2>5 DEF TypeInv, work
<1>3. QED
  BY <1>1, <1>2 DEF Eval

\* A job that fails leaves what is left of earlier ones, but for a summary.
LEMMA FailsType ==
  ASSUME TypeInv, EvalFails \/ ReportFails \/ FlushFails \/ ReplayFails
  PROVE  TypeInv'
<1>1. Exits(1, None) /\ UNCHANGED <<work, epoch, report, sent, visible, promoted>>
      /\ lastRun' \in {lastRun, mean_cost}
  BY DEF EvalFails, ReportFails, FlushFails, ReplayFails, left
<1>2. pc' = "idle" /\ exit' = 1 /\ jobs' = jobs /\ hung' = {} /\ JobOK(pc, args, column)'
  BY <1>1, ExitsType
<1>3. lastRun' \in Nat
  BY <1>1, MeanCostType DEF TypeInv, TypeOK
<1>4. TypeOK'
  BY <1>1, <1>2, <1>3 DEF TypeInv, TypeOK, work
<1>5. QED
  BY <1>1, <1>2, <1>4 DEF TypeInv, work

LEMMA ReportType ==
  ASSUME TypeInv, Report
  PROVE  TypeInv'
<1>1. CASE run_configuration
  <2>1. pc' = "ask" /\ pc = "column" /\ epoch' = epoch + 1
        /\ UNCHANGED <<jobs, args, exit, hung, work, lastRun, report, sent, visible, promoted>>
    BY <1>1 DEF run_configuration, Goto
  <2>2. TypeOK'
    BY <2>1 DEF TypeInv, TypeOK, work
  <2>3. JobOK(pc, args, column)'
    BY <2>1 DEF TypeInv, JobOK, work
  <2>4. QED
    BY <2>1, <2>2, <2>3 DEF TypeInv, work
<1>3. ASSUME NEW q \in Questions, AskQuestion(q) PROVE TypeInv'
  <2>1. pc' = pc /\ pc = "ask"
        /\ UNCHANGED <<jobs, args, exit, hung, rows, column, scored, polls, samples,
                       lastRun, epoch, report, sent, visible, promoted>>
    BY <1>3 DEF AskQuestion, Goto
  <2>2. TypeOK'
    BY <2>1 DEF TypeInv, TypeOK
  <2>3. QED
    BY <2>1, <2>2 DEF TypeInv, JobOK
<1>4. ASSUME NEW judged \in BOOLEAN, _score(judged) PROVE TypeInv'
  <2> DEFINE measured == scored \cup (IF judged THEN {args.selected[column]} ELSE {})
  <2>1. pc = "ask" /\ scored' = measured
        /\ UNCHANGED <<rows, polls, lastRun, epoch, sent, visible, promoted>>
    BY <1>4 DEF _score
  <2>2. /\ args.kind = "report" /\ args.selected \in Seq(ToSet(Configurations))
        /\ Len(args.selected) <= Len(Configurations) /\ column \in 1 .. Len(args.selected)
        /\ Len(args.selected) \in Nat /\ Len(Configurations) \in Nat
    BY <2>1, ConfigurationsType DEF TypeInv, JobOK
  <2>3. measured \subseteq ToSet(Configurations)
    <3>1. args.selected[column] \in ToSet(Configurations)
      BY <2>2
    <3>2. scored \subseteq ToSet(Configurations)
      BY DEF TypeInv, TypeOK
    <3>3. QED
      BY <3>1, <3>2
  <2> HIDE DEF measured
  <2>4. CASE column < Len(args.selected) /\ Goto("column") /\ column' = column + 1 /\ report' = report
    <3>1. pc' = "column" /\ UNCHANGED <<jobs, args, exit, hung>>
      BY <2>4 DEF Goto
    <3>2. column' \in 1 .. Len(args.selected) /\ column' \in 0 .. Len(Configurations)
      BY <2>2, <2>4
    <3>3. TypeOK'
      BY <2>1, <2>3, <2>4, <3>1, <3>2 DEF TypeInv, TypeOK
    <3>4. JobOK(pc, args, column)'
      BY <2>2, <3>1, <3>2 DEF JobOK
    <3>5. QED
      BY <2>1, <3>1, <3>3, <3>4 DEF TypeInv
  <2>5. CASE WriteReport(measured)
    <3>1. PICK code \in {0, 1} : Exits(code, None)
      BY <2>5 DEF WriteReport
    <3>2. pc' = "idle" /\ exit' = code /\ jobs' = jobs /\ hung' = {} /\ JobOK(pc, args, column)'
      BY <3>1, ExitsType
    <3>3. column' = column /\ report' \subseteq ToSet(Configurations)
      BY <2>3, <2>5 DEF WriteReport, TypeInv, TypeOK
    <3>4. TypeOK'
      BY <2>1, <2>3, <3>2, <3>3 DEF TypeInv, TypeOK
    <3>5. QED
      BY <2>1, <3>2, <3>4 DEF TypeInv
  <2>6. QED
    BY <1>4, <2>4, <2>5 DEF _score, measured
<1>5. QED
  BY <1>1, <1>3, <1>4 DEF Report

\* The percentiles of a replay are numbers.
LEMMA PercentilesType ==
  ASSUME NEW s \in Timings, NEW tool \in DOMAIN s
  PROVE  DOMAIN _percentiles(s) = DOMAIN s /\ _percentiles(s)[tool] = pick(s[tool], 95)
         /\ pick(s[tool], 95) \in Nat
<1>1. s[tool] \in Seq(Nat) /\ s[tool] # <<>>
  BY GatesAssumption
<1>2. pick(s[tool], 95) \in Nat
  BY <1>1, PercentileHolds
<1>3. QED
  BY <1>2 DEF _percentiles

LEMMA OtherType ==
  ASSUME TypeInv,
         \/ \E q \in Questions : ServiceAsks(q)
         \/ Flush
         \/ \E r \in sent \ visible : Ingested(r)
         \/ Poll
         \/ \E s \in Timings : Replay(s)
         \/ Evicted \/ \E store \in {"redis", "postgres", "mcp"} : StoreHangs(store)
  PROVE  TypeInv'
<1>1. ASSUME NEW q \in Questions, ServiceAsks(q) PROVE TypeInv'
  <2>1. UNCHANGED <<job, work, lastRun, epoch, report, sent, visible, promoted>>
    BY <1>1 DEF ServiceAsks
  <2>2. TypeOK'
    BY <2>1 DEF TypeInv, TypeOK, job, work
  <2>3. QED
    BY <2>1, <2>2 DEF TypeInv, JobOK, job, work
<1>2. ASSUME Flush PROVE TypeInv'
  <2>1. pc = "flush" /\ UNCHANGED <<work, lastRun, epoch, cache, report, visible, promoted>>
    BY <1>2 DEF Flush
  <2>2. args.kind = "trace" /\ args.script \in Scripts /\ jobs \in 1 .. MaxJobs
    BY <2>1 DEF TypeInv, TypeOK, JobOK
  <2>3. CASE \E code \in {0, 1} : Exits(code, None) /\ UNCHANGED sent
    <3>1. PICK code \in {0, 1} : Exits(code, None) /\ UNCHANGED sent
      BY <2>3
    <3>2. pc' = "idle" /\ exit' = code /\ jobs' = jobs /\ hung' = {} /\ JobOK(pc, args, column)'
      BY <3>1, ExitsType
    <3>3. TypeOK'
      BY <2>1, <3>1, <3>2 DEF TypeInv, TypeOK, work
    <3>4. QED
      BY <2>1, <3>2, <3>3 DEF TypeInv, work
  <2>4. CASE Goto("poll") /\ sent' = IF args.works THEN sent \cup {<<args.script, jobs>>} ELSE sent
    <3>1. pc' = "poll" /\ UNCHANGED <<jobs, args, exit, hung>>
      BY <2>4 DEF Goto
    <3>2. sent' \subseteq Scripts \X (1 .. MaxJobs) /\ visible' \subseteq sent'
      BY <2>1, <2>2, <2>4 DEF TypeInv, TypeOK
    <3>3. TypeOK'
      BY <2>1, <3>1, <3>2 DEF TypeInv, TypeOK, work
    <3>4. QED
      BY <2>1, <2>2, <3>1, <3>3 DEF TypeInv, JobOK, work
  <2>5. QED
    BY <1>2, <2>3, <2>4 DEF Flush
<1>3. ASSUME NEW r \in sent \ visible, Ingested(r) PROVE TypeInv'
  <2>1. visible' = visible \cup {r}
        /\ UNCHANGED <<job, work, lastRun, epoch, cache, report, sent, promoted>>
    BY <1>3 DEF Ingested
  <2>2. TypeOK'
    BY <2>1 DEF TypeInv, TypeOK, job, work
  <2>3. QED
    BY <2>1, <2>2 DEF TypeInv, JobOK, job, work
<1>4. ASSUME Poll PROVE TypeInv'
  <2>1. pc = "poll" /\ UNCHANGED <<left, rows, column, graded, scored, samples>>
    BY <1>4 DEF Poll
  <2>2. CASE \E code \in {0, 1} : Exits(code, None) /\ UNCHANGED polls
    <3>1. PICK code \in {0, 1} : Exits(code, None) /\ UNCHANGED polls
      BY <2>2
    <3>2. pc' = "idle" /\ exit' = code /\ jobs' = jobs /\ hung' = {} /\ JobOK(pc, args, column)'
      BY <3>1, ExitsType
    <3>3. TypeOK'
      BY <2>1, <3>1, <3>2 DEF TypeInv, TypeOK, left
    <3>4. QED
      BY <2>1, <3>2, <3>3 DEF TypeInv, left
  <2>3. CASE polls < PollAttempts /\ polls' = polls + 1 /\ Goto("poll")
    <3>1. pc' = pc /\ UNCHANGED <<jobs, args, exit, hung>>
      BY <2>1, <2>3 DEF Goto
    <3>2. polls' \in 0 .. PollAttempts
      BY <2>3, GatesAssumption DEF TypeInv, TypeOK
    <3>3. TypeOK'
      BY <2>1, <3>1, <3>2 DEF TypeInv, TypeOK, left
    <3>4. QED
      BY <2>1, <3>1, <3>3 DEF TypeInv, JobOK, left
  <2>4. QED
    BY <1>4, <2>2, <2>3 DEF Poll
<1>5. ASSUME NEW s \in Timings, Replay(s) PROVE TypeInv'
  <2>1. PICK code \in {0, 1} : Exits(code, promoted)
    BY <1>5 DEF Replay
  <2>2. pc' = "idle" /\ exit' = code /\ jobs' = jobs /\ hung' = {} /\ JobOK(pc, args, column)'
    BY <2>1, ExitsType
  <2>3. UNCHANGED <<rows, column, graded, scored, polls,
                    lastRun, epoch, cache, report, sent, visible>>
    BY <1>5 DEF Replay
  <2>4. TypeOK'
    BY <2>2, <2>3 DEF TypeInv, TypeOK
  <2>5. promoted' = promoted \/ promoted' = _percentiles(s)
    BY <1>5 DEF Replay
  <2>6. \A tool \in DOMAIN s : _percentiles(s)[tool] \in Nat
    BY PercentilesType
  <2>7. DOMAIN _percentiles(s) = DOMAIN s
    BY DEF _percentiles
  <2>8. \A tool \in DOMAIN promoted' : promoted'[tool] \in Nat
    BY <2>5, <2>6, <2>7 DEF TypeInv
  <2>9. QED
    BY <2>2, <2>3, <2>4, <2>8 DEF TypeInv
<1>6. ASSUME NEW store \in {"redis", "postgres", "mcp"}, StoreHangs(store) PROVE TypeInv'
  <2>1. hung' = {store} /\ UNCHANGED <<pc, jobs, args, exit, base, work, left>>
    BY <1>6 DEF StoreHangs
  <2>2. TypeOK'
    BY <2>1 DEF TypeInv, TypeOK, work, left
  <2>3. QED
    BY <2>1, <2>2 DEF TypeInv, JobOK, work, left
<1>7. ASSUME Evicted PROVE TypeInv'
  <2>1. DOMAIN promoted' = {} /\ UNCHANGED <<job, work, lastRun, epoch, cache, report, sent, visible>>
    BY <1>7 DEF Evicted
  <2>2. TypeOK'
    BY <2>1 DEF TypeInv, TypeOK, job, work
  <2>3. QED
    BY <2>1, <2>2 DEF TypeInv, JobOK, job, work
<1>8. QED
  BY <1>1, <1>2, <1>3, <1>4, <1>5, <1>6, <1>7

LEMMA TypeStep ==
  ASSUME TypeInv, [Next]_vars
  PROVE  TypeInv'
<1>1. CASE UNCHANGED vars
  BY <1>1 DEF vars, job, work, left, TypeInv, TypeOK, JobOK
<1>2. CASE Next
  BY <1>2, StartsType, EvalType, FailsType, ReportType, OtherType DEF Next, Starts
<1>3. QED
  BY <1>1, <1>2

LEMMA TypeInvariant == Spec => []TypeInv
BY TypeInit, TypeStep, PTL DEF Spec

\* Every variable keeps its type: no job has more rows than scenarios, more polls than it may,
\* or a column that is not configured.
THEOREM GatesTypeCorrect == Spec => []TypeOK
<1>1. TypeInv => TypeOK
  BY DEF TypeInv
<1>2. QED
  BY <1>1, TypeInvariant, PTL

-----------------------------------------------------------------------------
(* The columns of the report                                                 *)

\* No entry of the cache is of an epoch to come, and while a column asks its questions those
\* of the current epoch are its own answers or the service's.
CacheInv ==
  /\ \A e \in cache : e.epoch \in Nat /\ e.epoch <= epoch
  /\ pc = "ask" => \A e \in cache : e.epoch = epoch => e.by \in {<<jobs, column>>, Service}
  /\ ColumnsApart

LEMMA CacheInit == Init => CacheInv
BY DEF Init, CacheInv, ColumnsApart

\* bump_epoch takes the report to an epoch of which the cache holds nothing yet.
LEMMA BumpStep ==
  ASSUME TypeInv, CacheInv, run_configuration
  PROVE  CacheInv'
<1>1. epoch \in Nat /\ epoch' = epoch + 1 /\ cache' = cache /\ graded' = graded /\ jobs' = jobs
      /\ column' = column
  BY DEF TypeInv, TypeOK, run_configuration, Goto, work
<1>2. \A e \in cache : e.epoch \in Nat /\ e.epoch <= epoch
  BY DEF CacheInv
<1>3. \A e \in cache' : e.epoch \in Nat /\ e.epoch <= epoch' /\ e.epoch # epoch'
  BY <1>1, <1>2
<1>4. ColumnsApart'
  BY <1>1 DEF CacheInv, ColumnsApart
<1>5. QED
  BY <1>3, <1>4 DEF CacheInv

\* An answer is that of a hit of the current epoch, or a new one under the column's flags.
LEMMA AskStep ==
  ASSUME TypeInv, CacheInv, NEW q \in Questions, AskQuestion(q)
  PROVE  CacheInv'
<1>1. PICK by \in IF Hits(q) = {} THEN {<<jobs, column>>} ELSE {e.by : e \in Hits(q)} :
        /\ graded' = graded \cup {[column |-> column, question |-> q, by |-> by]}
        /\ cache' = cache \cup {[epoch |-> epoch, question |-> q, by |-> by]}
  BY DEF AskQuestion
<1>2. pc = "ask" /\ pc' = "ask" /\ jobs' = jobs /\ column' = column /\ epoch' = epoch
      /\ epoch \in Nat
  BY DEF AskQuestion, Goto, TypeInv, TypeOK
<1>3. by \in {<<jobs, column>>, Service}
  <2>1. \A e \in Hits(q) : e.by \in {<<jobs, column>>, Service}
    BY <1>2 DEF Hits, CacheInv
  <2>2. QED
    BY <1>1, <2>1
<1>4. \A e \in cache' : e.epoch \in Nat /\ e.epoch <= epoch'
  BY <1>1, <1>2 DEF CacheInv
<1>5. \A e \in cache' : e.epoch = epoch' => e.by \in {<<jobs', column'>>, Service}
  BY <1>1, <1>2, <1>3 DEF CacheInv
<1>6. ColumnsApart'
  BY <1>1, <1>2, <1>3 DEF CacheInv, ColumnsApart
<1>7. QED
  BY <1>4, <1>5, <1>6 DEF CacheInv

\* Another caller stores the service's own answer.
LEMMA ServiceStep ==
  ASSUME TypeInv, CacheInv, NEW q \in Questions, ServiceAsks(q)
  PROVE  CacheInv'
<1>1. /\ cache' = cache \cup {[epoch |-> epoch, question |-> q, by |-> Service]}
      /\ pc' = pc /\ jobs' = jobs /\ column' = column /\ epoch' = epoch /\ graded' = graded
      /\ epoch \in Nat
  BY DEF ServiceAsks, job, work, TypeInv, TypeOK
<1>2. QED
  BY <1>1 DEF CacheInv, ColumnsApart

\* A job that starts has graded nothing and is not yet asking.
LEMMA StartsCache ==
  ASSUME CacheInv, Starts
  PROVE  CacheInv'
<1>1. ASSUME NEW o, NEW label \in {"eval", "column", "flush", "replay"}, Start(o, label)
      PROVE  CacheInv'
  BY <1>1 DEF Start, left, CacheInv, ColumnsApart
<1>2. QED
  BY <1>1 DEF Starts, StartEval, StartReport, StartTrace, StartReplay

\* No other step asks, or touches the cache, its epoch or what was graded.
LEMMA AsideCache ==
  ASSUME CacheInv, UNCHANGED <<jobs, graded, epoch, cache>>, pc' # "ask" \/ UNCHANGED <<pc, column>>
  PROVE  CacheInv'
BY DEF CacheInv, ColumnsApart

LEMMA OtherAside ==
  ASSUME [Next]_vars, ~Starts, ~run_configuration,
         \A q \in Questions : ~AskQuestion(q) /\ ~ServiceAsks(q)
  PROVE  UNCHANGED <<jobs, graded, epoch, cache>> /\ (pc' # "ask" \/ UNCHANGED <<pc, column>>)
<1>1. CASE UNCHANGED vars
  BY <1>1 DEF vars, job, work, left
<1>2. CASE Eval
  BY <1>2 DEF Eval, Scenario, run_eval, Goto, Exits, work, left
<1>3. CASE EvalFails \/ ReportFails \/ FlushFails \/ ReplayFails
  BY <1>3 DEF EvalFails, ReportFails, FlushFails, ReplayFails, Exits, work, left
<1>4. CASE \E judged \in BOOLEAN : _score(judged)
  BY <1>4 DEF _score, WriteReport, Goto, Exits
<1>5. CASE Flush
  BY <1>5 DEF Flush, Goto, Exits, work
<1>6. CASE Poll
  BY <1>6 DEF Poll, Goto, Exits, left
<1>7. CASE \E s \in Timings : Replay(s)
  BY <1>7 DEF Replay, Exits
<1>8. CASE \/ Evicted \/ (\E r \in sent \ visible : Ingested(r))
           \/ \E store \in {"redis", "postgres", "mcp"} : StoreHangs(store)
  BY <1>8 DEF Evicted, Ingested, StoreHangs, job, work, left
<1>9. QED
  BY <1>1, <1>2, <1>3, <1>4, <1>5, <1>6, <1>7, <1>8 DEF Next, Starts, Report

LEMMA CacheStep ==
  ASSUME TypeInv, CacheInv, [Next]_vars
  PROVE  CacheInv'
BY StartsCache, BumpStep, AskStep, ServiceStep, AsideCache, OtherAside

\* In any number of runs of the report, of any columns and questions, no column grades an
\* answer that was generated under another's flags: bump_epoch before each column suffices,
\* although the cache key does not know the flags.
THEOREM ColumnsStayApart == Spec => []ColumnsApart
<1>1. CacheInv => ColumnsApart
  BY DEF CacheInv
<1>2. Spec => []CacheInv
  BY CacheInit, CacheStep, TypeInvariant, PTL DEF Spec
<1>3. QED
  BY <1>1, <1>2, PTL

-----------------------------------------------------------------------------
(* A green gate                                                              *)

\* The verdict of an eval that is not refused holds of the rows themselves.
LEMMA VerdictMeansGood ==
  ASSUME TypeInv, NEW shape \in {"frame", "list", "unreadable", "raises"}, NEW line,
         Len(rows) = Len(Golden),
         verdict(IF line.offline THEN None ELSE score_with_ragas(shape), line.allow \/ line.offline)
  PROVE  LET numbers == {i \in DOMAIN rows : rows[i].grade \notin {NaN, None}} IN
         /\ 10 * Cardinality({i \in DOMAIN rows : InOrder(rows[i].visited, Golden[i])})
              >= 7 * Len(Golden)
         /\ ~(line.allow \/ line.offline) =>
              numbers # {} /\ SumOf(grades, numbers) >= 85 * Cardinality(numbers)
         /\ lastRun > 0 =>
              100 * SumOf(costs, DOMAIN rows) < Len(Golden) * (115 * lastRun + 100)
<1> DEFINE numbers == {i \in DOMAIN rows : rows[i].grade \notin {NaN, None}}
           ordered == {i \in DOMAIN rows : InOrder(rows[i].visited, Golden[i])}
           faith == IF line.offline THEN None ELSE score_with_ragas(shape)
<1>1. /\ 100 * Cardinality(matched) >= 70 * Len(Golden)
      /\ IF faith = None THEN line.allow \/ line.offline ELSE faith.sum >= 85 * faith.n
      /\ ~cost_regression(mean_cost, lastRun)
  BY DEF verdict, TrajectoryFloor, FaithfulnessFloor
<1>2. rows \in Seq(RowType) /\ DOMAIN rows = 1 .. Len(rows) /\ Len(rows) \in Nat /\ lastRun \in Nat
  BY DEF TypeInv, TypeOK
<1>3. 10 * Cardinality(ordered) >= 7 * Len(Golden)
  <2>1. matched \subseteq ordered
    <3> SUFFICES ASSUME NEW i \in matched PROVE i \in ordered
      OBVIOUS
    <3>1. i \in DOMAIN rows /\ trajectory_match(rows[i].visited, Golden[i])
      BY DEF matched
    <3>2. rows[i].visited \in Seq(STRING)
      <4>1. rows[i] \in RowType
        BY <1>2, <3>1
      <4>2. QED
        BY <4>1 DEF RowType
    <3>3. Golden[i] \in Seq(STRING)
      BY <1>2, <3>1, GatesAssumption
    <3>4. QED
      BY <3>1, <3>2, <3>3, MatchIsSubsequence
  <2>2. ordered \in SUBSET DOMAIN rows /\ IsFiniteSet(DOMAIN rows)
    BY <1>2, FS_Interval
  <2> HIDE DEF ordered
  <2>3. IsFiniteSet(ordered) /\ IsFiniteSet(matched)
        /\ Cardinality(matched) <= Cardinality(ordered)
    BY <2>1, <2>2, FS_Subset
  <2>4. Cardinality(matched) \in Nat /\ Cardinality(ordered) \in Nat
    BY <2>3, FS_CardinalityType
  <2>5. QED
    BY <1>1, <2>3, <2>4, MeanCostType
<1>4. ASSUME ~(line.allow \/ line.offline)
      PROVE  numbers # {} /\ SumOf(grades, numbers) >= 85 * Cardinality(numbers)
  <2> DEFINE mean == _mean_faithfulness(shape)
  <2>1. faith = score_with_ragas(shape) /\ faith # None /\ faith.sum >= 85 * faith.n
    BY <1>1, <1>4
  <2>2. score_with_ragas(shape) # None
    BY <2>1
  <2>3. score_with_ragas(shape) = mean /\ mean # NaN
    BY <2>2 DEF score_with_ragas, _measured
  <2>4. {i \in scorable : rows[i].grade # NaN} = numbers
    BY DEF scorable
  <2> HIDE DEF numbers
  <2>5. mean = Mean(numbers)
    <3>1. CASE shape = "frame"
      BY <2>4, <3>1 DEF _mean_faithfulness
    <3>2. CASE shape = "list"
      BY <2>3, <2>4, <3>2 DEF _mean_faithfulness
    <3>3. CASE shape = "unreadable"
      BY <2>3, <3>3 DEF _mean_faithfulness
    <3>4. shape # "raises"
      BY <2>2 DEF score_with_ragas
    <3>5. QED
      BY <3>1, <3>2, <3>3, <3>4
  <2>6. numbers # {} /\ mean = [sum |-> SumOf(grades, numbers), n |-> Cardinality(numbers)]
    BY <2>3, <2>5 DEF Mean
  <2>7. QED
    BY <2>1, <2>3, <2>6
<1>5. ASSUME lastRun > 0
      PROVE  100 * SumOf(costs, DOMAIN rows) < Len(Golden) * (115 * lastRun + 100)
  <2> DEFINE a == SumOf(costs, DOMAIN rows)
             b == Len(Golden)
             m == mean_cost
  <2>1. a \in Nat /\ b \in Nat \ {0} /\ m \in Nat /\ a < b * (m + 1)
    BY MeanCostType
  <2>2. ~(100 * (m - lastRun) > 15 * lastRun)
    BY <1>1, <1>5 DEF cost_regression, RegressionLimit
  <2> HIDE DEF a, b, m
  <2>3. 100 * m <= 115 * lastRun
    BY <1>2, <2>1, <2>2
  <2>4. 100 * (m + 1) <= 115 * lastRun + 100
    BY <1>2, <2>1, <2>3
  <2>5. \A x, y \in Nat : x <= y => b * x <= b * y
    BY <2>1
  <2>6. b * (100 * (m + 1)) <= b * (115 * lastRun + 100)
    BY <1>2, <2>1, <2>4, <2>5
  <2>7. b * (100 * (m + 1)) = 100 * (b * (m + 1)) /\ b * (m + 1) \in Nat
    BY <2>1
  <2>8. b * (115 * lastRun + 100) \in Nat
    BY <1>2, <2>1
  <2>9. 100 * a < b * (115 * lastRun + 100)
    <3> DEFINE u == b * (m + 1)
               v == b * (115 * lastRun + 100)
    <3>1. u \in Nat /\ v \in Nat /\ 100 * u <= v /\ a < u
      BY <2>1, <2>6, <2>7, <2>8
    <3> HIDE DEF u, v
    <3>2. 100 * a < v
      BY <2>1, <3>1
    <3>3. QED
      BY <3>2 DEF v
  <2>10. QED
    BY <2>9 DEF a, b
<1>6. QED
  BY <1>3, <1>4, <1>5

\* A tool that has not regressed: at most five samples in a hundred are slow.
LEMMA NotRegressed ==
  ASSUME NEW s \in Timings, NEW tool \in DOMAIN s, NEW before, tool \in DOMAIN before,
         before[tool] \in Nat, before[tool] > 0,
         ~Regressed(_percentiles(s), before, tool)
  PROVE  LET slow == {i \in DOMAIN s[tool] :
                        /\ 200 * s[tool][i] > Grain * (230 * before[tool] + 100)
                        /\ 2 * s[tool][i] > Grain * (2 * NoiseFloor - 1)}
         IN 100 * Cardinality(slow) <= 5 * Len(s[tool])
<1> DEFINE v == s[tool]
           b == before[tool]
           p == pick(v, 95)
           slow == {i \in DOMAIN v : /\ 200 * v[i] > Grain * (230 * b + 100)
                                     /\ 2 * v[i] > Grain * (2 * NoiseFloor - 1)}
           over == {i \in DOMAIN v : 2 * v[i] > Grain * (2 * p + 1)}
<1>1. v \in Seq(Nat) /\ v # <<>> /\ Grain \in Nat
  BY GatesAssumption
<1>2. p \in Nat /\ 100 * Cardinality(over) <= 5 * Len(v)
  BY <1>1, PercentileHolds
<1>3. _percentiles(s)[tool] = p
  BY PercentilesType
<1>4. b \in Nat /\ b > 0 /\ \A i \in DOMAIN v : v[i] \in Nat
  BY <1>1
<1>5. Max({b, p}) = IF b >= p THEN b ELSE p
  BY <1>2, <1>4, MaxOfTwo
<1>6. ~(Max({b, p}) >= 1000) \/ ~(100 * (p - b) > 15 * b)
  BY <1>3, <1>4 DEF Regressed, cost_regression, NoiseFloor, RegressionLimit
<1> HIDE DEF v, b, p
<1>7. slow \subseteq over
  <2> SUFFICES ASSUME NEW i \in DOMAIN v, 200 * v[i] > Grain * (230 * b + 100),
                      2 * v[i] > Grain * (2 * 1000 - 1)
               PROVE  2 * v[i] > Grain * (2 * p + 1)
    BY DEF NoiseFloor
  <2> DEFINE g == Grain * (2 * p + 1)
  <2>1. v[i] \in Nat /\ g \in Nat /\ \A x, y \in Nat : x <= y => Grain * x <= Grain * y
    BY <1>1, <1>2, <1>4
  <2>2. CASE ~(Max({b, p}) >= 1000)
    <3>1. 2 * p + 1 <= 1999 /\ 2 * p + 1 \in Nat
      BY <1>2, <1>4, <1>5, <2>2
    <3>2. g <= Grain * 1999
      BY <2>1, <3>1
    <3>3. 2 * v[i] > Grain * 1999 /\ Grain * 1999 \in Nat
      BY <1>1
    <3> HIDE DEF g
    <3>4. 2 * v[i] > g
      BY <2>1, <3>2, <3>3
    <3>5. QED
      BY <3>4 DEF g
  <2>3. CASE ~(100 * (p - b) > 15 * b)
    <3> DEFINE h == Grain * (230 * b + 100)
    <3>1. 100 * (2 * p + 1) <= 230 * b + 100 /\ 100 * (2 * p + 1) \in Nat /\ 230 * b + 100 \in Nat
      BY <1>2, <1>4, <2>3
    <3>2. Grain * (100 * (2 * p + 1)) <= h /\ h \in Nat
      <4> DEFINE x == 100 * (2 * p + 1)
                 y == 230 * b + 100
      <4>1. x \in Nat /\ y \in Nat /\ x <= y
        BY <3>1
      <4> HIDE DEF x, y
      <4>2. Grain * x <= Grain * y /\ Grain * y \in Nat
        BY <1>1, <2>1, <4>1
      <4>3. QED
        BY <4>2 DEF x, y
    <3>3. Grain * (100 * (2 * p + 1)) = 100 * g
      <4> DEFINE x == 2 * p + 1
      <4>1. x \in Int
        BY <1>2
      <4> HIDE DEF x
      <4>2. Grain * (100 * x) = 100 * (Grain * x)
        BY <1>1, <4>1
      <4>3. QED
        BY <4>2 DEF x
    <3>4. 200 * v[i] > h
      OBVIOUS
    <3> HIDE DEF g, h
    <3>5. 2 * v[i] > g
      BY <2>1, <3>2, <3>3, <3>4
    <3>6. QED
      BY <3>5 DEF g
  <2>4. QED
    BY <1>6, <2>2, <2>3
<1>8. IsFiniteSet(over) /\ Cardinality(slow) <= Cardinality(over)
  <2>1. DOMAIN v = 1 .. Len(v) /\ Len(v) \in Nat
    BY <1>1
  <2>2. IsFiniteSet(DOMAIN v)
    BY <2>1, FS_Interval
  <2>3. over \in SUBSET DOMAIN v
    OBVIOUS
  <2> HIDE DEF over, slow
  <2>4. IsFiniteSet(over)
    BY <2>2, <2>3, FS_Subset
  <2>5. QED
    BY <1>7, <2>4, FS_Subset
<1>9. Cardinality(slow) \in Nat /\ Cardinality(over) \in Nat /\ Len(v) \in Nat
  <2> HIDE DEF over, slow
  <2>1. IsFiniteSet(slow)
    BY <1>7, <1>8, FS_Subset
  <2>2. QED
    BY <1>1, <1>8, <2>1, FS_CardinalityType
<1>10. 100 * Cardinality(slow) <= 5 * Len(v)
  <2> HIDE DEF over, slow
  <2>1. QED
    BY <1>2, <1>8, <1>9
<1>11. QED
  BY <1>10 DEF v, b

\* run_eval: an eval that exits 0.
LEMMA EvalGreen ==
  ASSUME TypeInv, GreenMeansGood, Eval
  PROVE  GreenMeansGood'
<1>1. pc = "eval" /\ args.kind = "eval"
  BY DEF Eval, TypeInv, JobOK
<1>2. ASSUME NEW row, Scenario(row) PROVE GreenMeansGood'
  BY <1>2 DEF Scenario, Goto, GreenMeansGood
<1>3. ASSUME NEW shape \in {"frame", "list", "unreadable", "raises"}, run_eval(shape)
      PROVE  GreenMeansGood'
  <2> DEFINE line == args.line
             faith == IF line.offline THEN None ELSE score_with_ragas(shape)
  <2>1. Len(rows) = Len(Golden) /\ rows' = rows /\ args' = args /\ base' = lastRun
        /\ exit' = IF line.gate /\ ~verdict(faith, line.allow \/ line.offline) THEN 1 ELSE 0
    BY <1>3 DEF run_eval, Exits, work
  <2>2. SUFFICES ASSUME exit' = 0, line.gate PROVE GoodEval'
    <3>1. args'.kind # "replay"
      BY <1>1, <2>1
    <3>2. QED
      BY <2>1, <2>2, <3>1 DEF GreenMeansGood
  <2>3. verdict(faith, line.allow \/ line.offline)
    BY <2>1, <2>2
  <2>4. grades' = grades /\ costs' = costs
    BY <2>1 DEF grades, costs
  <2> DEFINE numbers == {i \in DOMAIN rows : rows[i].grade \notin {NaN, None}}
  <2>5. /\ 10 * Cardinality({i \in DOMAIN rows : InOrder(rows[i].visited, Golden[i])})
             >= 7 * Len(Golden)
        /\ ~(line.allow \/ line.offline) =>
             numbers # {} /\ SumOf(grades, numbers) >= 85 * Cardinality(numbers)
        /\ lastRun > 0 =>
             100 * SumOf(costs, DOMAIN rows) < Len(Golden) * (115 * lastRun + 100)
    BY <2>1, <2>3, VerdictMeansGood
  <2>6. QED
    BY <2>1, <2>4, <2>5 DEF GoodEval
<1>4. QED
  BY <1>2, <1>3 DEF Eval

\* main of replay.py: a replay that exits 0.
LEMMA ReplayGreen ==
  ASSUME TypeInv, NEW s \in Timings, Replay(s)
  PROVE  GreenMeansGood'
<1>1. args.kind = "replay" /\ args' = args /\ base' = promoted /\ samples' = s
  BY DEF Replay, Exits, TypeInv, JobOK
<1>2. SUFFICES ASSUME exit' = 0 PROVE GoodReplay'
  BY <1>1 DEF GreenMeansGood
<1>3. \A tool \in DOMAIN s : ~Regressed(_percentiles(s), promoted, tool)
  <2>1. ~(\E tool \in DOMAIN _percentiles(s) : Regressed(_percentiles(s), promoted, tool))
    BY <1>2 DEF Replay, Exits
  <2>2. QED
    BY <2>1 DEF _percentiles
<1>4. ASSUME NEW tool \in DOMAIN s, tool \in DOMAIN promoted, promoted[tool] > 0
      PROVE  LET slow == {i \in DOMAIN s[tool] :
                            /\ 200 * s[tool][i] > Grain * (230 * promoted[tool] + 100)
                            /\ 2 * s[tool][i] > Grain * (2 * NoiseFloor - 1)}
             IN 100 * Cardinality(slow) <= 5 * Len(s[tool])
  <2>1. promoted[tool] \in Nat
    BY <1>4 DEF TypeInv
  <2>2. QED
    BY <1>3, <1>4, <2>1, NotRegressed
<1>5. QED
  BY <1>1, <1>4 DEF GoodReplay

\* A step that leaves the last verdict and what it was about alone.
LEMMA AsideGreen ==
  ASSUME GreenMeansGood, UNCHANGED <<exit, args, base, rows, samples>>, pc' = pc \/ pc' # "idle"
  PROVE  GreenMeansGood'
<1>1. grades' = grades /\ costs' = costs
  BY DEF grades, costs
<1>2. GoodEval => GoodEval'
  BY <1>1 DEF GoodEval
<1>3. GoodReplay => GoodReplay'
  BY DEF GoodReplay
<1>4. QED
  BY <1>2, <1>3 DEF GreenMeansGood

\* The other jobs are no gate, and a job that starts or fails is not green.
LEMMA OtherGreen ==
  ASSUME TypeInv, GreenMeansGood, [Next]_vars, ~Eval, \A s \in Timings : ~Replay(s)
  PROVE  GreenMeansGood'
<1>1. CASE Starts
  <2>1. ASSUME NEW o, NEW label \in {"eval", "column", "flush", "replay"}, Start(o, label)
        PROVE  GreenMeansGood'
    BY <2>1 DEF Start, GreenMeansGood
  <2>2. QED
    BY <1>1, <2>1 DEF Starts, StartEval, StartReport, StartTrace, StartReplay
<1>2. ASSUME NEW code \in {0, 1}, Exits(code, None), args.kind \in {"report", "trace"} \/ code = 1
      PROVE  GreenMeansGood'
  BY <1>2 DEF Exits, GreenMeansGood
<1>3. ASSUME NEW label \in {"ask", "column", "poll"}, Goto(label) PROVE GreenMeansGood'
  BY <1>3 DEF Goto, GreenMeansGood
<1>4. CASE Report \/ ReportFails
  <2>1. ASSUME pc \in {"column", "ask"} PROVE args.kind = "report"
    BY <2>1 DEF TypeInv, JobOK
  <2>2. CASE run_configuration \/ \E q \in Questions : AskQuestion(q)
    BY <1>3, <2>2 DEF run_configuration, AskQuestion
  <2>3. CASE ReportFails
    BY <1>2, <2>3 DEF ReportFails
  <2>4. ASSUME NEW judged \in BOOLEAN, _score(judged) PROVE GreenMeansGood'
    <3>1. args.kind = "report"
      BY <2>1, <2>4 DEF _score
    <3>2. Goto("column") \/ Exits(0, None) \/ Exits(1, None)
      BY <2>4 DEF _score, WriteReport
    <3>3. QED
      BY <1>2, <1>3, <3>1, <3>2
  <2>5. QED
    BY <1>4, <2>2, <2>3, <2>4 DEF Report
<1>5. CASE Flush \/ FlushFails \/ Poll
  <2>1. args.kind = "trace"
    BY <1>5 DEF Flush, FlushFails, Poll, TypeInv, JobOK
  <2>2. Goto("poll") \/ Exits(0, None) \/ Exits(1, None)
    BY <1>5 DEF Flush, FlushFails, Poll
  <2>3. QED
    BY <1>2, <1>3, <2>1, <2>2
<1>6. CASE EvalFails \/ ReplayFails
  BY <1>2, <1>6 DEF EvalFails, ReplayFails
<1>7. CASE \/ Evicted \/ (\E r \in sent \ visible : Ingested(r))
           \/ (\E q \in Questions : ServiceAsks(q)) \/ UNCHANGED vars
           \/ \E store \in {"redis", "postgres", "mcp"} : StoreHangs(store)
  <2>1. UNCHANGED <<pc, exit, args, base, rows, samples>>
    BY <1>7 DEF Evicted, Ingested, ServiceAsks, StoreHangs, vars, job, work
  <2>2. QED
    BY <2>1, AsideGreen
<1>8. QED
  BY <1>1, <1>4, <1>5, <1>6, <1>7 DEF Next, Starts

\* A gate that exits 0 has measured what it stands for, whatever the scenarios did, the judge
\* answered and the calls took: golden nodes in their order, faithful answers and at least one
\* that was judged, a mean cost and a p95 within the limit.
THEOREM GreenIsGood == Spec => []GreenMeansGood
<1>1. Init => GreenMeansGood
  BY GatesAssumption DEF Init, GreenMeansGood
<1>2. TypeInv /\ GreenMeansGood /\ [Next]_vars => GreenMeansGood'
  BY EvalGreen, ReplayGreen, OtherGreen
<1>3. QED
  BY <1>1, <1>2, TypeInvariant, PTL DEF Spec
=============================================================================
