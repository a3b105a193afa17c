----------------------------- MODULE Induction -----------------------------
(***************************************************************************)
(* Induction over the natural numbers for sets instead of predicates, and  *)
(* the existence of functions defined by recursion on a natural number:    *)
(* what the proofs need where the code walks a chain or sums a table.      *)
(***************************************************************************)
EXTENDS Integers, WellFoundedInduction, TLAPS

\* A set that holds 0 and is closed under successor holds every natural number.
LEMMA SetInduction ==
  ASSUME NEW S, 0 \in S, \A n \in Nat : n \in S => n + 1 \in S
  PROVE  \A n \in Nat : n \in S
  <1> SUFFICES ASSUME Nat \ S # {}
               PROVE  FALSE
    OBVIOUS
  <1> DEFINE R == OpToRel(<, Nat)
             T == Nat \ S
  <1>1. T \subseteq Nat /\ T # {}
    OBVIOUS
  <1>2. PICK x \in T : \A y \in T : ~ (<<y, x>> \in R)
    <2> HIDE DEF T, R
    <2> QED BY <1>1, WFMin, NatLessThanWellFounded DEF R
  <1>3. x \in Nat /\ x # 0
    OBVIOUS
  <1>4. x - 1 \in Nat /\ x - 1 < x /\ (x - 1) + 1 = x
    BY <1>3, SMT
  <1>5. x - 1 \in T
    BY <1>4
  <1>6. <<x - 1, x>> \in R
    BY <1>3, <1>4 DEF OpToRel
  <1> QED BY <1>2, <1>5, <1>6

\* A non-empty set of natural numbers has a least element.
LEMMA LeastNatural ==
  ASSUME NEW S, S \subseteq Nat, S # {}
  PROVE  \E x \in S : \A y \in S : x <= y
  <1> DEFINE R == OpToRel(<, Nat)
  <1>1. PICK x \in S : \A y \in S : ~ (<<y, x>> \in R)
    <2> HIDE DEF R
    <2> QED BY WFMin, NatLessThanWellFounded DEF R
  <1>2. ASSUME NEW y \in S
        PROVE  x <= y
    <2>1. ~ (y < x)
      BY <1>1 DEF OpToRel
    <2> QED BY <2>1, SMT
  <1> QED BY <1>2

\* f starts with a and each value up to the m-th is a step h from the one before.
Obeys(f, a, h, m) == \A k \in 0..m : f[k] = IF k = 0 THEN a ELSE h[k][f[k - 1]]

\* Two functions that satisfy the same recursion agree where both are defined.
LEMMA RecursionUnique ==
  ASSUME NEW a, NEW h, NEW f, NEW g, NEW m \in Nat,
         Obeys(f, a, h, m), Obeys(g, a, h, m)
  PROVE  \A k \in 0..m : f[k] = g[k]
  <1> DEFINE S == {k \in Nat : k <= m => f[k] = g[k]}
  <1>1. 0 \in S
    <2>1. 0 \in 0..m /\ 0 \in Nat
      BY SMT
    <2>2. f[0] = a /\ g[0] = a
      BY <2>1 DEF Obeys
    <2> QED BY <2>1, <2>2
  <1>2. ASSUME NEW n \in Nat, n \in S
        PROVE  n + 1 \in S
    <2> SUFFICES ASSUME n + 1 <= m
                 PROVE  f[n + 1] = g[n + 1]
      BY SMT
    <2>1. f[n] = g[n] /\ n + 1 \in 0..m /\ n + 1 # 0 /\ (n + 1) - 1 = n
      BY <1>2, SMT
    <2> QED BY <2>1 DEF Obeys
  <1>3. \A n \in Nat : n \in S
    <2> HIDE DEF S
    <2> QED BY <1>1, <1>2, SetInduction
  <1> QED BY <1>3, SMT

\* f is the function on the natural numbers defined by the recursion.
DefinedBy(f, a, h) == f = [k \in Nat |-> IF k = 0 THEN a ELSE h[k][f[k - 1]]]

\* A recursion step that depends on the previous value defines a function.
LEMMA RecursionExists ==
  ASSUME NEW a, NEW h
  PROVE  \E g : DefinedBy(g, a, h)
  <1> DEFINE P(f, n) == Obeys(f, a, h, n)
             S == {n \in Nat : \E f : P(f, n)}
             F(n) == CHOOSE f : P(f, n)
             G == [n \in Nat |-> F(n)[n]]
  <1>1. 0 \in S
    <2>1. P([k \in 0..0 |-> a], 0)
      BY SMT DEF Obeys
    <2> QED BY <2>1
  <1>2. ASSUME NEW n \in Nat, n \in S
        PROVE  n + 1 \in S
    <2> PICK f : P(f, n)
      BY <1>2
    <2> DEFINE f2 == [k \in 0..n + 1 |-> IF k = n + 1 THEN h[k][f[n]] ELSE f[k]]
    <2>1. ASSUME NEW k \in 0..n + 1
          PROVE  f2[k] = IF k = 0 THEN a ELSE h[k][f2[k - 1]]
      <3>1. CASE k = n + 1
        <4>1. k # 0 /\ k - 1 = n /\ n \in 0..n + 1 /\ n # n + 1
          BY <3>1, SMT
        <4> QED BY <3>1, <4>1
      <3>2. CASE k # n + 1
        <4>1. k \in 0..n /\ (k # 0 => k - 1 \in 0..n + 1 /\ k - 1 # n + 1)
          BY <3>2, SMT
        <4> QED BY <3>2, <4>1 DEF Obeys
      <3> QED BY <3>1, <3>2
    <2> HIDE DEF f2
    <2>2. P(f2, n + 1)
      BY <2>1 DEF Obeys
    <2> QED BY <2>2
  <1>3. \A n \in Nat : n \in S
    <2> HIDE DEF S
    <2> QED BY <1>1, <1>2, SetInduction
  <1>4. \A n \in Nat : P(F(n), n)
    BY <1>3
  <1>5. ASSUME NEW n \in Nat
        PROVE  G[n] = IF n = 0 THEN a ELSE h[n][G[n - 1]]
    <2>0. G[n] = F(n)[n] /\ n \in 0..n
      BY SMT
    <2>1. P(F(n), n)
      BY <1>4
    <2> DEFINE f == F(n)
    <2>2. f[n] = IF n = 0 THEN a ELSE h[n][f[n - 1]]
      <3> HIDE DEF F
      <3> QED BY <2>0, <2>1 DEF Obeys
    <2>3. CASE n = 0
      BY <2>0, <2>2, <2>3
    <2>4. CASE n # 0
      <3> DEFINE m == n - 1
                 g == F(m)
      <3>1. m \in Nat /\ m \in 0..m /\ \A k \in 0..m : k \in 0..n
        BY <2>4, SMT
      <3>2. G[m] = g[m]
        BY <3>1
      <3>3. P(g, m)
        BY <1>4, <3>1
      <3> HIDE DEF F
      <3>4. P(f, m)
        BY <2>1, <3>1 DEF Obeys
      <3> HIDE DEF f, g, G, m
      <3>5. \A k \in 0..m : f[k] = g[k]
        BY <3>1, <3>3, <3>4, RecursionUnique
      <3>6. f[m] = g[m]
        BY <3>1, <3>5
      <3> QED BY <2>0, <2>2, <2>4, <3>2, <3>6 DEF f, m
    <2> QED BY <2>3, <2>4
  <1>6. DOMAIN G = Nat
    OBVIOUS
  <1> HIDE DEF G
  <1>7. G = [k \in Nat |-> IF k = 0 THEN a ELSE h[k][G[k - 1]]]
    <2>1. G = [k \in Nat |-> G[k]]
      BY <1>6 DEF G
    <2> QED BY <1>5, <2>1
  <1> QED BY <1>7 DEF DefinedBy

\* Recursion that goes down by more than one: f starts with a and each value up to the
\* m-th is a step h from an earlier one, d[k].
Descends(f, a, h, d, m) == \A k \in 0..m : f[k] = IF k = 0 THEN a ELSE h[k][f[d[k]]]

\* Two functions that satisfy the same recursion agree where both are defined.
LEMMA DescentUnique ==
  ASSUME NEW a, NEW h, NEW f, NEW g, NEW m \in Nat, NEW d, \A k \in Nat \ {0} : d[k] \in 0..k - 1,
         Descends(f, a, h, d, m), Descends(g, a, h, d, m)
  PROVE  \A k \in 0..m : f[k] = g[k]
<1> DEFINE S == {n \in Nat : \A k \in 0..n : k <= m => f[k] = g[k]}
<1>1. 0 \in S
  <2>1. 0 \in 0..m /\ \A k \in 0..0 : k = 0
    OBVIOUS
  <2>2. f[0] = g[0]
    BY <2>1 DEF Descends
  <2> QED BY <2>1, <2>2
<1>2. ASSUME NEW n \in Nat, n \in S PROVE n + 1 \in S
  <2> SUFFICES ASSUME NEW k \in 0..n + 1, k <= m PROVE f[k] = g[k]
    OBVIOUS
  <2>1. \A j \in 0..n : j <= m => f[j] = g[j]
    BY <1>2
  <2>2. CASE k = n + 1
    <3>1. k \in Nat \ {0} /\ k \in 0..m /\ k # 0
      BY <2>2
    <3>2. d[k] \in 0..k - 1
      BY <3>1
    <3> DEFINE j == d[k]
    <3>3. j \in 0..n /\ j <= m
      BY <2>2, <3>1, <3>2
    <3> HIDE DEF j
    <3>4. f[j] = g[j]
      BY <2>1, <3>3
    <3> QED BY <3>1, <3>4 DEF Descends, j
  <2>3. CASE k # n + 1
    <3>1. k \in 0..n
      BY <2>3
    <3> QED BY <2>1, <3>1
  <2> QED BY <2>2, <2>3
<1>3. \A n \in Nat : n \in S
  <2> HIDE DEF S
  <2> QED BY <1>1, <1>2, SetInduction
<1>4. m \in S
  BY <1>3
<1> QED BY <1>4

\* g satisfies the recursion everywhere.
Descent(g, a, h, d) == \A k \in Nat : g[k] = IF k = 0 THEN a ELSE h[k][g[d[k]]]

\* Such a recursion defines a function.
LEMMA DescentExists ==
  ASSUME NEW a, NEW h, NEW d, \A k \in Nat \ {0} : d[k] \in 0..k - 1
  PROVE  \E g : Descent(g, a, h, d)
<1> DEFINE P(f, n) == Descends(f, a, h, d, n)
           S == {n \in Nat : \E f : P(f, n)}
           F(n) == CHOOSE f : P(f, n)
           G == [n \in Nat |-> F(n)[n]]
<1>1. 0 \in S
  <2>1. P([k \in 0..0 |-> a], 0)
    BY DEF Descends
  <2> QED BY <2>1
<1>2. ASSUME NEW n \in Nat, n \in S PROVE n + 1 \in S
  <2> PICK f : P(f, n)
    BY <1>2
  <2> DEFINE f2 == [k \in 0..n + 1 |-> IF k = n + 1 THEN h[k][f[d[k]]] ELSE f[k]]
  <2>1. ASSUME NEW k \in 0..n + 1
        PROVE  f2[k] = IF k = 0 THEN a ELSE h[k][f2[d[k]]]
    <3>1. CASE k = n + 1
      <4>1. k \in Nat \ {0} /\ k # 0
        BY <3>1
      <4>2. d[k] \in 0..n + 1 /\ d[k] # n + 1
        BY <3>1, <4>1
      <4>3. f2[d[k]] = f[d[k]] /\ f2[k] = h[k][f[d[k]]]
        BY <3>1, <4>2
      <4> HIDE DEF f2
      <4> QED BY <4>1, <4>3
    <3>2. CASE k # n + 1
      <4>1. k \in 0..n
        BY <3>2
      <4>2. f[k] = IF k = 0 THEN a ELSE h[k][f[d[k]]]
        BY <4>1 DEF Descends
      <4>3. k # 0 => d[k] \in 0..n + 1 /\ d[k] # n + 1
        BY <4>1
      <4>4. f2[k] = f[k] /\ (k # 0 => f2[d[k]] = f[d[k]])
        BY <3>2, <4>3
      <4> HIDE DEF f2
      <4> QED BY <4>2, <4>4
    <3> QED BY <3>1, <3>2
  <2> HIDE DEF f2
  <2>2. P(f2, n + 1)
    BY <2>1 DEF Descends
  <2> QED BY <2>2
<1>3. \A n \in Nat : n \in S
  <2> HIDE DEF S
  <2> QED BY <1>1, <1>2, SetInduction
<1>4. \A n \in Nat : P(F(n), n)
  BY <1>3
<1>5. ASSUME NEW n \in Nat
      PROVE  G[n] = IF n = 0 THEN a ELSE h[n][G[d[n]]]
  <2>0. G[n] = F(n)[n] /\ n \in 0..n
    OBVIOUS
  <2>1. P(F(n), n)
    BY <1>4
  <2> DEFINE f == F(n)
  <2>2. f[n] = IF n = 0 THEN a ELSE h[n][f[d[n]]]
    <3> HIDE DEF F
    <3> QED BY <2>0, <2>1 DEF Descends
  <2>3. CASE n = 0
    BY <2>0, <2>2, <2>3
  <2>4. CASE n # 0
    <3> DEFINE m == d[n]
               g == F(m)
    <3>0. m \in 0..n - 1
      BY <2>4
    <3>1. m \in Nat /\ m \in 0..m /\ \A k \in 0..m : k \in 0..n
      <4> HIDE DEF m
      <4> QED BY <3>0
    <3>2. G[m] = g[m]
      BY <3>1
    <3>3. P(g, m)
      BY <1>4, <3>1
    <3> HIDE DEF F
    <3>4. P(f, m)
      BY <2>1, <3>1 DEF Descends
    <3> HIDE DEF f, g, G, m
    <3>5. \A k \in 0..m : f[k] = g[k]
      BY <3>1, <3>3, <3>4, DescentUnique
    <3>6. f[m] = g[m]
      BY <3>1, <3>5
    <3> QED BY <2>0, <2>2, <2>4, <3>2, <3>6 DEF f, m
  <2> QED BY <2>3, <2>4
<1> HIDE DEF G
<1> QED BY <1>5 DEF Descent

\* s holds the sums of the first entries of v: s[j] = v[1] + ... + v[j].
IsSum(s, v, n) == s = [j \in 0..n |-> IF j = 0 THEN 0 ELSE s[j - 1] + v[j]]

\* Sums of natural numbers are natural numbers and only grow.
LEMMA SumGrows ==
  ASSUME NEW n \in Nat, NEW v, \A j \in 1..n : v[j] \in Nat, NEW s, IsSum(s, v, n)
  PROVE  /\ \A j \in 0..n : s[j] \in Nat
         /\ \A j, k \in 0..n : j <= k => s[j] <= s[k]
  <1> DEFINE S == {k \in Nat : k <= n => \A j \in 0..k : s[j] \in Nat /\ s[j] <= s[k]}
  <1>1. 0 \in S
    <2>1. 0 \in 0..n /\ \A j \in 0..0 : j = 0
      BY SMT
    <2>2. s[0] = 0
      BY <2>1 DEF IsSum
    <2> QED BY <2>1, <2>2, SMT
  <1>2. ASSUME NEW k \in Nat, k \in S
        PROVE  k + 1 \in S
    <2> SUFFICES ASSUME k + 1 <= n
                 PROVE  \A j \in 0..k + 1 : s[j] \in Nat /\ s[j] <= s[k + 1]
      BY SMT
    <2>1. k + 1 \in 0..n /\ k + 1 \in 1..n /\ k + 1 # 0 /\ (k + 1) - 1 = k /\ k <= n
      BY SMT
    <2>2. s[k + 1] = s[k] + v[k + 1] /\ v[k + 1] \in Nat
      BY <2>1 DEF IsSum
    <2>3. \A j \in 0..k : s[j] \in Nat /\ s[j] <= s[k]
      BY <1>2, <2>1
    <2>4. s[k] \in Nat /\ s[k + 1] \in Nat /\ s[k] <= s[k + 1]
      <3>1. k \in 0..k
        BY SMT
      <3> QED BY <2>2, <2>3, <3>1, SMT
    <2>5. ASSUME NEW j \in 0..k + 1
          PROVE  s[j] \in Nat /\ s[j] <= s[k + 1]
      <3>1. CASE j = k + 1
        BY <2>4, <3>1, SMT
      <3>2. CASE j # k + 1
        <4>1. j \in 0..k
          BY <3>2, SMT
        <4>2. s[j] \in Nat /\ s[j] <= s[k]
          BY <2>3, <4>1
        <4> QED BY <2>4, <4>2, SMT
      <3> QED BY <3>1, <3>2
    <2> QED BY <2>5
  <1>3. \A k \in Nat : k \in S
    <2> HIDE DEF S
    <2> QED BY <1>1, <1>2, SetInduction
  <1>4. ASSUME NEW j \in 0..n, NEW k \in 0..n, j <= k
        PROVE  s[j] \in Nat /\ s[j] <= s[k]
    <2>1. k \in Nat /\ k <= n /\ j \in 0..k
      BY <1>4, SMT
    <2>2. k \in S
      BY <1>3, <2>1
    <2> QED BY <2>1, <2>2
  <1>5. ASSUME NEW j \in 0..n
        PROVE  s[j] \in Nat
    <2>1. j <= j
      BY SMT
    <2> QED BY <1>4, <2>1
  <1> QED BY <1>4, <1>5

\* The sums exist: the recursion that defines them has a solution.
LEMMA SumExists ==
  ASSUME NEW n \in Nat, NEW v, \A j \in 1..n : v[j] \in Nat
  PROVE  \E s : IsSum(s, v, n)
  <1> DEFINE h == [k \in Nat |-> [x \in Nat |-> IF k \in 1..n THEN x + v[k] ELSE x]]
  <1>1. PICK g : DefinedBy(g, 0, h)
    <2> HIDE DEF h
    <2> QED BY RecursionExists
  <1>2. g[0] = 0 /\ \A k \in Nat : g[k + 1] = h[k + 1][g[k]]
    <2>1. \A k \in Nat : k + 1 \in Nat /\ k + 1 # 0 /\ (k + 1) - 1 = k
      BY SMT
    <2> HIDE DEF h
    <2> QED BY <1>1, <2>1 DEF DefinedBy
  <1> DEFINE S == {k \in Nat : g[k] \in Nat}
  <1>3. 0 \in S
    BY <1>2
  <1>4. ASSUME NEW k \in Nat, k \in S
        PROVE  k + 1 \in S
    <2>1. k + 1 \in Nat /\ g[k] \in Nat
      BY <1>4, SMT
    <2>2. h[k + 1][g[k]] = IF k + 1 \in 1..n THEN g[k] + v[k + 1] ELSE g[k]
      BY <2>1
    <2>3. h[k + 1][g[k]] \in Nat
      <3> HIDE DEF h
      <3> QED BY <2>1, <2>2, SMT
    <2> QED BY <1>2, <2>1, <2>3
  <1>5. \A k \in Nat : k \in S
    <2> HIDE DEF S
    <2> QED BY <1>3, <1>4, SetInduction
  <1> DEFINE s == [j \in 0..n |-> g[j]]
  <1>6. ASSUME NEW j \in 0..n
        PROVE  s[j] = IF j = 0 THEN 0 ELSE s[j - 1] + v[j]
    <2>1. CASE j = 0
      BY <1>2, <2>1
    <2>2. CASE j # 0
      <3> DEFINE k == j - 1
      <3>1. k \in Nat /\ k + 1 = j /\ k \in 0..n /\ j \in 1..n /\ j \in Nat
        BY <2>2, SMT
      <3>2. g[k] \in Nat
        BY <1>5, <3>1
      <3>3. h[j][g[k]] = g[k] + v[j]
        BY <3>1, <3>2
      <3> HIDE DEF k, h
      <3>4. g[j] = g[k] + v[j]
        BY <1>2, <3>1, <3>3
      <3> QED BY <2>2, <3>1, <3>4 DEF k
    <2> QED BY <2>1, <2>2
  <1>7. IsSum(s, v, n)
    <2>1. s = [j \in 0..n |-> s[j]]
      OBVIOUS
    <2> HIDE DEF s
    <2> QED BY <1>6, <2>1 DEF IsSum
  <1> QED BY <1>7

\* A function on the prefixes of a sequence, in general.
Along(f, n, D, a, h) ==
  f \in [0..n -> D] /\ f[0] = a /\ \A k \in 1..n : f[k] = h[k][f[k - 1]]

\* It exists.
LEMMA PrefixExists ==
  ASSUME NEW n \in Nat, NEW D, NEW a \in D, NEW h \in [1..n -> [D -> D]]
  PROVE  \E f : Along(f, n, D, a, h)
<1>1. PICK g : DefinedBy(g, a, h)
  BY RecursionExists
<1>2. \A k \in Nat : g[k] = IF k = 0 THEN a ELSE h[k][g[k - 1]]
  BY <1>1 DEF DefinedBy
<1> DEFINE S == {k \in Nat : k <= n => g[k] \in D}
<1>3. 0 \in S
  BY <1>2
<1>4. ASSUME NEW k \in Nat, k \in S PROVE k + 1 \in S
  <2> SUFFICES ASSUME k + 1 <= n PROVE g[k + 1] \in D
    OBVIOUS
  <2>1. k + 1 \in Nat /\ k + 1 # 0 /\ (k + 1) - 1 = k /\ k + 1 \in 1..n /\ g[k] \in D
    BY <1>4
  <2>2. g[k + 1] = h[k + 1][g[k]]
    BY <1>2, <2>1
  <2>3. h[k + 1] \in [D -> D]
    BY <2>1
  <2> QED BY <2>1, <2>2, <2>3
<1>5. \A k \in Nat : k \in S
  <2> HIDE DEF S
  <2> QED BY <1>3, <1>4, SetInduction
<1> DEFINE f == [k \in 0..n |-> g[k]]
<1>6. f \in [0..n -> D]
  BY <1>5
<1>7. f[0] = a
  BY <1>2
<1>8. \A k \in 1..n : f[k] = h[k][f[k - 1]]
  <2> TAKE k \in 1..n
  <2>1. k \in 0..n /\ k - 1 \in 0..n /\ k \in Nat /\ k # 0
    OBVIOUS
  <2>2. g[k] = h[k][g[k - 1]]
    BY <1>2, <2>1
  <2> QED BY <2>1, <2>2
<1> HIDE DEF f
<1> QED BY <1>6, <1>7, <1>8 DEF Along

\* What follows the recursion as long as it takes values in D takes all of them there.
Follows(f, n, D, h) == \A k \in 1..n : f[k - 1] \in D => f[k] = h[k][f[k - 1]]

\* So says induction along the prefixes.
LEMMA PrefixTyped ==
  ASSUME NEW n \in Nat, NEW D, NEW h \in [1..n -> [D -> D]], NEW f, f[0] \in D, Follows(f, n, D, h)
  PROVE  \A k \in 0..n : f[k] \in D
<1> DEFINE S == {k \in Nat : k <= n => f[k] \in D}
<1>1. 0 \in S
  OBVIOUS
<1>2. ASSUME NEW k \in Nat, k \in S PROVE k + 1 \in S
  <2> SUFFICES ASSUME k + 1 <= n PROVE f[k + 1] \in D
    OBVIOUS
  <2>1. (k + 1) - 1 = k /\ k + 1 \in 1..n /\ f[k] \in D
    BY <1>2
  <2>2. f[k + 1] = h[k + 1][f[k]] /\ h[k + 1] \in [D -> D]
    BY <2>1 DEF Follows
  <2> QED BY <2>1, <2>2
<1>3. \A k \in Nat : k \in S
  <2> HIDE DEF S
  <2> QED BY <1>1, <1>2, SetInduction
<1> QED BY <1>3

\* A function that does not fall ends at its largest value.
LEMMA GrowsUp ==
  ASSUME NEW n \in Nat, NEW f, \A k \in 0..n : f[k] \in Nat, \A k \in 1..n : f[k - 1] <= f[k]
  PROVE  \A j \in 0..n : f[j] <= f[n]
<1> DEFINE S == {k \in Nat : k <= n => f[n - k] <= f[n]}
<1>1. 0 \in S
  <2>1. n - 0 = n /\ n \in 0..n
    OBVIOUS
  <2>2. f[n] \in Nat
    BY <2>1
  <2>3. f[n - 0] <= f[n]
    BY <2>1, <2>2
  <2> QED BY <2>3
<1>2. ASSUME NEW k \in Nat, k \in S PROVE k + 1 \in S
  <2> SUFFICES ASSUME k + 1 <= n PROVE f[n - (k + 1)] <= f[n]
    OBVIOUS
  <2>1. n - k \in 1..n /\ (n - k) - 1 = n - (k + 1) /\ n - k \in 0..n /\ n - (k + 1) \in 0..n /\ n \in 0..n
    OBVIOUS
  <2>2. f[n - (k + 1)] <= f[n - k]
    BY <2>1
  <2>3. f[n - k] <= f[n]
    BY <1>2, <2>1
  <2>4. f[n - (k + 1)] \in Nat /\ f[n - k] \in Nat /\ f[n] \in Nat
    BY <2>1
  <2> QED BY <2>2, <2>3, <2>4
<1>3. \A k \in Nat : k \in S
  <2> HIDE DEF S
  <2> QED BY <1>1, <1>2, SetInduction
<1>4. ASSUME NEW j \in 0..n PROVE f[j] <= f[n]
  <2>1. n - j \in Nat /\ n - j <= n /\ n - (n - j) = j
    OBVIOUS
  <2>2. n - j \in S
    BY <1>3, <2>1
  <2>3. f[n - (n - j)] <= f[n]
    BY <2>1, <2>2
  <2> QED BY <2>1, <2>3
<1> QED BY <1>4
=============================================================================
