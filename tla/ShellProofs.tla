---------------------------- MODULE ShellProofs ----------------------------
(***************************************************************************)
(* Proofs about Shell: for lines of any length, the loops and flags of     *)
(* system and system_single compute what a line means (AsWritten).         *)
(***************************************************************************)
EXTENDS Shell, Induction, FiniteSetTheorems, SequenceTheorems

\* Lexemes: strings, and no null pointer.
Tok == STRING \ {Null}

----------------------------------------------------------------------------
(* Lists of places.                                                        *)

\* u is the recursion of Listed.
Lists(u, S, n) ==
  u = [m \in 0..n |-> IF m = 0 THEN <<>>
                      ELSE IF m \in S THEN Append(u[m - 1], m) ELSE u[m - 1]]
ListFn(S, n) == CHOOSE u : Lists(u, S, n)

\* g lists the members of S up to each number.
ListsAll(g, S) ==
  /\ g[0] = <<>>
  /\ \A n \in Nat : /\ g[n] \in Seq(Nat)
                    /\ g[n + 1] = IF n + 1 \in S THEN Append(g[n], n + 1) ELSE g[n]

\* One function gives the list up to every number.
LEMMA ListExists ==
  ASSUME NEW S
  PROVE  \E g : ListsAll(g, S)
<1> DEFINE B == Seq(Nat)
           h == [k \in Nat |-> [x \in B |-> IF k \in S THEN Append(x, k) ELSE x]]
<1>0. <<>> \in B
  OBVIOUS
<1>1. PICK g : DefinedBy(g, <<>>, h)
  <2> HIDE DEF h
  <2> QED BY RecursionExists
<1>2. g[0] = <<>> /\ \A n \in Nat : g[n + 1] = h[n + 1][g[n]]
  <2> HIDE DEF h
  <2>1. g = [k \in Nat |-> IF k = 0 THEN <<>> ELSE h[k][g[k - 1]]]
    BY <1>1 DEF DefinedBy
  <2>2. \A n \in Nat : n + 1 \in Nat /\ n + 1 # 0 /\ (n + 1) - 1 = n
    OBVIOUS
  <2> QED BY <2>1, <2>2
<1>3. \A n \in Nat, x \in B : n + 1 \in Nat /\ h[n + 1][x] = IF n + 1 \in S THEN Append(x, n + 1) ELSE x
  OBVIOUS
<1> DEFINE T == {n \in Nat : g[n] \in B}
<1> HIDE DEF h
<1>4. 0 \in T
  BY <1>0, <1>2
<1>5. ASSUME NEW n \in Nat, n \in T PROVE n + 1 \in T
  <2>1. g[n] \in B /\ n + 1 \in Nat
    BY <1>5
  <2>2. g[n + 1] = IF n + 1 \in S THEN Append(g[n], n + 1) ELSE g[n]
    BY <1>2, <1>3, <2>1
  <2>3. g[n + 1] \in B
    BY <2>1, <2>2
  <2> QED BY <2>1, <2>3
<1>6. \A n \in Nat : n \in T
  <2> HIDE DEF T
  <2> QED BY <1>4, <1>5, SetInduction
<1>7. ListsAll(g, S)
  BY <1>2, <1>3, <1>6 DEF ListsAll
<1> QED BY <1>7

\* Listed is that function.
LEMMA ListedIs ==
  ASSUME NEW S, NEW g, ListsAll(g, S), NEW n \in Nat
  PROVE  Listed(S, n) = g[n]
<1> DEFINE v == [m \in 0..n |-> g[m]]
<1>1. ASSUME NEW m \in 0..n
      PROVE  v[m] = IF m = 0 THEN <<>> ELSE IF m \in S THEN Append(v[m - 1], m) ELSE v[m - 1]
  <2>1. CASE m = 0
    BY <2>1 DEF ListsAll
  <2>2. CASE m # 0
    <3> DEFINE l == m - 1
    <3>1. l \in Nat /\ l + 1 = m /\ l \in 0..n
      BY <2>2
    <3>2. v[m] = g[m] /\ v[l] = g[l]
      BY <3>1
    <3> HIDE DEF l, v
    <3>3. g[m] = IF m \in S THEN Append(g[l], m) ELSE g[l]
      BY <3>1 DEF ListsAll
    <3> QED BY <2>2, <3>2, <3>3 DEF l
  <2> QED BY <2>1, <2>2
<1>2. v = [m \in 0..n |-> v[m]]
  OBVIOUS
<1>3. Lists(v, S, n)
  <2> HIDE DEF v
  <2> QED BY <1>1, <1>2 DEF Lists
<1> DEFINE u == ListFn(S, n)
<1>4. Lists(u, S, n)
  BY <1>3 DEF ListFn
<1>5. Listed(S, n) = u[n]
  BY DEF Listed, ListFn, Lists
<1> HIDE DEF u
<1> DEFINE T == {m \in Nat : m <= n => u[m] = g[m]}
<1>6. 0 \in T
  <2>1. u[0] = <<>>
    BY <1>4 DEF Lists
  <2> QED BY <2>1 DEF ListsAll
<1>7. ASSUME NEW m \in Nat, m \in T PROVE m + 1 \in T
  <2>0. m + 1 \in Nat
    OBVIOUS
  <2> SUFFICES ASSUME m + 1 <= n PROVE u[m + 1] = g[m + 1]
    BY <2>0
  <2>1. m + 1 \in 0..n /\ m + 1 # 0 /\ (m + 1) - 1 = m /\ m <= n
    OBVIOUS
  <2>2. u[m] = g[m]
    BY <1>7, <2>1
  <2>3. u[m + 1] = IF m + 1 \in S THEN Append(u[m], m + 1) ELSE u[m]
    BY <1>4, <2>1 DEF Lists
  <2> QED BY <2>2, <2>3 DEF ListsAll
<1>8. \A m \in Nat : m \in T
  <2> HIDE DEF T
  <2> QED BY <1>6, <1>7, SetInduction
<1>9. n <= n
  OBVIOUS
<1> QED BY <1>5, <1>8, <1>9

\* The list up to the next number, in terms of the one before.
LEMMA ListedStep ==
  ASSUME NEW S, NEW n \in Nat
  PROVE  /\ Listed(S, 0) = <<>>
         /\ Listed(S, n) \in Seq(Nat)
         /\ Listed(S, n + 1) = IF n + 1 \in S THEN Append(Listed(S, n), n + 1) ELSE Listed(S, n)
<1>1. PICK g : ListsAll(g, S)
  BY ListExists
<1>2. 0 \in Nat /\ n + 1 \in Nat
  OBVIOUS
<1>3. Listed(S, 0) = g[0] /\ Listed(S, n) = g[n] /\ Listed(S, n + 1) = g[n + 1]
  BY <1>1, <1>2, ListedIs
<1> QED BY <1>1, <1>3 DEF ListsAll

\* Only members up to n matter.
LEMMA ListedSame ==
  ASSUME NEW S, NEW T, NEW n \in Nat, \A m \in 1..n : m \in S <=> m \in T
  PROVE  Listed(S, n) = Listed(T, n)
<1> DEFINE R == {m \in Nat : m <= n => Listed(S, m) = Listed(T, m)}
<1>1. 0 \in R
  BY ListedStep
<1>2. ASSUME NEW m \in Nat, m \in R PROVE m + 1 \in R
  <2>0. m + 1 \in Nat
    OBVIOUS
  <2> SUFFICES ASSUME m + 1 <= n PROVE Listed(S, m + 1) = Listed(T, m + 1)
    BY <2>0
  <2>1. m + 1 \in 1..n /\ m <= n
    OBVIOUS
  <2>2. Listed(S, m) = Listed(T, m)
    BY <1>2, <2>1
  <2>3. m + 1 \in S <=> m + 1 \in T
    BY <2>1
  <2>4. Listed(S, m + 1) = IF m + 1 \in S THEN Append(Listed(S, m), m + 1) ELSE Listed(S, m)
    BY ListedStep
  <2>5. Listed(T, m + 1) = IF m + 1 \in T THEN Append(Listed(T, m), m + 1) ELSE Listed(T, m)
    BY ListedStep
  <2> QED BY <2>2, <2>3, <2>4, <2>5
<1>3. \A m \in Nat : m \in R
  <2> HIDE DEF R
  <2> QED BY <1>1, <1>2, SetInduction
<1>4. n <= n
  OBVIOUS
<1> QED BY <1>3, <1>4

\* A longer list begins with a shorter one, and is the same if no member is added.
LEMMA ListedGrows ==
  ASSUME NEW S, NEW m \in Nat, NEW n \in Nat, m <= n
  PROVE  /\ Len(Listed(S, m)) <= Len(Listed(S, n))
         /\ \A k \in 1..Len(Listed(S, m)) : Listed(S, n)[k] = Listed(S, m)[k]
         /\ (\A k \in m + 1..n : k \notin S) => Listed(S, n) = Listed(S, m)
<1> DEFINE Same(x) == (\A k \in m + 1..x : k \notin S) => Listed(S, x) = Listed(S, m)
           Good(x) == /\ Len(Listed(S, m)) <= Len(Listed(S, x))
                      /\ \A k \in 1..Len(Listed(S, m)) : Listed(S, x)[k] = Listed(S, m)[k]
                      /\ Same(x)
           R == {x \in Nat : x >= m => Good(x)}
<1>0. Good(m)
  BY ListedStep
<1>1. 0 \in R
  <2>1. 0 >= m => m = 0
    OBVIOUS
  <2> QED BY <1>0, <2>1
<1>2. ASSUME NEW x \in Nat, x \in R PROVE x + 1 \in R
  <2>0. x + 1 \in Nat
    OBVIOUS
  <2> SUFFICES ASSUME x + 1 >= m PROVE Good(x + 1)
    BY <2>0
  <2>1. CASE x + 1 = m
    BY <1>0, <2>1
  <2>2. CASE x + 1 # m
    <3>1. x >= m /\ x + 1 \in m + 1..x + 1 /\ (\A k \in m + 1..x : k \in m + 1..x + 1)
      BY <2>2
    <3>2. Good(x)
      BY <1>2, <3>1
    <3> DEFINE a == Listed(S, m)
               b == Listed(S, x)
               c == Listed(S, x + 1)
    <3>3. a \in Seq(Nat) /\ b \in Seq(Nat) /\ c = IF x + 1 \in S THEN Append(b, x + 1) ELSE b
      BY ListedStep
    <3>4. Len(a) <= Len(b) /\ \A k \in 1..Len(a) : b[k] = a[k]
      BY <3>2
    <3>5. Same(x + 1)
      BY <3>1, <3>2, <3>3
    <3> HIDE DEF a, b, c
    <3>6. Len(a) <= Len(c) /\ \A k \in 1..Len(a) : c[k] = a[k]
      BY <3>3, <3>4
    <3> QED BY <3>5, <3>6 DEF a, c
  <2> QED BY <2>1, <2>2
<1>3. \A x \in Nat : x \in R
  <2> HIDE DEF R
  <2> QED BY <1>1, <1>2, SetInduction
<1>4. Good(n)
  BY <1>3
<1> QED BY <1>4

\* A list holds members of the set, and none beyond its end.
LEMMA ListedIn ==
  ASSUME NEW S, NEW n \in Nat
  PROVE  \A k \in 1..Len(Listed(S, n)) : Listed(S, n)[k] \in S /\ Listed(S, n)[k] \in 1..n
<1> DEFINE Good(x) == \A k \in 1..Len(Listed(S, x)) : Listed(S, x)[k] \in S /\ Listed(S, x)[k] \in 1..x
           R == {x \in Nat : Good(x)}
<1>1. 0 \in R
  <2>1. Listed(S, 0) = <<>>
    BY ListedStep
  <2> QED BY <2>1
<1>2. ASSUME NEW x \in Nat, x \in R PROVE x + 1 \in R
  <2> DEFINE b == Listed(S, x)
             c == Listed(S, x + 1)
  <2>1. b \in Seq(Nat) /\ c = IF x + 1 \in S THEN Append(b, x + 1) ELSE b
    BY ListedStep
  <2>2. \A k \in 1..Len(b) : b[k] \in S /\ b[k] \in 1..x
    BY <1>2
  <2> HIDE DEF b, c
  <2>3. \A k \in 1..Len(c) : c[k] \in S /\ c[k] \in 1..x + 1
    BY <2>1, <2>2
  <2> QED BY <2>3 DEF c
<1>3. \A x \in Nat : x \in R
  <2> HIDE DEF R
  <2> QED BY <1>1, <1>2, SetInduction
<1> QED BY <1>3

\* What stands at the places of a list of places.
LEMMA PickedIs ==
  ASSUME NEW s \in Seq(Tok), NEW S, NEW n \in Nat,
         S \subseteq 1..Len(s)
  PROVE  /\ Picked(s, Listed(S, 0)) = <<>>
         /\ Picked(s, Listed(S, n)) \in Seq(Tok)
         /\ Len(Picked(s, Listed(S, n))) = Len(Listed(S, n))
         /\ n + 1 \in S =>
              Picked(s, Listed(S, n + 1)) = Append(Picked(s, Listed(S, n)), s[n + 1])
         /\ n + 1 \notin S => Picked(s, Listed(S, n + 1)) = Picked(s, Listed(S, n))
<1> DEFINE b == Listed(S, n)
           c == Listed(S, n + 1)
<1>1. Listed(S, 0) = <<>> /\ b \in Seq(Nat) /\ c = IF n + 1 \in S THEN Append(b, n + 1) ELSE b
  BY ListedStep
<1>2. \A k \in 1..Len(b) : b[k] \in 1..Len(s)
  BY ListedIn
<1> HIDE DEF b, c
<1>3. Picked(s, <<>>) = <<>>
  BY DEF Picked
<1>4. Len(b) \in Nat /\ \A k \in 1..Len(b) : s[b[k]] \in Tok
  BY <1>1, <1>2
<1>5. Picked(s, b) \in Seq(Tok) /\ Len(Picked(s, b)) = Len(b)
  BY <1>4 DEF Picked
<1>6. ASSUME n + 1 \in S PROVE Picked(s, c) = Append(Picked(s, b), s[n + 1])
  <2>1. c = Append(b, n + 1) /\ Len(c) = Len(b) + 1
    BY <1>1, <1>6
  <2>2. s[n + 1] \in Tok
    BY <1>6
  <2>3. \A k \in 1..Len(b) + 1 : c[k] = IF k = Len(b) + 1 THEN n + 1 ELSE b[k]
    BY <1>1, <2>1
  <2>4. Picked(s, c) = [k \in 1..Len(b) + 1 |-> s[c[k]]]
    BY <2>1 DEF Picked
  <2> DEFINE e == Append(Picked(s, b), s[n + 1])
  <2>5. e \in Seq(Tok) /\ Len(e) = Len(b) + 1
    BY <1>5, <2>2
  <2>6. \A k \in 1..Len(b) + 1 : e[k] = IF k = Len(b) + 1 THEN s[n + 1] ELSE s[b[k]]
    BY <1>4, <1>5, <2>2 DEF Picked
  <2>7. e = [k \in 1..Len(b) + 1 |-> e[k]]
    BY <2>5
  <2> HIDE DEF e
  <2>8. \A k \in 1..Len(b) + 1 : s[c[k]] = e[k]
    BY <2>3, <2>6
  <2>9. Picked(s, c) = [k \in 1..Len(b) + 1 |-> e[k]]
    BY <2>4, <2>8
  <2> QED BY <2>7, <2>9 DEF e
<1> QED BY <1>1, <1>3, <1>5, <1>6 DEF b, c

----------------------------------------------------------------------------
(* Where a command and its jobs begin and end.                             *)

\* The members of a set of places below n.
Below(E, n) == {e \in E : e < n}

\* The members of a set of places, counted one place further.
LEMMA CountStep ==
  ASSUME NEW E, NEW m \in Nat, E \subseteq 1..m, NEW n \in Nat
  PROVE  /\ Cardinality(Below(E, 1)) = 0
         /\ IsFiniteSet(Below(E, n))
         /\ Cardinality(Below(E, n)) \in Nat
         /\ Cardinality(Below(E, n + 1)) = Cardinality(Below(E, n)) + (IF n \in E THEN 1 ELSE 0)
<1>1. IsFiniteSet(1..m)
  <2>1. 1 \in Int /\ m \in Int
    OBVIOUS
  <2> QED BY <2>1, FS_Interval
<1>2. IsFiniteSet(E)
  BY <1>1, FS_Subset
<1>0. \A e \in E : e \in Int /\ 1 <= e
  OBVIOUS
<1> DEFINE A == Below(E, n)
           B == Below(E, n + 1)
<1>3. IsFiniteSet(A) /\ Cardinality(A) \in Nat
  <2>1. A \subseteq E
    BY DEF Below
  <2> HIDE DEF A
  <2> QED BY <1>2, <2>1, FS_Subset, FS_CardinalityType
<1>4. Below(E, 1) = {}
  <2>1. \A e \in E : ~ (e < 1)
    BY <1>0
  <2> QED BY <2>1 DEF Below
<1>5. Cardinality(Below(E, 1)) = 0
  BY <1>4, FS_EmptySet
<1>6. CASE n \in E
  <2>0. (\A e \in E : e < n + 1 <=> e < n \/ e = n) /\ ~ (n < n) /\ n < n + 1
    BY <1>0
  <2>1. B = A \cup {n} /\ n \notin A
    BY <1>6, <2>0 DEF Below
  <2> HIDE DEF A, B
  <2>2. Cardinality(B) = Cardinality(A) + 1
    BY <1>3, <2>1, FS_AddElement
  <2> QED BY <1>3, <1>5, <1>6, <2>2 DEF A, B
<1>7. CASE n \notin E
  <2>1. \A e \in E : e < n + 1 <=> e < n
    BY <1>0, <1>7
  <2>2. B = A
    BY <2>1 DEF Below
  <2> HIDE DEF A, B
  <2>3. Cardinality(B) = Cardinality(A) + 0
    BY <1>3, <2>2
  <2> QED BY <1>3, <1>5, <1>7, <2>3 DEF A, B
<1> QED BY <1>6, <1>7

\* Counting further counts no less.
LEMMA CountGrows ==
  ASSUME NEW E, NEW m \in Nat, E \subseteq 1..m, NEW n \in Nat, NEW k \in Nat, n <= k
  PROVE  Cardinality(Below(E, n)) <= Cardinality(Below(E, k))
<1>1. Below(E, n) \subseteq Below(E, k)
  <2>1. \A e \in E : e \in Int /\ (e < n => e < k)
    OBVIOUS
  <2> QED BY <2>1 DEF Below
<1>2. IsFiniteSet(Below(E, k))
  BY CountStep
<1> QED BY <1>1, <1>2, FS_Subset

\* The ends of commands are places of the line.
LEMMA EndsIs ==
  ASSUME NEW l \in Seq(Tok)
  PROVE  /\ Len(l) \in Nat /\ Ends(l) \subseteq 1..Len(l)
         /\ \A x : x \in Ends(l) <=> x \in 1..Len(l) /\ l[x] = ";"
         /\ \A x : CommandOf(l, x) = 1 + Cardinality(Below(Ends(l), x))
<1>1. \A x : CommandOf(l, x) = 1 + Cardinality(Below(Ends(l), x))
  BY Zenon DEF CommandOf, Below
<1>2. \A x : x \in Ends(l) <=> x \in 1..Len(l) /\ l[x] = ";"
  BY DEF Ends
<1>3. Len(l) \in Nat /\ Ends(l) \subseteq 1..Len(l)
  <2>1. Ends(l) \subseteq 1..Len(l)
    BY DEF Ends
  <2>2. Len(l) \in Nat
    OBVIOUS
  <2> QED BY <2>1, <2>2
<1> QED BY <1>1, <1>2, <1>3

\* The number of the command a place belongs to.
LEMMA CommandStep ==
  ASSUME NEW l \in Seq(Tok), NEW x \in Nat \ {0}
  PROVE  /\ CommandOf(l, 1) = 1
         /\ CommandOf(l, x) \in Nat \ {0}
         /\ CommandOf(l, x + 1) = CommandOf(l, x) + (IF x \in 1..Len(l) /\ l[x] = ";" THEN 1 ELSE 0)
<1> DEFINE E == Ends(l)
           c(n) == Cardinality(Below(E, n))
<1>1. Len(l) \in Nat /\ E \subseteq 1..Len(l) /\ x \in Nat
  BY EndsIs
<1>2. x \in E <=> x \in 1..Len(l) /\ l[x] = ";"
  BY EndsIs
<1>3. CommandOf(l, 1) = 1 + c(1) /\ CommandOf(l, x) = 1 + c(x) /\ CommandOf(l, x + 1) = 1 + c(x + 1)
  BY EndsIs
<1> HIDE DEF E
<1>4. c(1) = 0 /\ c(x) \in Nat /\ c(x + 1) = c(x) + (IF x \in E THEN 1 ELSE 0)
  BY <1>1, CountStep
<1> HIDE DEF c
<1>5. CommandOf(l, 1) = 1 /\ CommandOf(l, x) \in Nat \ {0}
  BY <1>3, <1>4
<1>6. CommandOf(l, x + 1) = CommandOf(l, x) + (IF x \in E THEN 1 ELSE 0)
  BY <1>3, <1>4
<1> QED BY <1>2, <1>5, <1>6

\* Commands follow one another.
LEMMA CommandGrows ==
  ASSUME NEW l \in Seq(Tok), NEW x \in Nat \ {0}, NEW y \in Nat \ {0}, x <= y
  PROVE  CommandOf(l, x) <= CommandOf(l, y)
<1> DEFINE E == Ends(l)
           c(n) == Cardinality(Below(E, n))
<1>1. Len(l) \in Nat /\ E \subseteq 1..Len(l) /\ x \in Nat /\ y \in Nat
  BY EndsIs
<1>2. CommandOf(l, x) = 1 + c(x) /\ CommandOf(l, y) = 1 + c(y)
  BY EndsIs
<1> HIDE DEF E
<1>3. c(x) \in Nat /\ c(y) \in Nat
  BY <1>1, CountStep
<1>4. c(x) <= c(y)
  BY <1>1, CountGrows
<1> HIDE DEF c
<1> QED BY <1>2, <1>3, <1>4

\* The bars among tokens.
Bars(ts) == {m \in 1..Len(ts) : ts[m] = "|"}

\* A job is counted by the bars up to it.
LEMMA BarsIs ==
  ASSUME NEW ts \in Seq(Tok)
  PROVE  /\ Len(ts) \in Nat /\ Bars(ts) \subseteq 1..Len(ts)
         /\ \A n \in 0..Len(ts) : JobOf(ts, n) = 1 + Cardinality(Below(Bars(ts), n + 1))
<1>1. ASSUME NEW n \in 0..Len(ts)
      PROVE  JobOf(ts, n) = 1 + Cardinality(Below(Bars(ts), n + 1))
  <2>1. \A m : m \in 1..n <=> m \in 1..Len(ts) /\ m < n + 1
    OBVIOUS
  <2>2. {m \in 1..n : ts[m] = "|"} = Below(Bars(ts), n + 1)
    BY <2>1 DEF Bars, Below
  <2> QED BY <2>2 DEF JobOf
<1>2. Len(ts) \in Nat /\ Bars(ts) \subseteq 1..Len(ts)
  BY DEF Bars
<1> QED BY <1>1, <1>2

\* The number of the job a token belongs to: a bar begins the next one.
LEMMA JobStep ==
  ASSUME NEW ts \in Seq(Tok), NEW n \in 0..Len(ts)
  PROVE  /\ JobOf(ts, 0) = 1
         /\ JobOf(ts, n) \in Nat \ {0}
         /\ n < Len(ts) => JobOf(ts, n + 1) = JobOf(ts, n) + (IF ts[n + 1] = "|" THEN 1 ELSE 0)
<1> DEFINE E == Bars(ts)
           c(k) == Cardinality(Below(E, k))
<1>0. Len(ts) \in Nat /\ n + 1 \in Nat /\ E \subseteq 1..Len(ts)
  BY BarsIs
<1>1. n < Len(ts) => n + 1 \in 0..Len(ts) /\ (n + 1 \in E <=> ts[n + 1] = "|")
  BY <1>0 DEF Bars
<1>2. 0 \in 0..Len(ts) /\ 0 + 1 = 1
  BY <1>0
<1>3. \A k \in 0..Len(ts) : JobOf(ts, k) = 1 + c(k + 1)
  BY BarsIs
<1> HIDE DEF E
<1>4. c(1) = 0 /\ c(n + 1) \in Nat /\ c((n + 1) + 1) = c(n + 1) + (IF n + 1 \in E THEN 1 ELSE 0)
  BY <1>0, CountStep
<1> HIDE DEF c
<1>5. JobOf(ts, n) = 1 + c(n + 1) /\ JobOf(ts, 0) = 1 + c(1)
  BY <1>2, <1>3
<1>6. n < Len(ts) => JobOf(ts, n + 1) = 1 + c((n + 1) + 1)
  BY <1>1, <1>3
<1> QED BY <1>1, <1>4, <1>5, <1>6

\* Jobs follow one another.
LEMMA JobGrows ==
  ASSUME NEW ts \in Seq(Tok), NEW n \in 0..Len(ts), NEW k \in 0..Len(ts), n <= k
  PROVE  JobOf(ts, n) <= JobOf(ts, k)
<1> DEFINE E == Bars(ts)
           c(x) == Cardinality(Below(E, x))
<1>1. Len(ts) \in Nat /\ E \subseteq 1..Len(ts) /\ n + 1 \in Nat /\ k + 1 \in Nat /\ n + 1 <= k + 1
  BY BarsIs
<1>2. JobOf(ts, n) = 1 + c(n + 1) /\ JobOf(ts, k) = 1 + c(k + 1)
  BY BarsIs
<1> HIDE DEF E
<1>3. c(n + 1) \in Nat /\ c(k + 1) \in Nat /\ c(n + 1) <= c(k + 1)
  BY <1>1, CountStep, CountGrows
<1> HIDE DEF c
<1> QED BY <1>2, <1>3

----------------------------------------------------------------------------
(* What one more token means.                                              *)

\* A non-empty set of places has a last one.
LEMMA LastPlace ==
  ASSUME NEW m \in Nat, NEW S, S \subseteq 1..m, S # {}
  PROVE  \E x \in S : \A y \in S : y <= x
<1> DEFINE T == {m - y : y \in S}
<1>1. \A y \in S : y \in Int /\ 1 <= y /\ y <= m
  OBVIOUS
<1>2. T \subseteq Nat /\ T # {}
  <2>1. \A y \in S : m - y \in Nat
    BY <1>1
  <2>2. T \subseteq Nat
    BY <2>1
  <2>3. PICK y \in S : TRUE
    OBVIOUS
  <2>4. m - y \in T
    OBVIOUS
  <2> QED BY <2>2, <2>4
<1>3. PICK z \in T : \A w \in T : z <= w
  <2> HIDE DEF T
  <2> QED BY <1>2, LeastNatural
<1>4. PICK x \in S : z = m - x
  OBVIOUS
<1>5. ASSUME NEW y \in S PROVE y <= x
  <2>1. m - x <= m - y
    BY <1>3, <1>4
  <2> QED BY <1>1, <2>1
<1> QED BY <1>5

\* The j-th job of the tokens, an empty one if there are fewer.
JobWritten(ts, j) == [fo |-> [d \in 0..2 |-> FileOf(ts, j, d)], argv |-> Words(ts, j)]

\* The descriptors that the token behind ts redirects.
PendingAfter(ts) == IF ts = <<>> THEN {} ELSE Pending(ts[Len(ts)])

\* IsArgument and Stored, with the pending descriptors as a parameter.
IsArg(p, t) == p = {} /\ t # "|" /\ t \notin DOMAIN Redirect
Put(p, job, t) ==
  [fo   |-> [d \in 0..2 |-> IF d \in p THEN t ELSE job.fo[d]],
   argv |-> IF IsArg(p, t) THEN Append(job.argv, t) ELSE job.argv]

\* Appending leaves the other tokens where they are.
LEMMA AppendIs ==
  ASSUME NEW ts \in Seq(Tok), NEW t \in Tok
  PROVE  /\ Append(ts, t) \in Seq(Tok) /\ Len(ts) \in Nat
         /\ Len(Append(ts, t)) = Len(ts) + 1
         /\ \A k \in 1..Len(ts) : Append(ts, t)[k] = ts[k]
         /\ Append(ts, t)[Len(ts) + 1] = t
BY AppendProperties

\* The token after a redirection is a file name, of one of three descriptors.
LEMMA RedirectIs ==
  /\ DOMAIN Redirect = {"<", ">", "2>"}
  /\ \A c \in DOMAIN Redirect : Redirect[c] \in 0..2
  /\ \A ts : PendingAfter(ts) \subseteq 0..2
<1>1. DOMAIN Redirect = {"<", ">", "2>"}
  BY DEF Redirect
<1>2. \A c \in DOMAIN Redirect : Redirect[c] \in 0..2
  BY DEF Redirect
<1>3. \A t : Pending(t) \subseteq 0..2
  BY <1>2 DEF Pending
<1> QED BY <1>1, <1>2, <1>3 DEF PendingAfter

\* What is said of earlier tokens does not change.
LEMMA EarlierTokens ==
  ASSUME NEW ts \in Seq(Tok), NEW t \in Tok, NEW n \in 1..Len(ts)
  PROVE  /\ JobOf(Append(ts, t), n) = JobOf(ts, n)
         /\ \A d : Names(Append(ts, t), n, d) <=> Names(ts, n, d)
         /\ IsWord(Append(ts, t), n) <=> IsWord(ts, n)
<1> DEFINE u == Append(ts, t)
<1>1. \A k \in 1..Len(ts) : u[k] = ts[k]
  BY AppendIs
<1>2. \A k \in 1..n : k \in 1..Len(ts)
  OBVIOUS
<1>3. n > 1 => n - 1 \in 1..Len(ts)
  OBVIOUS
<1> HIDE DEF u
<1>4. {m \in 1..n : u[m] = "|"} = {m \in 1..n : ts[m] = "|"}
  BY <1>1, <1>2
<1>5. JobOf(u, n) = JobOf(ts, n)
  BY <1>4 DEF JobOf
<1>6. \A d : Names(u, n, d) <=> Names(ts, n, d)
  BY <1>1, <1>3 DEF Names
<1>7. IsWord(u, n) <=> IsWord(ts, n)
  BY <1>1, <1>6 DEF IsWord
<1> QED BY <1>5, <1>6, <1>7 DEF u

\* What the last token is.
LEMMA LastToken ==
  ASSUME NEW ts \in Seq(Tok), NEW t \in Tok
  PROVE  LET u == Append(ts, t)  N == Len(ts) IN
         /\ JobOf(u, N + 1) = JobOf(ts, N) + (IF t = "|" THEN 1 ELSE 0)
         /\ \A d \in 0..2 : Names(u, N + 1, d) <=> d \in PendingAfter(ts)
         /\ IsWord(u, N + 1) <=> IsArg(PendingAfter(ts), t)
<1> DEFINE u == Append(ts, t)
           N == Len(ts)
           P == PendingAfter(ts)
<1>1. u \in Seq(Tok) /\ N \in Nat /\ Len(u) = N + 1 /\ u[N + 1] = t
      /\ \A k \in 1..N : u[k] = ts[k]
  BY AppendIs
<1>2. JobOf(u, N) = JobOf(ts, N)
  <2>1. CASE N = 0
    <3>1. {m \in 1..0 : u[m] = "|"} = {} /\ {m \in 1..0 : ts[m] = "|"} = {}
      OBVIOUS
    <3> QED BY <2>1, <3>1 DEF JobOf
  <2>2. CASE N # 0
    <3>1. N \in 1..Len(ts)
      BY <1>1, <2>2
    <3> QED BY <3>1, EarlierTokens
  <2> QED BY <2>1, <2>2
<1> HIDE DEF u, N, P
<1>3. N \in 0..Len(u) /\ N < Len(u)
  BY <1>1
<1>4. JobOf(u, N + 1) = JobOf(u, N) + (IF u[N + 1] = "|" THEN 1 ELSE 0)
  BY <1>1, <1>3, JobStep
<1>5. JobOf(u, N + 1) = JobOf(ts, N) + (IF t = "|" THEN 1 ELSE 0)
  BY <1>1, <1>2, <1>4
<1>6. \A d \in 0..2 : Names(u, N + 1, d) <=> d \in P
  <2>1. CASE ts = <<>>
    <3>1. N = 0 /\ ~ (N + 1 > 1) /\ P = {}
      BY <2>1 DEF N, P, PendingAfter
    <3> QED BY <3>1 DEF Names
  <2>2. CASE ts # <<>>
    <3>1. N + 1 > 1 /\ (N + 1) - 1 = N /\ N \in 1..N
      BY <1>1, <2>2 DEF N
    <3>2. u[N] = ts[N] /\ P = Pending(ts[N])
      BY <1>1, <2>2, <3>1 DEF P, PendingAfter, N
    <3> QED BY <3>1, <3>2 DEF Names, Pending
  <2> QED BY <2>1, <2>2
<1>7. IsWord(u, N + 1) <=> IsArg(P, t)
  <2>1. P \subseteq 0..2
    BY RedirectIs DEF P
  <2>2. P = {} <=> \A d \in 0..2 : ~ Names(u, N + 1, d)
    BY <1>6, <2>1
  <2> QED BY <1>1, <2>2 DEF IsWord, IsArg
<1> QED BY <1>5, <1>6, <1>7 DEF u, N, P

\* The words of a job with one more token.
LEMMA WordsStep ==
  ASSUME NEW ts \in Seq(Tok), NEW t \in Tok, NEW j \in Nat
  PROVE  Words(Append(ts, t), j)
           = IF JobOf(Append(ts, t), Len(ts) + 1) = j /\ IsArg(PendingAfter(ts), t)
             THEN Append(Words(ts, j), t) ELSE Words(ts, j)
<1> DEFINE u == Append(ts, t)
           N == Len(ts)
           W == WordPlaces(ts, j)
           V == WordPlaces(u, j)
<1>1. u \in Seq(Tok) /\ N \in Nat /\ Len(u) = N + 1 /\ u[N + 1] = t
      /\ \A k \in 1..N : u[k] = ts[k]
  BY AppendIs
<1>2. \A n \in 1..N : JobOf(u, n) = JobOf(ts, n) /\ (IsWord(u, n) <=> IsWord(ts, n))
  BY EarlierTokens
<1>3. IsWord(u, N + 1) <=> IsArg(PendingAfter(ts), t)
  BY LastToken
<1> HIDE DEF u, N
<1>4. W \subseteq 1..Len(ts) /\ V \subseteq 1..Len(u)
  BY DEF WordPlaces
<1>5. \A n \in 1..N : n \in W <=> n \in V
  <2>1. \A n \in 1..N : n \in 1..Len(ts) /\ n \in 1..Len(u)
    BY <1>1 DEF N
  <2> QED BY <1>2, <2>1 DEF WordPlaces
<1>6. N + 1 \in V <=> JobOf(u, N + 1) = j /\ IsArg(PendingAfter(ts), t)
  <2>1. N + 1 \in 1..Len(u)
    BY <1>1
  <2> QED BY <1>3, <2>1 DEF WordPlaces
<1> HIDE DEF W, V
<1>7. Listed(V, N) = Listed(W, N)
  BY <1>1, <1>5, ListedSame
<1>8. /\ N + 1 \in V => Picked(u, Listed(V, N + 1)) = Append(Picked(u, Listed(V, N)), u[N + 1])
      /\ N + 1 \notin V => Picked(u, Listed(V, N + 1)) = Picked(u, Listed(V, N))
  <2>1. N \in Nat /\ u \in Seq(Tok) /\ V \subseteq 1..Len(u)
    BY <1>1, <1>4
  <2> QED BY <2>1, PickedIs
<1>9. Picked(u, Listed(W, N)) = Picked(ts, Listed(W, N))
  <2> DEFINE a == Listed(W, N)
  <2>1. \A k \in 1..Len(a) : a[k] \in 1..N
    BY <1>1, ListedIn
  <2> HIDE DEF a
  <2>2. \A k \in 1..Len(a) : u[a[k]] = ts[a[k]]
    BY <1>1, <2>1
  <2> QED BY <2>2 DEF Picked, a
<1>10. Words(ts, j) = Picked(ts, Listed(W, N)) /\ Words(u, j) = Picked(u, Listed(V, N + 1))
  BY <1>1 DEF Words, W, V, N
<1> QED BY <1>1, <1>6, <1>7, <1>8, <1>9, <1>10 DEF u, N

\* The places where tokens of job j name the file of descriptor d.
NamePlaces(ts, j, d) == {n \in 1..Len(ts) : JobOf(ts, n) = j /\ Names(ts, n, d)}

\* The file is named at the last of them.
LEMMA FileIs ==
  ASSUME NEW ts \in Seq(Tok), NEW j, NEW d
  PROVE  /\ NamePlaces(ts, j, d) = {} => FileOf(ts, j, d) = Null
         /\ \A n \in NamePlaces(ts, j, d) :
              (\A m \in NamePlaces(ts, j, d) : m <= n) => FileOf(ts, j, d) = ts[n]
<1> DEFINE S == NamePlaces(ts, j, d)
           c == CHOOSE n \in S : \A m \in S : m <= n
<1>1. FileOf(ts, j, d) = IF S = {} THEN Null ELSE ts[c]
  BY DEF FileOf, NamePlaces
<1>2. \A x \in S : x \in Int
  BY DEF NamePlaces
<1> HIDE DEF S
<1>3. ASSUME NEW n \in S, \A m \in S : m <= n PROVE c = n
  <2>1. c \in S /\ \A m \in S : m <= c
    BY <1>3
  <2> HIDE DEF c
  <2>2. c <= n /\ n <= c /\ c \in Int /\ n \in Int
    BY <1>2, <1>3, <2>1
  <2> QED BY <2>2
<1> HIDE DEF c
<1> QED BY <1>1, <1>3 DEF S

\* The file of a descriptor with one more token.
LEMMA FileStep ==
  ASSUME NEW ts \in Seq(Tok), NEW t \in Tok, NEW j \in Nat, NEW d \in 0..2
  PROVE  FileOf(Append(ts, t), j, d)
           = IF JobOf(Append(ts, t), Len(ts) + 1) = j /\ d \in PendingAfter(ts)
             THEN t ELSE FileOf(ts, j, d)
<1> DEFINE u == Append(ts, t)
           N == Len(ts)
           S == NamePlaces(ts, j, d)
           T == NamePlaces(u, j, d)
<1>1. u \in Seq(Tok) /\ N \in Nat /\ Len(u) = N + 1 /\ u[N + 1] = t
      /\ \A k \in 1..N : u[k] = ts[k]
  BY AppendIs
<1>2. \A n \in 1..N : JobOf(u, n) = JobOf(ts, n) /\ (Names(u, n, d) <=> Names(ts, n, d))
  BY EarlierTokens
<1>3. Names(u, N + 1, d) <=> d \in PendingAfter(ts)
  BY LastToken
<1> HIDE DEF u
<1>4. \A n : n \in S <=> n \in 1..N /\ JobOf(ts, n) = j /\ Names(ts, n, d)
  BY DEF NamePlaces
<1>5. \A n : n \in T <=> n \in 1..N + 1 /\ JobOf(u, n) = j /\ Names(u, n, d)
  BY <1>1 DEF NamePlaces
<1>6. (S = {} => FileOf(ts, j, d) = Null)
      /\ \A n \in S : (\A m \in S : m <= n) => FileOf(ts, j, d) = ts[n]
  BY FileIs
<1>7. (T = {} => FileOf(u, j, d) = Null)
      /\ \A n \in T : (\A m \in T : m <= n) => FileOf(u, j, d) = u[n]
  BY <1>1, FileIs
<1> HIDE DEF S, T, N
<1>8. N + 1 \in 1..N + 1 /\ (\A n \in 1..N + 1 : n <= N + 1)
      /\ \A n : n \in 1..N + 1 /\ n # N + 1 <=> n \in 1..N
  BY <1>1
<1>9. CASE JobOf(u, N + 1) = j /\ d \in PendingAfter(ts)
  <2>1. N + 1 \in T /\ \A m \in T : m <= N + 1
    BY <1>3, <1>5, <1>8, <1>9
  <2>2. FileOf(u, j, d) = t
    BY <1>1, <1>7, <2>1
  <2> QED BY <1>9, <2>2 DEF u, N
<1>10. CASE ~ (JobOf(u, N + 1) = j /\ d \in PendingAfter(ts))
  <2>1. N + 1 \notin T
    BY <1>3, <1>5, <1>10
  <2>2. T = S
    BY <1>2, <1>4, <1>5, <1>8, <2>1
  <2>3. FileOf(u, j, d) = FileOf(ts, j, d)
    <3>1. CASE S = {}
      BY <1>6, <1>7, <2>2, <3>1
    <3>2. CASE S # {}
      <4>0. S \subseteq 1..N
        BY <1>4
      <4>1. PICK n \in S : \A m \in S : m <= n
        BY <1>1, <3>2, <4>0, LastPlace
      <4>2. u[n] = ts[n]
        BY <1>1, <4>0
      <4> QED BY <1>6, <1>7, <2>2, <4>1, <4>2
    <3> QED BY <3>1, <3>2
  <2> QED BY <1>10, <2>3 DEF u, N
<1> QED BY <1>9, <1>10

\* A job with one more token: what TakeToken stores.
LEMMA WrittenStep ==
  ASSUME NEW ts \in Seq(Tok), NEW t \in Tok, NEW j \in Nat
  PROVE  JobWritten(Append(ts, t), j)
           = IF j = JobOf(ts, Len(ts)) + (IF t = "|" THEN 1 ELSE 0)
             THEN Put(PendingAfter(ts), JobWritten(ts, j), t) ELSE JobWritten(ts, j)
<1> DEFINE u == Append(ts, t)
           k == JobOf(ts, Len(ts)) + (IF t = "|" THEN 1 ELSE 0)
           P == PendingAfter(ts)
<1>1. JobOf(u, Len(ts) + 1) = k
  BY LastToken
<1>2. Words(u, j) = IF k = j /\ IsArg(P, t) THEN Append(Words(ts, j), t) ELSE Words(ts, j)
  BY <1>1, WordsStep
<1>3. \A d \in 0..2 : FileOf(u, j, d) = IF k = j /\ d \in P THEN t ELSE FileOf(ts, j, d)
  BY <1>1, FileStep
<1> HIDE DEF u, k, P
<1>4. CASE j = k
  <2>1. [d \in 0..2 |-> FileOf(u, j, d)]
          = [d \in 0..2 |-> IF d \in P THEN t ELSE JobWritten(ts, j).fo[d]]
    BY <1>3, <1>4 DEF JobWritten
  <2>2. Words(u, j) = IF IsArg(P, t) THEN Append(JobWritten(ts, j).argv, t) ELSE JobWritten(ts, j).argv
    BY <1>2, <1>4 DEF JobWritten
  <2> QED BY <1>4, <2>1, <2>2 DEF JobWritten, Put, u, k, P
<1>5. CASE j # k
  <2>1. [d \in 0..2 |-> FileOf(u, j, d)] = [d \in 0..2 |-> FileOf(ts, j, d)]
    BY <1>3, <1>5
  <2>2. Words(u, j) = Words(ts, j)
    BY <1>2, <1>5
  <2> QED BY <1>5, <2>1, <2>2 DEF JobWritten, u, k, P
<1> QED BY <1>4, <1>5

\* Behind the last job there is none.
LEMMA NoneWritten ==
  ASSUME NEW ts \in Seq(Tok), NEW j \in Nat, j > JobOf(ts, Len(ts))
  PROVE  JobWritten(ts, j) = NoJob
<1>0. Len(ts) \in Nat /\ Len(ts) \in 0..Len(ts)
  OBVIOUS
<1>1. \A n \in 1..Len(ts) : JobOf(ts, n) # j
  <2> TAKE n \in 1..Len(ts)
  <2>1. n \in 0..Len(ts) /\ n <= Len(ts)
    OBVIOUS
  <2>2. JobOf(ts, n) <= JobOf(ts, Len(ts)) /\ JobOf(ts, n) \in Nat /\ JobOf(ts, Len(ts)) \in Nat
    BY <1>0, <2>1, JobGrows, JobStep
  <2> QED BY <2>2
<1>2. \A d : FileOf(ts, j, d) = Null
  <2>1. \A d : NamePlaces(ts, j, d) = {}
    BY <1>1 DEF NamePlaces
  <2> QED BY <2>1, FileIs
<1>3. Words(ts, j) = <<>>
  <2> DEFINE W == WordPlaces(ts, j)
  <2>1. W = {}
    BY <1>1 DEF WordPlaces
  <2> HIDE DEF W
  <2>2. \A k \in 0 + 1..Len(ts) : k \notin W
    BY <2>1
  <2>3. 0 \in Nat /\ 0 <= Len(ts)
    BY <1>0
  <2>4. Listed(W, Len(ts)) = Listed(W, 0)
    BY <1>0, <2>2, <2>3, ListedGrows
  <2>5. Listed(W, 0) = <<>>
    BY <2>3, ListedStep
  <2> QED BY <2>4, <2>5 DEF Words, Picked, W
<1>4. [d \in 0..2 |-> FileOf(ts, j, d)] = [d \in 0..2 |-> Null]
  BY <1>2
<1> QED BY <1>3, <1>4 DEF JobWritten, NoJob

\* The words of a job are tokens.
LEMMA WordsType ==
  ASSUME NEW ts \in Seq(Tok), NEW j
  PROVE  Words(ts, j) \in Seq(Tok) /\ Len(Words(ts, j)) \in Nat
<1>1. WordPlaces(ts, j) \subseteq 1..Len(ts) /\ Len(ts) \in Nat
  BY DEF WordPlaces
<1>2. Words(ts, j) \in Seq(Tok)
  BY <1>1, PickedIs DEF Words
<1> QED BY <1>2

----------------------------------------------------------------------------
(* The tokens of a command, as far as they have been looked at.            *)

\* The tokens of the k-th command up to place n.
TokensTo(l, k, n) == Picked(l, Listed(TokenPlaces(l, k), n))

\* Place x is the first of a command; it ends one.
AtStart(l, x) == x = 1 \/ l[x - 1] = ";"
AtEnd(l, x) == x <= Len(l) => l[x] = ";"

\* One more lexeme adds a token if it is one of the command.
LEMMA SeenStep ==
  ASSUME NEW l \in Seq(Tok), NEW k, NEW n \in Nat
  PROVE  /\ TokensTo(l, k, n) \in Seq(Tok)
         /\ TokensTo(l, k, 0) = <<>>
         /\ n + 1 \in TokenPlaces(l, k) => TokensTo(l, k, n + 1) = Append(TokensTo(l, k, n), l[n + 1])
         /\ n + 1 \notin TokenPlaces(l, k) => TokensTo(l, k, n + 1) = TokensTo(l, k, n)
<1>1. TokenPlaces(l, k) \subseteq 1..Len(l)
  BY DEF TokenPlaces
<1> QED BY <1>1, PickedIs DEF TokensTo

\* A command has no tokens in front of its first place.
LEMMA SeenNone ==
  ASSUME NEW l \in Seq(Tok), NEW x \in 1..Len(l), AtStart(l, x)
  PROVE  TokensTo(l, CommandOf(l, x), x - 1) = <<>>
<1> DEFINE k == CommandOf(l, x)
           S == TokenPlaces(l, k)
<1>0. x - 1 \in Nat /\ x \in Nat \ {0} /\ Len(l) \in Nat
  OBVIOUS
<1>1. \A m \in 0 + 1..x - 1 : m \notin S
  <2> SUFFICES ASSUME NEW m \in 0 + 1..x - 1 PROVE CommandOf(l, m) # k
    BY DEF TokenPlaces
  <2> DEFINE y == x - 1
  <2>1. x # 1 /\ y \in Nat \ {0} /\ m \in Nat \ {0} /\ m <= y /\ y + 1 = x /\ y \in 1..Len(l)
    BY <1>0
  <2>2. l[y] = ";"
    BY <2>1 DEF AtStart
  <2> HIDE DEF y, k
  <2>3. CommandOf(l, y + 1) = CommandOf(l, y) + 1 /\ CommandOf(l, y) \in Nat
    BY <2>1, <2>2, CommandStep
  <2>4. CommandOf(l, m) <= CommandOf(l, y) /\ CommandOf(l, m) \in Nat
    BY <2>1, CommandGrows, CommandStep
  <2>5. k = CommandOf(l, y + 1)
    BY <2>1 DEF k
  <2> QED BY <2>3, <2>4, <2>5
<1> HIDE DEF k, S
<1>2. 0 \in Nat /\ 0 <= x - 1
  BY <1>0
<1>3. Listed(S, x - 1) = Listed(S, 0)
  BY <1>0, <1>1, <1>2, ListedGrows
<1>4. TokensTo(l, k, x - 1) = TokensTo(l, k, 0)
  BY <1>3 DEF TokensTo, S
<1>5. TokensTo(l, k, 0) = <<>>
  BY <1>2, SeenStep
<1> QED BY <1>4, <1>5 DEF k

\* At the end of a command all its tokens have been seen.
LEMMA SeenAll ==
  ASSUME NEW l \in Seq(Tok), NEW x \in 1..Len(l) + 1, AtEnd(l, x)
  PROVE  TokensTo(l, CommandOf(l, x), x - 1) = Tokens(l, CommandOf(l, x))
<1> DEFINE k == CommandOf(l, x)
           S == TokenPlaces(l, k)
           N == Len(l)
<1>0. x - 1 \in Nat /\ x \in Nat \ {0} /\ N \in Nat /\ x - 1 <= N
  OBVIOUS
<1>1. ASSUME NEW m \in (x - 1) + 1..N PROVE m \notin S
  <2>0. x <= N /\ x \in 1..N /\ m \in Nat \ {0} /\ (m # x => x + 1 <= m)
        /\ x + 1 \in Nat \ {0}
    BY <1>0
  <2>1. l[x] = ";"
    BY <2>0 DEF AtEnd
  <2>2. CASE m = x
    BY <2>1, <2>2 DEF TokenPlaces
  <2>3. CASE m # x
    <3> HIDE DEF k
    <3>1. CommandOf(l, x + 1) = CommandOf(l, x) + 1 /\ CommandOf(l, x) \in Nat
      BY <1>0, <2>0, <2>1, CommandStep
    <3>2. CommandOf(l, x + 1) <= CommandOf(l, m) /\ CommandOf(l, m) \in Nat
      BY <1>0, <2>0, <2>3, CommandGrows, CommandStep
    <3>3. CommandOf(l, m) # k
      BY <3>1, <3>2 DEF k
    <3> QED BY <3>3 DEF TokenPlaces
  <2> QED BY <2>2, <2>3
<1> HIDE DEF k, S
<1>2. Listed(S, N) = Listed(S, x - 1)
  BY <1>0, <1>1, ListedGrows
<1> QED BY <1>2 DEF TokensTo, Tokens, S, k

\* Further tokens take no job and no word away.
LEMMA SeenGrows ==
  ASSUME NEW l \in Seq(Tok), NEW k, NEW m \in Nat, NEW n \in Nat, m <= n, NEW j \in Nat
  PROVE  LET a == TokensTo(l, k, m)  b == TokensTo(l, k, n) IN
         /\ JobOf(a, Len(a)) <= JobOf(b, Len(b))
         /\ Len(Words(a, j)) <= Len(Words(b, j))
<1> DEFINE T(x) == TokensTo(l, k, x)
           J(x) == JobOf(T(x), Len(T(x)))
           W(x) == Len(Words(T(x), j))
           Good(x) == J(m) <= J(x) /\ W(m) <= W(x)
           R == {x \in Nat : x >= m => Good(x)}
<1>0. \A x \in Nat : T(x) \in Seq(Tok)
  BY SeenStep
<1>1. \A x \in Nat : J(x) \in Nat /\ W(x) \in Nat
  <2> TAKE x \in Nat
  <2>1. T(x) \in Seq(Tok)
    BY <1>0
  <2> HIDE DEF T
  <2>2. Len(T(x)) \in 0..Len(T(x))
    BY <2>1
  <2> QED BY <2>1, <2>2, JobStep, WordsType
<1>2. Good(m)
  <2>1. J(m) \in Nat /\ W(m) \in Nat
    BY <1>1
  <2> HIDE DEF J, W
  <2> QED BY <2>1
<1>3. 0 \in R
  <2>1. 0 >= m => m = 0
    OBVIOUS
  <2> HIDE DEF Good
  <2> QED BY <1>2, <2>1
<1>4. ASSUME NEW x \in Nat, x \in R PROVE x + 1 \in R
  <2>0. x + 1 \in Nat
    OBVIOUS
  <2> SUFFICES ASSUME x + 1 >= m PROVE Good(x + 1)
    <3> HIDE DEF Good
    <3> QED BY <2>0
  <2>1. CASE x + 1 = m
    <3> HIDE DEF Good
    <3> QED BY <1>2, <2>1
  <2>2. CASE x + 1 # m
    <3>1. x >= m
      BY <2>2
    <3>2. Good(x)
      <4> HIDE DEF Good
      <4> QED BY <1>4, <3>1
    <3>3. J(x) <= J(x + 1) /\ W(x) <= W(x + 1)
      <4>1. CASE x + 1 \notin TokenPlaces(l, k)
        <5>1. T(x + 1) = T(x)
          BY <4>1, SeenStep
        <5>2. J(x + 1) = J(x) /\ W(x + 1) = W(x)
          BY <5>1
        <5>3. J(x) \in Nat /\ W(x) \in Nat
          BY <1>1
        <5> HIDE DEF J, W
        <5> QED BY <5>2, <5>3
      <4>2. CASE x + 1 \in TokenPlaces(l, k)
        <5> DEFINE ts == T(x)
                   t == l[x + 1]
                   u == Append(ts, t)
        <5>1. T(x + 1) = u /\ ts \in Seq(Tok) /\ t \in Tok
          <6>1. x + 1 \in 1..Len(l)
            BY <4>2 DEF TokenPlaces
          <6>2. l[x + 1] \in Tok
            BY <6>1
          <6> QED BY <4>2, <6>2, SeenStep
        <5> HIDE DEF ts, t, T
        <5>2. Len(u) = Len(ts) + 1 /\ u \in Seq(Tok)
          BY <5>1, AppendIs
        <5>3. JobOf(u, Len(ts) + 1) = JobOf(ts, Len(ts)) + (IF t = "|" THEN 1 ELSE 0)
          BY <5>1, LastToken
        <5>4. J(x) = JobOf(ts, Len(ts)) /\ J(x + 1) = JobOf(u, Len(ts) + 1)
          BY <5>1, <5>2 DEF ts
        <5>5. W(x) <= W(x + 1)
          <6>1. W(x) = Len(Words(ts, j)) /\ W(x + 1) = Len(Words(u, j))
            BY <5>1 DEF ts
          <6>2. Words(u, j) = Words(ts, j) \/ Words(u, j) = Append(Words(ts, j), t)
            BY <5>1, WordsStep
          <6>3. Words(ts, j) \in Seq(Tok)
            BY <5>1, WordsType
          <6>4. Len(Append(Words(ts, j), t)) = Len(Words(ts, j)) + 1 /\ Len(Words(ts, j)) \in Nat
            BY <5>1, <6>3, AppendIs
          <6> HIDE DEF W, u
          <6> QED BY <6>1, <6>2, <6>4
        <5>6. J(x) <= J(x + 1)
          <6> HIDE DEF J, u
          <6>1. J(x) \in Nat
            BY <1>1
          <6> QED BY <5>3, <5>4, <6>1
        <5> QED BY <5>5, <5>6
      <4> QED BY <4>1, <4>2
    <3> HIDE DEF J, W
    <3>4. J(m) \in Nat /\ J(x) \in Nat /\ J(x + 1) \in Nat
          /\ W(m) \in Nat /\ W(x) \in Nat /\ W(x + 1) \in Nat
      BY <1>1, <2>0
    <3>5. J(m) <= J(x + 1)
      BY <3>2, <3>3, <3>4
    <3>6. W(m) <= W(x + 1)
      BY <3>2, <3>3, <3>4
    <3> QED BY <3>5, <3>6
  <2> QED BY <2>1, <2>2
<1>5. \A x \in Nat : x \in R
  <2> HIDE DEF R
  <2> QED BY <1>3, <1>4, SetInduction
<1>6. Good(n)
  <2> HIDE DEF Good
  <2> QED BY <1>5
<1> QED BY <1>6

----------------------------------------------------------------------------
(* The invariant.                                                          *)

\* The tokens of the current command that have been taken.
Seen == TokensTo(line, Len(ran) + 1, it - 1)

TypeInv ==
  /\ line \in Seq(Tok) /\ it \in 1..Len(line) + 1 /\ reads \in Nat
  /\ \E R : ran \in Seq(R)
  /\ reads > 0 => line # <<>>
  /\ pc \in {"prompt", "system", "tokens", "ended", "crashed", "overrun"}
  /\ pc \in {"system", "tokens"} => reads > 0

\* The commands carried out are those in front of it.
PlaceInv ==
  /\ pc = "prompt" /\ reads > 0 => Len(ran) = NumCommands(line)
  /\ pc = "system" /\ it <= Len(line) => CommandOf(line, it) = Len(ran) + 1 /\ AtStart(line, it)
  /\ pc = "system" /\ it > Len(line) => Len(ran) = NumCommands(line)
  /\ pc = "tokens" => CommandOf(line, it) = Len(ran) + 1
  /\ pc = "tokens" /\ it > Len(line) => line[Len(line)] # ";"

\* The jobs, their number and the pending descriptors are those of the tokens taken.
ParseInv ==
  pc = "tokens" =>
    /\ jobcnt = JobOf(Seen, Len(Seen)) /\ pre = PendingAfter(Seen)
    /\ jobs = [j \in 1..MaxJobs |-> JobWritten(Seen, j)]
    /\ \A j \in Nat : j > MaxJobs => JobWritten(Seen, j) = NoJob

RanInv == \A k \in 1..Len(ran) : ran[k].jobs = AsWritten(Tokens(line, k))

ShellInv == TypeInv /\ PlaceInv /\ ParseInv /\ RanInv /\ FailsOnlyOutOfBounds

\* The invariant contains the property.
LEMMA InvCommands == ShellInv => CommandsAsWritten
BY DEF ShellInv, PlaceInv, RanInv, CommandsAsWritten

\* It holds before the first line.
LEMMA InvBegins == Init => ShellInv
<1> SUFFICES ASSUME Init PROVE ShellInv
  OBVIOUS
<1>1. <<>> \in Seq(Tok) /\ Len(<<>>) = 0 /\ 1 \in 1..0 + 1
  OBVIOUS
<1>2. pc = "prompt" /\ line = <<>> /\ it = 1 /\ ran = <<>> /\ reads = 0
  BY DEF Init
<1>3. TypeInv
  BY <1>1, <1>2 DEF TypeInv
<1>4. RanInv
  <2>1. 1..Len(ran) = {}
    BY <1>1, <1>2
  <2> QED BY <2>1 DEF RanInv
<1>5. PlaceInv /\ ParseInv /\ FailsOnlyOutOfBounds
  BY <1>2 DEF PlaceInv, ParseInv, FailsOnlyOutOfBounds
<1> QED BY <1>3, <1>4, <1>5 DEF ShellInv

\* What the invariant says of a command in progress.
LEMMA ParseFacts ==
  ASSUME ShellInv, pc = "tokens"
  PROVE  /\ Len(ran) \in Nat /\ it \in Nat \ {0} /\ it - 1 \in Nat /\ Len(line) \in Nat
         /\ Seen \in Seq(Tok) /\ Len(Seen) \in Nat
         /\ jobcnt \in Nat \ {0} /\ jobcnt = JobOf(Seen, Len(Seen))
         /\ \A j \in 1..MaxJobs : jobs[j] = JobWritten(Seen, j)
         /\ Current = AsWritten(Seen)
<1>1. Len(ran) \in Nat
  <2>1. PICK R : ran \in Seq(R)
    BY DEF ShellInv, TypeInv
  <2> QED BY <2>1
<1>2. line \in Seq(Tok) /\ it \in 1..Len(line) + 1 /\ Len(line) \in Nat
  BY DEF ShellInv, TypeInv
<1>3. it \in Nat \ {0} /\ it - 1 \in Nat
  BY <1>2
<1>4. Seen \in Seq(Tok)
  BY <1>2, <1>3, SeenStep DEF Seen
<1>5. Len(Seen) \in Nat /\ Len(Seen) \in 0..Len(Seen)
  BY <1>4
<1>6. jobcnt = JobOf(Seen, Len(Seen)) /\ jobs = [j \in 1..MaxJobs |-> JobWritten(Seen, j)]
      /\ \A j \in Nat : j > MaxJobs => JobWritten(Seen, j) = NoJob
  BY DEF ShellInv, ParseInv
<1>7. jobcnt \in Nat \ {0}
  BY <1>4, <1>5, <1>6, JobStep
<1>8. \A j \in 1..MaxJobs : jobs[j] = JobWritten(Seen, j)
  BY <1>6
<1>9. \A j \in 1..jobcnt : (IF j <= MaxJobs THEN jobs[j] ELSE NoJob) = JobWritten(Seen, j)
  <2> TAKE j \in 1..jobcnt
  <2>1. j \in Nat /\ (j <= MaxJobs => j \in 1..MaxJobs) /\ (~ (j <= MaxJobs) => j > MaxJobs)
    BY <1>7, ShellAssumption
  <2> QED BY <1>6, <1>8, <2>1
<1>10. Current = [j \in 1..jobcnt |-> JobWritten(Seen, j)]
  BY <1>9 DEF Current
<1>11. Current = AsWritten(Seen)
  BY <1>6, <1>10 DEF AsWritten, JobWritten
<1> QED BY <1>1, <1>2, <1>3, <1>4, <1>5, <1>6, <1>7, <1>8, <1>11

\* At the end of a command the jobs are those that are written.
LEMMA WholeCommand ==
  ASSUME ShellInv, TokensDone
  PROVE  /\ Seen = Tokens(line, Len(ran) + 1)
         /\ Current = AsWritten(Tokens(line, Len(ran) + 1))
<1>1. pc = "tokens" /\ EndOfCommand
  BY DEF TokensDone
<1>2. CommandOf(line, it) = Len(ran) + 1 /\ line \in Seq(Tok) /\ it \in 1..Len(line) + 1
  BY <1>1 DEF ShellInv, PlaceInv, TypeInv
<1>3. AtEnd(line, it)
  BY <1>1 DEF EndOfCommand, AtEnd
<1>4. Seen = Tokens(line, Len(ran) + 1)
  BY <1>2, <1>3, SeenAll DEF Seen
<1>5. Current = AsWritten(Seen)
  BY <1>1, ParseFacts
<1> QED BY <1>4, <1>5

----------------------------------------------------------------------------
(* The steps.                                                              *)

\* A line that fdgets delivers.
LEMMA LineIs ==
  ASSUME NEW n \in 1..Len(Lines), NEW l \in Lines[n]
  PROVE  l \in Seq(Tok) /\ l # <<>> /\ Len(l) \in Nat /\ 1 <= Len(l)
<1>1. Lines[n] \subseteq Seq(STRING)
  BY ShellAssumption
<1>2. l \in Seq(STRING) /\ l # <<>> /\ \A m \in 1..Len(l) : l[m] # Null
  BY <1>1, ShellAssumption
<1>3. \A m \in 1..Len(l) : l[m] \in Tok
  <2>1. \A m \in 1..Len(l) : l[m] \in STRING
    BY <1>2
  <2> QED BY <1>2, <2>1 DEF Tok
<1>4. l = [m \in 1..Len(l) |-> l[m]] /\ Len(l) \in Nat
  BY <1>2
<1>5. l \in Seq(Tok)
  BY <1>3, <1>4
<1>6. Len(l) # 0
  BY <1>2
<1> QED BY <1>2, <1>4, <1>5, <1>6

\* fdgets delivers a line.
LEMMA ReadLineKeeps == ASSUME ShellInv, ReadLine PROVE ShellInv'
<1>1. /\ reads \in Nat /\ reads + 1 \in 1..Len(Lines) /\ line' \in Lines[reads + 1]
      /\ it' = 1 /\ ran' = <<>> /\ reads' = reads + 1 /\ pc' = "system"
  <2>1. reads \in Nat /\ reads < Len(Lines) /\ Len(Lines) \in Nat
    BY ShellAssumption DEF ShellInv, TypeInv, ReadLine
  <2>2. reads + 1 \in 1..Len(Lines)
    BY <2>1
  <2> QED BY <2>1, <2>2 DEF ReadLine
<1>2. line' \in Seq(Tok) /\ line' # <<>> /\ Len(line') \in Nat /\ 1 <= Len(line')
  BY <1>1, LineIs
<1>3. Len(ran') = 0 /\ ran' \in Seq(Tok) /\ 1..Len(ran') = {}
  BY <1>1
<1>4. TypeInv'
  <2>1. it' \in 1..Len(line') + 1 /\ reads' \in Nat /\ reads' > 0
    BY <1>1, <1>2
  <2> QED BY <1>1, <1>2, <1>3, <2>1 DEF TypeInv
<1>5. PlaceInv'
  <2>0. 1 \in Nat \ {0}
    OBVIOUS
  <2>1. CommandOf(line', 1) = 1
    <3>1. line' \in Seq(Tok)
      BY <1>2
    <3> QED BY <2>0, <3>1, CommandStep
  <2>2. ~ (1 > Len(line')) /\ 1 = Len(ran') + 1
    BY <1>2, <1>3
  <2> QED BY <1>1, <2>1, <2>2 DEF PlaceInv, AtStart
<1>6. ParseInv' /\ RanInv' /\ FailsOnlyOutOfBounds'
  BY <1>1, <1>3 DEF ParseInv, RanInv, FailsOnlyOutOfBounds
<1> QED BY <1>4, <1>5, <1>6 DEF ShellInv

\* system_single begins.
LEMMA StartKeeps == ASSUME ShellInv, Start PROVE ShellInv'
<1>1. /\ pc = "system" /\ it <= Len(line) /\ pc' = "tokens" /\ line' = line /\ it' = it
      /\ ran' = ran /\ reads' = reads /\ jobs' = NoJobs /\ jobcnt' = 1 /\ pre' = {}
  BY DEF Start, session
<1>2. line \in Seq(Tok) /\ it \in 1..Len(line) /\ reads > 0
      /\ CommandOf(line, it) = Len(ran) + 1 /\ AtStart(line, it)
  BY <1>1 DEF ShellInv, TypeInv, PlaceInv
<1>3. Seen' = <<>>
  <2>1. TokensTo(line, Len(ran) + 1, it - 1) = <<>>
    BY <1>2, SeenNone
  <2> QED BY <1>1, <2>1 DEF Seen
<1>4. <<>> \in Seq(Tok) /\ Len(<<>>) = 0 /\ 0 \in 0..Len(<<>>)
  OBVIOUS
<1>5. JobOf(<<>>, 0) = 1
  BY <1>4, JobStep
<1>6. \A j \in Nat : JobWritten(<<>>, j) = NoJob
  <2> TAKE j \in Nat
  <2>1. CASE j > 1
    BY <1>4, <1>5, <2>1, NoneWritten
  <2>2. CASE ~ (j > 1)
    <3>1. \A d : NamePlaces(<<>>, j, d) = {}
      BY <1>4 DEF NamePlaces
    <3>2. \A d : FileOf(<<>>, j, d) = Null
      BY <1>4, <3>1, FileIs
    <3>3. Words(<<>>, j) = <<>>
      <4>1. Listed(WordPlaces(<<>>, j), 0) = <<>>
        BY ListedStep
      <4> QED BY <1>4, <4>1 DEF Words, Picked
    <3>4. [d \in 0..2 |-> FileOf(<<>>, j, d)] = [d \in 0..2 |-> Null]
      BY <3>2
    <3> QED BY <3>3, <3>4 DEF JobWritten, NoJob
  <2> QED BY <2>1, <2>2
<1>7. ParseInv'
  <2>1. PendingAfter(<<>>) = {}
    BY DEF PendingAfter
  <2>2. \A j \in 1..MaxJobs : j \in Nat
    BY ShellAssumption
  <2>3. NoJobs = [j \in 1..MaxJobs |-> JobWritten(<<>>, j)]
    BY <1>6, <2>2 DEF NoJobs
  <2> QED BY <1>1, <1>3, <1>4, <1>5, <1>6, <2>1, <2>3 DEF ParseInv
<1>8. TypeInv'
  BY <1>1, <1>2 DEF ShellInv, TypeInv
<1>9. PlaceInv'
  <2>1. ~ (it > Len(line))
    BY <1>2
  <2> QED BY <1>1, <1>2, <2>1 DEF PlaceInv
<1>10. RanInv' /\ FailsOnlyOutOfBounds'
  BY <1>1 DEF ShellInv, RanInv, FailsOnlyOutOfBounds
<1> QED BY <1>7, <1>8, <1>9, <1>10 DEF ShellInv

\* system returns, and the end of the input.
LEMMA PromptKeeps == ASSUME ShellInv, EndOfLine \/ EndOfInput PROVE ShellInv'
<1>1. /\ pc' \in {"prompt", "ended"} /\ line' = line /\ it' = it /\ ran' = ran /\ reads' = reads
      /\ pc' = "prompt" => pc = "system" /\ it > Len(line)
  BY DEF EndOfLine, EndOfInput, session
<1>2. TypeInv'
  BY <1>1 DEF ShellInv, TypeInv
<1>3. PlaceInv'
  BY <1>1 DEF ShellInv, PlaceInv
<1>4. ParseInv' /\ RanInv' /\ FailsOnlyOutOfBounds'
  BY <1>1 DEF ShellInv, ParseInv, RanInv, FailsOnlyOutOfBounds
<1> QED BY <1>2, <1>3, <1>4 DEF ShellInv

\* The lexeme at it belongs to the current command and does not end it.
LEMMA InCommand ==
  ASSUME ShellInv, pc = "tokens", ~ EndOfCommand
  PROVE  /\ line \in Seq(Tok) /\ it \in 1..Len(line) /\ line[it] \in Tok /\ line[it] # ";"
         /\ Len(line) \in Nat /\ it \in Nat \ {0} /\ it - 1 \in Nat /\ (it - 1) + 1 = it
         /\ (it + 1) - 1 = it /\ it + 1 \in 1..Len(line) + 1
         /\ CommandOf(line, it) = Len(ran) + 1 /\ CommandOf(line, it + 1) = Len(ran) + 1
         /\ it + 1 > Len(line) => line[Len(line)] # ";"
         /\ it \in TokenPlaces(line, Len(ran) + 1) <=> line[it] # " "
<1>1. line \in Seq(Tok) /\ it \in 1..Len(line) + 1 /\ CommandOf(line, it) = Len(ran) + 1
  BY DEF ShellInv, TypeInv, PlaceInv
<1>0. it <= Len(line)
  BY DEF EndOfCommand
<1>2. line[it] # ";"
  BY DEF EndOfCommand
<1>3. Len(line) \in Nat /\ it \in 1..Len(line) /\ it \in Nat \ {0}
  BY <1>0, <1>1
<1>4. line[it] \in Tok
  BY <1>1, <1>3
<1>5. it - 1 \in Nat /\ (it - 1) + 1 = it /\ (it + 1) - 1 = it /\ it + 1 \in 1..Len(line) + 1
  BY <1>3
<1>6. CommandOf(line, it + 1) = Len(ran) + 1
  <2>1. CommandOf(line, it + 1) = CommandOf(line, it) + 0 /\ CommandOf(line, it) \in Nat
    BY <1>1, <1>2, <1>3, CommandStep
  <2> QED BY <1>1, <2>1
<1>7. it + 1 > Len(line) => it = Len(line)
  BY <1>3
<1>8. it \in TokenPlaces(line, Len(ran) + 1) <=> line[it] # " "
  BY <1>1, <1>2, <1>3 DEF TokenPlaces
<1>9. it + 1 > Len(line) => line[Len(line)] # ";"
  BY <1>2, <1>7
<1> QED BY <1>1, <1>2, <1>3, <1>4, <1>5, <1>6, <1>8, <1>9

\* One lexeme further.
LEMMA FurtherKeeps ==
  ASSUME ShellInv, pc = "tokens", ~ EndOfCommand, it' = it + 1, pc' = "tokens",
         line' = line, ran' = ran, reads' = reads
  PROVE  /\ TypeInv' /\ PlaceInv' /\ RanInv' /\ FailsOnlyOutOfBounds'
         /\ Seen' = IF line[it] = " " THEN Seen ELSE Append(Seen, line[it])
<1>1. TypeInv'
  <2>1. it' \in 1..Len(line') + 1
    BY InCommand
  <2> QED BY <2>1 DEF ShellInv, TypeInv
<1>2. PlaceInv'
  BY InCommand DEF PlaceInv
<1>3. RanInv' /\ FailsOnlyOutOfBounds'
  BY DEF ShellInv, RanInv, FailsOnlyOutOfBounds
<1> DEFINE k == Len(ran) + 1
           n == it - 1
<1>4. Seen' = TokensTo(line, k, n + 1) /\ Seen = TokensTo(line, k, n)
  <2>1. it' - 1 = n + 1
    BY InCommand
  <2> QED BY <2>1 DEF Seen
<1>5. n \in Nat /\ n + 1 = it /\ line \in Seq(Tok) /\ (it \in TokenPlaces(line, k) <=> line[it] # " ")
  BY InCommand
<1> HIDE DEF n, k
<1>6. /\ n + 1 \in TokenPlaces(line, k) => TokensTo(line, k, n + 1) = Append(TokensTo(line, k, n), line[n + 1])
      /\ n + 1 \notin TokenPlaces(line, k) => TokensTo(line, k, n + 1) = TokensTo(line, k, n)
  BY <1>5, SeenStep
<1>7. Seen' = IF line[it] = " " THEN Seen ELSE Append(Seen, line[it])
  BY <1>4, <1>5, <1>6
<1> QED BY <1>1, <1>2, <1>3, <1>7

\* A blank is skipped.
LEMMA SkipBlanksKeeps == ASSUME ShellInv, SkipBlanks PROVE ShellInv'
<1>1. /\ pc = "tokens" /\ ~ EndOfCommand /\ line[it] = " " /\ it' = it + 1 /\ pc' = "tokens"
      /\ line' = line /\ ran' = ran /\ reads' = reads
      /\ jobs' = jobs /\ jobcnt' = jobcnt /\ pre' = pre
  BY DEF SkipBlanks, session
<1>2. TypeInv' /\ PlaceInv' /\ RanInv' /\ FailsOnlyOutOfBounds' /\ Seen' = Seen
  BY <1>1, FurtherKeeps
<1>3. ParseInv'
  BY <1>1, <1>2 DEF ShellInv, ParseInv
<1> QED BY <1>2, <1>3 DEF ShellInv

\* A token is taken: its job gets what the token is written for.
LEMMA TakeTokenKeeps == ASSUME ShellInv, TakeToken PROVE ShellInv'
<1> DEFINE t == line[it]
           ts == Seen
           u == Append(ts, t)
           J == Target(t)
<1>1. /\ pc = "tokens" /\ ~ EndOfCommand /\ t # " " /\ it' = it + 1 /\ pc' = "tokens"
      /\ line' = line /\ ran' = ran /\ reads' = reads /\ InBounds(t)
      /\ jobs' = (IF Writes(t) THEN [jobs EXCEPT ![J] = Stored(@, t)] ELSE jobs)
      /\ jobcnt' = J /\ pre' = Pending(t)
  BY DEF TakeToken, IsToken, session
<1>2. TypeInv' /\ PlaceInv' /\ RanInv' /\ FailsOnlyOutOfBounds' /\ Seen' = u
  BY <1>1, FurtherKeeps
<1>3. ts \in Seq(Tok) /\ t \in Tok /\ Len(ts) \in Nat /\ jobcnt \in Nat \ {0}
      /\ jobcnt = JobOf(ts, Len(ts))
  BY <1>1, InCommand, ParseFacts
<1>4. pre = PendingAfter(ts) /\ jobs = [j \in 1..MaxJobs |-> JobWritten(ts, j)]
      /\ \A j \in Nat : j > MaxJobs => JobWritten(ts, j) = NoJob
  BY <1>1 DEF ShellInv, ParseInv
<1>5. J = JobOf(ts, Len(ts)) + (IF t = "|" THEN 1 ELSE 0) /\ J \in Nat /\ 1 <= J
  BY <1>3 DEF Target
<1>6. (Writes(t) => J <= MaxJobs) /\ (Writes(t) <=> pre # {} \/ IsArg(pre, t))
  BY <1>1 DEF InBounds, Writes, IsArgument, IsArg
<1>7. \A job : Stored(job, t) = Put(pre, job, t)
  BY DEF Stored, Put, IsArgument, IsArg
<1> HIDE DEF t, ts, J
<1>8. \A j \in Nat : JobWritten(u, j) = IF j = J THEN Put(pre, JobWritten(ts, j), t) ELSE JobWritten(ts, j)
  BY <1>3, <1>4, <1>5, WrittenStep
<1>9. ~ Writes(t) => \A j : Put(pre, JobWritten(ts, j), t) = JobWritten(ts, j)
  <2> SUFFICES ASSUME ~ Writes(t), NEW j PROVE Put(pre, JobWritten(ts, j), t) = JobWritten(ts, j)
    OBVIOUS
  <2>1. pre = {} /\ ~ IsArg(pre, t)
    BY <1>6
  <2>2. [d \in 0..2 |-> IF d \in pre THEN t ELSE JobWritten(ts, j).fo[d]] = [d \in 0..2 |-> FileOf(ts, j, d)]
    BY <2>1 DEF JobWritten
  <2>3. JobWritten(ts, j).argv = Words(ts, j)
    BY DEF JobWritten
  <2> QED BY <2>1, <2>2, <2>3 DEF Put, JobWritten
<1>10. Len(u) = Len(ts) + 1 /\ u[Len(ts) + 1] = t /\ u # <<>>
  BY <1>3, AppendIs
<1>11. jobcnt' = JobOf(u, Len(u))
  <2>1. JobOf(u, Len(ts) + 1) = J
    BY <1>3, <1>5, LastToken
  <2> QED BY <1>1, <1>10, <2>1
<1>12. pre' = PendingAfter(u)
  BY <1>1, <1>10 DEF PendingAfter
<1> HIDE DEF u
<1>13. \A j \in Nat : j > MaxJobs => JobWritten(u, j) = NoJob
  <2> SUFFICES ASSUME NEW j \in Nat, j > MaxJobs PROVE JobWritten(u, j) = NoJob
    OBVIOUS
  <2>1. JobWritten(ts, j) = NoJob
    BY <1>4
  <2>2. j = J => ~ Writes(t)
    BY <1>5, <1>6, ShellAssumption
  <2> QED BY <1>8, <1>9, <2>1, <2>2
<1>14. jobs' = [j \in 1..MaxJobs |-> JobWritten(u, j)]
  <2>0. \A j \in 1..MaxJobs : j \in Nat
    BY ShellAssumption
  <2>1. CASE ~ Writes(t)
    <3>1. \A j \in 1..MaxJobs : JobWritten(u, j) = JobWritten(ts, j)
      BY <1>8, <1>9, <2>0, <2>1
    <3> QED BY <1>1, <1>4, <2>1, <3>1
  <2>2. CASE Writes(t)
    <3>1. J \in 1..MaxJobs
      BY <1>5, <1>6, <2>2, ShellAssumption
    <3>2. jobs' = [j \in 1..MaxJobs |-> IF j = J THEN Put(pre, jobs[J], t) ELSE jobs[j]]
      BY <1>1, <1>4, <1>7, <2>2, <3>1
    <3>3. \A j \in 1..MaxJobs : jobs[j] = JobWritten(ts, j)
      BY <1>4
    <3>4. \A j \in 1..MaxJobs : JobWritten(u, j) = IF j = J THEN Put(pre, jobs[J], t) ELSE jobs[j]
      BY <1>8, <2>0, <3>1, <3>3
    <3> QED BY <3>2, <3>4
  <2> QED BY <2>1, <2>2
<1>15. ParseInv'
  BY <1>2, <1>11, <1>12, <1>13, <1>14 DEF ParseInv
<1> QED BY <1>2, <1>15 DEF ShellInv

\* A state that only pc leaves.
LEMMA HaltKeeps ==
  ASSUME ShellInv, pc' \in {"ended", "crashed", "overrun"},
         line' = line, ran' = ran, reads' = reads, it' = it, FailsOnlyOutOfBounds'
  PROVE  ShellInv'
<1>1. TypeInv'
  BY DEF ShellInv, TypeInv
<1>2. PlaceInv' /\ ParseInv'
  BY DEF PlaceInv, ParseInv
<1>3. RanInv'
  BY DEF ShellInv, RanInv
<1> QED BY <1>1, <1>2, <1>3 DEF ShellInv

\* The command at it, when the shell fails there.
LEMMA FailsWith ==
  ASSUME line' = line, ran' = ran, pc' \in {"crashed", "overrun"},
         LET cmd == AsWritten(Tokens(line, Len(ran) + 1)) IN
           IF pc' = "crashed" THEN cmd[1].argv = <<>>
           ELSE Len(cmd) > MaxJobs \/ \E j \in DOMAIN cmd : Len(cmd[j].argv) >= MaxArgv
  PROVE  FailsOnlyOutOfBounds'
BY DEF FailsOnlyOutOfBounds

\* The jobs of a command.
LEMMA AsWrittenIs ==
  ASSUME NEW ts \in Seq(Tok)
  PROVE  /\ JobOf(ts, Len(ts)) \in Nat \ {0}
         /\ DOMAIN AsWritten(ts) = 1..JobOf(ts, Len(ts))
         /\ Len(AsWritten(ts)) = JobOf(ts, Len(ts))
         /\ \A j \in 1..JobOf(ts, Len(ts)) : AsWritten(ts)[j].argv = Words(ts, j)
<1>1. Len(ts) \in 0..Len(ts)
  OBVIOUS
<1>2. JobOf(ts, Len(ts)) \in Nat \ {0}
  BY <1>1, JobStep
<1> QED BY <1>2 DEF AsWritten

\* A store behind the arrays: the rest of the line has no fewer jobs and arguments.
LEMMA OverrunKeeps == ASSUME ShellInv, Overrun PROVE ShellInv'
<1> DEFINE t == line[it]
           k == Len(ran) + 1
           ts == Seen
           u == Append(ts, t)
           all == Tokens(line, k)
           J == Target(t)
<1>1. /\ pc = "tokens" /\ ~ EndOfCommand /\ t # " " /\ ~ InBounds(t) /\ pc' = "overrun"
      /\ line' = line /\ ran' = ran /\ reads' = reads /\ it' = it
  BY DEF Overrun, IsToken, session
<1>2. ts \in Seq(Tok) /\ t \in Tok /\ jobcnt \in Nat \ {0} /\ jobcnt = JobOf(ts, Len(ts))
      /\ \A j \in 1..MaxJobs : jobs[j] = JobWritten(ts, j)
  BY <1>1, InCommand, ParseFacts
<1>3. /\ line \in Seq(Tok) /\ it \in Nat /\ Len(line) \in Nat /\ it <= Len(line)
      /\ it - 1 \in Nat /\ (it - 1) + 1 = it /\ it \in TokenPlaces(line, k)
  <2>1. line \in Seq(Tok) /\ it \in 1..Len(line) /\ Len(line) \in Nat
        /\ it - 1 \in Nat /\ (it - 1) + 1 = it
    BY <1>1, InCommand
  <2>2. it \in TokenPlaces(line, k)
    BY <1>1, InCommand
  <2>3. it \in Nat /\ it <= Len(line)
    BY <2>1
  <2> QED BY <2>1, <2>2, <2>3
<1>4. TokensTo(line, k, it) = u
  <2> HIDE DEF k
  <2>1. TokensTo(line, k, (it - 1) + 1) = Append(TokensTo(line, k, it - 1), line[(it - 1) + 1])
    BY <1>3, SeenStep
  <2> QED BY <1>3, <2>1 DEF Seen, k
<1>5. all = TokensTo(line, k, Len(line)) /\ all \in Seq(Tok)
  BY <1>3, SeenStep DEF TokensTo, Tokens
<1>6. u \in Seq(Tok) /\ Len(u) = Len(ts) + 1
  BY <1>2, AppendIs
<1>7. J = JobOf(u, Len(u)) /\ J \in Nat \ {0} /\ (t # "|" => J = jobcnt)
  <2>1. JobOf(u, Len(ts) + 1) = JobOf(ts, Len(ts)) + (IF t = "|" THEN 1 ELSE 0)
    BY <1>2, LastToken
  <2> HIDE DEF u
  <2> QED BY <1>2, <1>6, <2>1 DEF Target
<1>8. J > MaxJobs \/ (J \in 1..MaxJobs /\ IsArgument(t) /\ ~ (Len(jobs[J].argv) < MaxArgv))
  <2>1. Writes(t) /\ ~ (J <= MaxJobs /\ (IsArgument(t) => Len(jobs[J].argv) < MaxArgv))
    BY <1>1 DEF InBounds
  <2>2. J \in Nat \ {0}
    BY <1>7
  <2> HIDE DEF J, t
  <2>3. (J <= MaxJobs => J \in 1..MaxJobs) /\ (~ (J <= MaxJobs) => J > MaxJobs)
    BY <2>2, ShellAssumption
  <2> QED BY <2>1, <2>3
<1> HIDE DEF t, k, ts, all, J, u
<1>9. ASSUME NEW j \in Nat
      PROVE  JobOf(u, Len(u)) <= JobOf(all, Len(all)) /\ Len(Words(u, j)) <= Len(Words(all, j))
  BY <1>3, <1>4, <1>5, SeenGrows
<1> DEFINE N == JobOf(all, Len(all))
<1>10. N \in Nat /\ J <= N
  <2>1. 0 \in Nat
    OBVIOUS
  <2>2. JobOf(u, Len(u)) <= N
    BY <1>9, <2>1
  <2> QED BY <1>5, <1>7, <2>2, AsWrittenIs
<1>11. CASE J > MaxJobs
  <2>1. Len(AsWritten(all)) = N
    BY <1>5, AsWrittenIs
  <2> HIDE DEF N
  <2>2. Len(AsWritten(all)) > MaxJobs
    BY <1>7, <1>10, <1>11, <2>1, ShellAssumption
  <2>3. FailsOnlyOutOfBounds'
    BY <1>1, <2>2, FailsWith DEF all, k
  <2> QED BY <1>1, <2>3, HaltKeeps
<1>12. CASE J \in 1..MaxJobs /\ IsArgument(t) /\ ~ (Len(jobs[J].argv) < MaxArgv)
  <2>1. jobs[J].argv = Words(ts, J)
    <3>1. J \in 1..MaxJobs
      BY <1>12
    <3>2. jobs[J] = JobWritten(ts, J)
      BY <1>2, <3>1
    <3>3. JobWritten(ts, J).argv = Words(ts, J)
      BY DEF JobWritten
    <3> QED BY <3>2, <3>3
  <2>2. Words(u, J) = Words(ts, J) \/ Words(u, J) = Append(Words(ts, J), t)
    BY <1>2, <1>7, WordsStep DEF u
  <2>3. Words(ts, J) \in Seq(Tok) /\ Len(Words(ts, J)) \in Nat
    BY <1>2, WordsType
  <2>4. Len(Append(Words(ts, J), t)) = Len(Words(ts, J)) + 1
    BY <1>2, <2>3, AppendIs
  <2>5. Len(Words(u, J)) <= Len(Words(all, J)) /\ Len(Words(all, J)) \in Nat
    BY <1>5, <1>7, <1>9, WordsType
  <2>6. Len(Words(all, J)) >= MaxArgv
    <3>1. Len(Words(ts, J)) >= MaxArgv
      BY <1>12, <2>1, <2>3, ShellAssumption
    <3>2. Len(Words(u, J)) >= MaxArgv /\ Len(Words(u, J)) \in Nat
      BY <2>2, <2>3, <2>4, <3>1, ShellAssumption
    <3> QED BY <2>5, <3>2, ShellAssumption
  <2>7. J \in 1..N
    BY <1>7, <1>10
  <2>8. J \in DOMAIN AsWritten(all) /\ AsWritten(all)[J].argv = Words(all, J)
    BY <1>5, <2>7, AsWrittenIs
  <2>9. FailsOnlyOutOfBounds'
    BY <1>1, <2>6, <2>8, FailsWith DEF all, k
  <2> QED BY <1>1, <2>9, HaltKeeps
<1> QED BY <1>8, <1>11, <1>12

\* The end of a command whose first job has no program.
LEMMA NullProgramKeeps == ASSUME ShellInv, NullProgram PROVE ShellInv'
<1> DEFINE all == Tokens(line, Len(ran) + 1)
<1>1. /\ TokensDone /\ pc = "tokens" /\ Exe = Null /\ pc' = "crashed"
      /\ line' = line /\ ran' = ran /\ reads' = reads /\ it' = it
  BY DEF NullProgram, TokensDone, session
<1>2. Seen = all
  BY <1>1, WholeCommand
<1>3. all \in Seq(Tok) /\ \A j \in 1..MaxJobs : jobs[j] = JobWritten(all, j)
  BY <1>1, <1>2, ParseFacts
<1> HIDE DEF all
<1>4. 1 \in 1..MaxJobs /\ 1 \in Nat
  BY ShellAssumption
<1>5. jobs[1].argv = Words(all, 1)
  <2>1. JobWritten(all, 1).argv = Words(all, 1)
    BY DEF JobWritten
  <2> QED BY <1>3, <1>4, <2>1
<1>6. Words(all, 1) \in Seq(Tok)
  BY <1>3, <1>4, WordsType
<1>7. Words(all, 1) = <<>>
  <2> DEFINE w == Words(all, 1)
  <2> SUFFICES ASSUME w # <<>> PROVE FALSE
    OBVIOUS
  <2>1. w[1] = Null
    BY <1>1, <1>5 DEF Exe
  <2> HIDE DEF w
  <2>2. w \in Seq(Tok)
    BY <1>6 DEF w
  <2>3. w[1] \in Tok
    BY <2>2
  <2> QED BY <2>1, <2>3 DEF Tok
<1>8. AsWritten(all)[1].argv = <<>>
  <2>1. JobOf(all, Len(all)) \in Nat \ {0}
    BY <1>3, AsWrittenIs
  <2>2. 1 \in 1..JobOf(all, Len(all))
    BY <2>1
  <2> QED BY <1>3, <1>7, <2>2, AsWrittenIs
<1>9. FailsOnlyOutOfBounds'
  BY <1>1, <1>8, FailsWith DEF all
<1> QED BY <1>1, <1>9, HaltKeeps

\* exec_single looks behind the arrays.
LEMMA ExecOverrunKeeps == ASSUME ShellInv, ExecOverrun PROVE ShellInv'
<1> DEFINE all == Tokens(line, Len(ran) + 1)
<1>1. /\ TokensDone /\ pc = "tokens" /\ pc' = "overrun"
      /\ line' = line /\ ran' = ran /\ reads' = reads /\ it' = it
      /\ jobcnt > MaxJobs \/ \E j \in 1..jobcnt : Len(Current[j].argv) = MaxArgv
  BY DEF ExecOverrun, TokensDone, session
<1>2. Seen = all /\ Current = AsWritten(all)
  BY <1>1, WholeCommand
<1>3. all \in Seq(Tok) /\ jobcnt = JobOf(all, Len(all))
  BY <1>1, <1>2, ParseFacts
<1> HIDE DEF all
<1>4. Len(AsWritten(all)) = jobcnt /\ DOMAIN AsWritten(all) = 1..jobcnt
  BY <1>3, AsWrittenIs
<1>5. \A n : n = MaxArgv => n >= MaxArgv
  BY ShellAssumption
<1>6. Len(AsWritten(all)) > MaxJobs \/ \E j \in DOMAIN AsWritten(all) : Len(AsWritten(all)[j].argv) >= MaxArgv
  BY <1>1, <1>2, <1>4, <1>5
<1>7. FailsOnlyOutOfBounds'
  BY <1>1, <1>6, FailsWith DEF all
<1> QED BY <1>1, <1>7, HaltKeeps

\* A command that is carried out is the next one of the line, as it is written.
LEMMA CarriedIs ==
  ASSUME ShellInv, TokensDone, NEW kind, Carried(kind), line' = line
  PROVE  RanInv' /\ (\E R : ran' \in Seq(R)) /\ Len(ran') = Len(ran) + 1 /\ Len(ran) \in Nat
<1> DEFINE all == Tokens(line, Len(ran) + 1)
           x == [kind |-> kind, jobs |-> Current]
<1>1. PICK R : ran \in Seq(R)
  BY DEF ShellInv, TypeInv
<1>2. x.jobs = AsWritten(all)
  BY WholeCommand
<1>3. ran' = Append(ran, x)
  BY DEF Carried
<1>4. \A k \in 1..Len(ran) : ran[k].jobs = AsWritten(Tokens(line, k))
  BY DEF ShellInv, RanInv
<1> HIDE DEF x
<1>5. ran \in Seq(R \cup {x}) /\ x \in R \cup {x}
  BY <1>1
<1> DEFINE Q == R \cup {x}
<1>6. ran' \in Seq(Q) /\ Len(ran') = Len(ran) + 1 /\ Len(ran) \in Nat
      /\ ran'[Len(ran) + 1] = x /\ \A k \in 1..Len(ran) : ran'[k] = ran[k]
  <2> HIDE DEF Q
  <2>1. ran \in Seq(Q) /\ x \in Q
    BY <1>5 DEF Q
  <2> QED BY <1>3, <2>1
<1>7. \A k \in 1..Len(ran') : k \in 1..Len(ran) \/ k = Len(ran) + 1
  BY <1>6
<1>8. RanInv'
  <2> SUFFICES ASSUME NEW k \in 1..Len(ran') PROVE ran'[k].jobs = AsWritten(Tokens(line, k))
    BY DEF RanInv
  <2>1. CASE k \in 1..Len(ran)
    BY <1>4, <1>6, <2>1
  <2>2. CASE k = Len(ran) + 1
    BY <1>2, <1>6, <2>2
  <2> QED BY <1>7, <2>1, <2>2
<1> QED BY <1>6, <1>8

\* A built-in that returns, and a pipeline that has ended: the next command begins.
LEMMA CarriedKeeps == ASSUME ShellInv, BuiltIn \/ ExecJob PROVE ShellInv'
<1>1. /\ TokensDone /\ NextCommand /\ pc' = "system" /\ line' = line /\ reads' = reads
      /\ \E kind : Carried(kind)
  BY DEF BuiltIn, ExecJob
<1>2. RanInv' /\ (\E R : ran' \in Seq(R)) /\ Len(ran') = Len(ran) + 1 /\ Len(ran) \in Nat
  BY <1>1, CarriedIs
<1>3. /\ line \in Seq(Tok) /\ it \in 1..Len(line) + 1 /\ reads \in Nat /\ reads > 0 /\ line # <<>>
      /\ CommandOf(line, it) = Len(ran) + 1
  BY <1>1 DEF ShellInv, TypeInv, PlaceInv, TokensDone
<1>4. it' = IF it > Len(line) THEN it ELSE it + 1
  BY <1>1 DEF NextCommand
<1>5. Len(line) \in Nat /\ 1 <= Len(line) /\ it \in Nat \ {0} /\ it <= Len(line) + 1
  <2>1. Len(line) # 0 /\ Len(line) \in Nat
    BY <1>3
  <2> QED BY <1>3, <2>1
<1>6. CASE it > Len(line)
  <2>1. it = Len(line) + 1 /\ it' = it /\ ~ (it' <= Len(line)) /\ it' \in 1..Len(line) + 1
    BY <1>4, <1>5, <1>6
  <2>2. line[Len(line)] # ";"
    BY <1>1, <1>6 DEF ShellInv, PlaceInv, TokensDone
  <2>3. CommandOf(line, Len(line) + 1) = NumCommands(line)
    <3>1. Len(line) \in Nat \ {0}
      BY <1>5
    <3>2. CommandOf(line, Len(line)) \in Nat
          /\ CommandOf(line, Len(line) + 1) = CommandOf(line, Len(line)) + 0
      BY <1>3, <2>2, <3>1, CommandStep
    <3> QED BY <3>2 DEF NumCommands
  <2>4. Len(ran') = NumCommands(line)
    BY <1>2, <1>3, <2>1, <2>3
  <2>5. TypeInv'
    BY <1>1, <1>2, <1>3, <2>1 DEF TypeInv
  <2>6. PlaceInv'
    BY <1>1, <2>1, <2>4 DEF PlaceInv
  <2>7. ParseInv' /\ FailsOnlyOutOfBounds'
    BY <1>1 DEF ParseInv, FailsOnlyOutOfBounds
  <2> QED BY <1>2, <2>5, <2>6, <2>7 DEF ShellInv
<1>7. CASE ~ (it > Len(line))
  <2>1. it' = it + 1 /\ it \in 1..Len(line) /\ it' \in 1..Len(line) + 1 /\ it <= Len(line)
        /\ it' - 1 = it /\ (it' > Len(line) => it = Len(line))
    BY <1>4, <1>5, <1>7
  <2>2. line[it] = ";"
    BY <1>1, <2>1 DEF TokensDone, EndOfCommand
  <2>3. CommandOf(line, it + 1) = Len(ran') + 1
    <3>1. CommandOf(line, it + 1) = CommandOf(line, it) + 1
      BY <1>3, <1>5, <2>1, <2>2, CommandStep
    <3> QED BY <1>2, <1>3, <3>1
  <2>4. AtStart(line, it')
    BY <2>1, <2>2 DEF AtStart
  <2>5. it' > Len(line) => Len(ran') = NumCommands(line)
    <3>1. Len(ran') = CommandOf(line, it)
      BY <1>2, <1>3
    <3> QED BY <2>1, <3>1 DEF NumCommands
  <2>6. TypeInv'
    BY <1>1, <1>2, <1>3, <2>1 DEF TypeInv
  <2>7. PlaceInv'
    <3>1. CommandOf(line, it') = Len(ran') + 1
      BY <2>1, <2>3
    <3> QED BY <1>1, <2>4, <2>5, <3>1 DEF PlaceInv
  <2>8. ParseInv' /\ FailsOnlyOutOfBounds'
    BY <1>1 DEF ParseInv, FailsOnlyOutOfBounds
  <2> QED BY <1>2, <2>6, <2>7, <2>8 DEF ShellInv
<1> QED BY <1>6, <1>7

\* exit and q.
LEMMA ExitKeeps == ASSUME ShellInv, Exit PROVE ShellInv'
<1>1. /\ TokensDone /\ Carried("exit") /\ pc' = "ended" /\ line' = line /\ reads' = reads /\ it' = it
  BY DEF Exit
<1>2. RanInv' /\ \E R : ran' \in Seq(R)
  BY <1>1, CarriedIs
<1>3. TypeInv'
  BY <1>1, <1>2 DEF ShellInv, TypeInv
<1>4. PlaceInv' /\ ParseInv' /\ FailsOnlyOutOfBounds'
  BY <1>1 DEF PlaceInv, ParseInv, FailsOnlyOutOfBounds
<1> QED BY <1>2, <1>3, <1>4 DEF ShellInv

\* A step that changes nothing.
LEMMA StutterKeeps == ASSUME ShellInv, UNCHANGED vars PROVE ShellInv'
BY DEF vars, ShellInv, TypeInv, PlaceInv, ParseInv, Seen, RanInv, FailsOnlyOutOfBounds

\* Every step keeps the invariant.
LEMMA ShellStep == ShellInv /\ [Next]_vars => ShellInv'
<1> SUFFICES ASSUME ShellInv, [Next]_vars PROVE ShellInv'
  OBVIOUS
<1>1. CASE ReadLine
  BY <1>1, ReadLineKeeps
<1>2. CASE EndOfInput \/ EndOfLine
  BY <1>2, PromptKeeps
<1>3. CASE Start
  BY <1>3, StartKeeps
<1>4. CASE SkipBlanks
  BY <1>4, SkipBlanksKeeps
<1>5. CASE TakeToken
  BY <1>5, TakeTokenKeeps
<1>6. CASE Overrun
  BY <1>6, OverrunKeeps
<1>7. CASE NullProgram
  BY <1>7, NullProgramKeeps
<1>8. CASE BuiltIn \/ ExecJob
  BY <1>8, CarriedKeeps
<1>9. CASE Exit
  BY <1>9, ExitKeeps
<1>10. CASE ExecOverrun
  BY <1>10, ExecOverrunKeeps
<1>11. CASE UNCHANGED vars
  BY <1>11, StutterKeeps
<1> QED
  BY <1>1, <1>2, <1>3, <1>4, <1>5, <1>6, <1>7, <1>8, <1>9, <1>10, <1>11 DEF Next, Work, Stopped

\* The invariant holds in every state of the shell.
LEMMA ShellAlways == Spec => []ShellInv
BY InvBegins, ShellStep, PTL DEF Spec

\* For every input, and for arrays of every size: system and system_single carry out
\* the commands of a line in their order, each with the jobs, arguments and
\* redirections that stand in the line, and return only after the last one.
THEOREM LineCommandsCarriedOut == Spec => []CommandsAsWritten
BY ShellAlways, InvCommands, PTL

\* For every input: system_single reads through a null pointer only at a command whose
\* first job has no program, and leaves jobs or argv only at a command with more than
\* MaxJobs jobs or with MaxArgv arguments in one of them.
THEOREM ShellFailsOnlyOutOfBounds == Spec => []FailsOnlyOutOfBounds
<1>1. ShellInv => FailsOnlyOutOfBounds
  BY DEF ShellInv
<1> QED BY <1>1, ShellAlways, PTL
============================================================================
