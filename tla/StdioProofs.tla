---------------------------- MODULE StdioProofs ----------------------------
(***************************************************************************)
(* Proofs about tlibc/stdio.c: LineReader, for a queue and a caller's      *)
(* buffer of any size and streams of any bytes and any length, and Format, *)
(* for any format strings, arguments, widths of int and long and buffer.   *)
(*                                                                         *)
(* ReaderInv adds to the two properties what fdgets relies on: the bytes   *)
(* the running call has copied hold no NUL, and a newline among them is    *)
(* the last one and has the NUL that ends the loop behind it; and they     *)
(* stand together, before those in the queue, in all that was read, as     *)
(* long as the call has lost no read in its middle.                        *)
(*                                                                         *)
(* FormatInv says of the output so far what TextKept says of all of it,    *)
(* and that each conversion's characters are still those Put gave; what    *)
(* those characters show is a matter of the digit loop alone.              *)
(***************************************************************************)
EXTENDS LineReader, Format, Induction, SequenceTheorems, TLAPS

TypeInv ==
  /\ input \in Seq(Bytes) /\ queue \in Seq(Bytes) /\ fetched \in Seq(Bytes)
  /\ arrived \in Seq(Bytes) /\ gap \in BOOLEAN
  /\ delivered \in Seq(Bytes) /\ last \in Seq(Bytes)
  /\ start \in Nat /\ end \in Nat /\ pos \in Nat /\ dst \in [0..DstSize - 1 -> Bytes]
  /\ pc \in {"caller", "fill", "copy", "test", "eof", "overrun"}

QueueInv == start <= end /\ end < Size /\ end <= Len(queue)

\* What the running call has copied.
CopiedInv ==
  /\ pc \in {"fill", "copy", "test", "eof"} =>
       pos < DstSize /\ \A j \in 0..pos - 1 : dst[j] # NUL
  /\ pc \in {"fill", "copy", "eof"} => \A j \in 0..pos - 1 : dst[j] # NL
  /\ pc = "test" => \A j \in 0..pos - 1 : dst[j] = NL => j = pos - 1 /\ dst[pos] = NUL

\* Where the copied bytes stand in the stream.
PlaceInv ==
  /\ Piece(<<>>)
  /\ pc \in {"fill", "copy", "test"} /\ ~gap => Piece(Current)

ReaderInv ==
  /\ TypeInv /\ QueueInv /\ CopiedInv
  /\ StreamPreserved /\ LinesKeptApart /\ PlaceInv

----------------------------------------------------------------------------
(* NonNul                                                                  *)

\* The empty sequence, and a sequence with a byte more, are sequences of bytes.
LEMMA SeqFacts ==
  /\ <<>> \in Seq(Bytes)
  /\ \A x \in Seq(Bytes), b \in Bytes : Append(x, b) \in Seq(Bytes)
OBVIOUS

\* f[n] is what copy_buf copies of the first n bytes of s.
Copies(f, s) ==
  f = [n \in 0..Len(s) |->
         IF n = 0 THEN <<>>
         ELSE IF s[n] = NUL THEN f[n - 1] ELSE Append(f[n - 1], s[n])]

\* The same, value by value.
CopiesBytes(f, s) ==
  /\ f[0] = <<>> /\ \A n \in 0..Len(s) : f[n] \in Seq(Bytes)
  /\ \A n \in 1..Len(s) : f[n] = IF s[n] = NUL THEN f[n - 1] ELSE Append(f[n - 1], s[n])

\* The recursion of NonNul defines a function.
LEMMA CopiesExists ==
  ASSUME NEW s \in Seq(Bytes)
  PROVE  \E f : Copies(f, s)
<1> DEFINE B == Seq(Bytes)
           h == [k \in Nat |-> [x \in B |->
                  IF k \in 1..Len(s) /\ s[k] # NUL THEN Append(x, s[k]) ELSE x]]
<1>1. PICK g : DefinedBy(g, <<>>, h)
  <2> HIDE DEF h
  <2> QED BY RecursionExists
<1>2. /\ g[0] = <<>>
      /\ \A n \in Nat : g[n + 1] = h[n + 1][g[n]]
  <2> HIDE DEF h
  <2>1. g = [k \in Nat |-> IF k = 0 THEN <<>> ELSE h[k][g[k - 1]]]
    BY <1>1 DEF DefinedBy
  <2>2. g[0] = <<>>
    BY <2>1
  <2>3. ASSUME NEW n \in Nat PROVE g[n + 1] = h[n + 1][g[n]]
    <3>1. n + 1 \in Nat /\ n + 1 # 0 /\ (n + 1) - 1 = n
      OBVIOUS
    <3> QED BY <2>1, <3>1
  <2> QED BY <2>2, <2>3
<1>3. \A n \in Nat : g[n] \in B
  <2> DEFINE T == {n \in Nat : g[n] \in B}
  <2>1. 0 \in T
    <3>1. g[0] \in B
      BY <1>2, SeqFacts
    <3> QED BY <3>1
  <2>2. ASSUME NEW n \in Nat, n \in T PROVE n + 1 \in T
    <3>1. g[n] \in B /\ n + 1 \in Nat
      BY <2>2
    <3>2. g[n + 1] = IF n + 1 \in 1..Len(s) /\ s[n + 1] # NUL
                     THEN Append(g[n], s[n + 1]) ELSE g[n]
      BY <1>2, <3>1
    <3>3. n + 1 \in 1..Len(s) => s[n + 1] \in Bytes
      OBVIOUS
    <3>4. g[n + 1] \in B
      <4> HIDE DEF h
      <4> QED BY <3>1, <3>2, <3>3, SeqFacts
    <3> QED BY <3>4
  <2> HIDE DEF T
  <2>3. \A n \in Nat : n \in T
    BY <2>1, <2>2, SetInduction
  <2> QED BY <2>3 DEF T
<1> DEFINE f == [n \in 0..Len(s) |-> g[n]]
<1>4. ASSUME NEW n \in 0..Len(s)
      PROVE  f[n] = IF n = 0 THEN <<>>
                    ELSE IF s[n] = NUL THEN f[n - 1] ELSE Append(f[n - 1], s[n])
  <2>1. CASE n = 0
    BY <1>2, <2>1
  <2>2. CASE n # 0
    <3> DEFINE m == n - 1
    <3>1. m \in Nat /\ m + 1 = n /\ m \in 0..Len(s) /\ n \in 1..Len(s) /\ m \in Nat
      BY <2>2
    <3> HIDE DEF m
    <3>2. g[n] = h[n][g[m]] /\ g[m] \in B
      BY <1>2, <1>3, <3>1
    <3>3. g[n] = IF s[n] # NUL THEN Append(g[m], s[n]) ELSE g[m]
      BY <3>1, <3>2
    <3>4. f[n] = g[n] /\ f[m] = g[m] /\ m = n - 1
      BY <3>1
    <3> QED BY <2>2, <3>3, <3>4
  <2> QED BY <2>1, <2>2
<1>5. f = [n \in 0..Len(s) |-> f[n]]
  OBVIOUS
<1> HIDE DEF f
<1>6. Copies(f, s)
  BY <1>4, <1>5 DEF Copies
<1> QED BY <1>6

\* What the recursion gives, value by value.
LEMMA CopiesValues ==
  ASSUME NEW s \in Seq(Bytes), NEW f, Copies(f, s)
  PROVE  CopiesBytes(f, s)
<1>1. f[0] = <<>>
  BY DEF Copies
<1>2. ASSUME NEW n \in 1..Len(s)
      PROVE  f[n] = IF s[n] = NUL THEN f[n - 1] ELSE Append(f[n - 1], s[n])
  <2>1. n \in 0..Len(s) /\ n # 0
    OBVIOUS
  <2> QED BY <2>1 DEF Copies
<1> DEFINE T == {n \in Nat : n <= Len(s) => f[n] \in Seq(Bytes)}
<1>3. 0 \in T
  <2>1. f[0] \in Seq(Bytes)
    BY <1>1, SeqFacts
  <2> QED BY <2>1
<1>4. ASSUME NEW n \in Nat, n \in T PROVE n + 1 \in T
  <2> SUFFICES ASSUME n + 1 <= Len(s) PROVE f[n + 1] \in Seq(Bytes)
    OBVIOUS
  <2>1. n + 1 \in 1..Len(s) /\ f[n] \in Seq(Bytes) /\ (n + 1) - 1 = n /\ s[n + 1] \in Bytes
    BY <1>4
  <2>2. f[n + 1] = IF s[n + 1] = NUL THEN f[n] ELSE Append(f[n], s[n + 1])
    BY <1>2, <2>1
  <2> QED BY <2>1, <2>2
<1> HIDE DEF T
<1>5. \A n \in Nat : n \in T
  BY <1>3, <1>4, SetInduction
<1>6. \A n \in 0..Len(s) : f[n] \in Seq(Bytes)
  BY <1>5 DEF T
<1> QED BY <1>1, <1>2, <1>6 DEF CopiesBytes

\* NonNul(s) is the last value of the recursion over s.
LEMMA NonNulIs ==
  ASSUME NEW s \in Seq(Bytes)
  PROVE  \E f : CopiesBytes(f, s) /\ NonNul(s) = f[Len(s)]
<1> DEFINE f == CHOOSE f : Copies(f, s)
<1>1. Copies(f, s)
  BY CopiesExists
<1>2. NonNul(s) = f[Len(s)]
  BY DEF NonNul, Copies
<1> HIDE DEF f
<1>3. CopiesBytes(f, s)
  BY <1>1, CopiesValues
<1> QED BY <1>2, <1>3

\* Two functions that copy the same bytes are the same.
LEMMA CopiesUnique ==
  ASSUME NEW s, NEW t, NEW f, NEW g, CopiesBytes(f, s), CopiesBytes(g, t), NEW m \in Nat,
         s \in Seq(Bytes), t \in Seq(Bytes), m <= Len(s), m <= Len(t),
         \A k \in 1..m : s[k] = t[k]
  PROVE  f[m] = g[m]
<1> DEFINE T == {n \in Nat : n <= m => f[n] = g[n]}
<1>1. 0 \in T
  BY DEF CopiesBytes
<1>2. ASSUME NEW n \in Nat, n \in T PROVE n + 1 \in T
  <2> SUFFICES ASSUME n + 1 <= m PROVE f[n + 1] = g[n + 1]
    OBVIOUS
  <2>1. n + 1 \in 1..Len(s) /\ n + 1 \in 1..Len(t) /\ n + 1 \in 1..m /\ (n + 1) - 1 = n
        /\ f[n] = g[n]
    BY <1>2
  <2> QED BY <2>1 DEF CopiesBytes
<1> HIDE DEF T
<1>3. \A n \in Nat : n \in T
  BY <1>1, <1>2, SetInduction
<1> QED BY <1>3 DEF T

\* The copied bytes hold no NUL and are no more than the bytes looked at.
LEMMA NonNulType ==
  ASSUME NEW s \in Seq(Bytes)
  PROVE  /\ NonNul(s) \in Seq(Bytes) /\ Len(NonNul(s)) <= Len(s)
         /\ \A k \in 1..Len(NonNul(s)) : NonNul(s)[k] # NUL
<1>1. PICK f : CopiesBytes(f, s) /\ NonNul(s) = f[Len(s)]
  BY NonNulIs
<1> DEFINE Good(x, n) == Len(x) <= n /\ \A k \in 1..Len(x) : x[k] # NUL
           T == {n \in Nat : n <= Len(s) => Good(f[n], n)}
<1>2. 0 \in T
  <2>1. f[0] = <<>> /\ Len(<<>>) = 0
    BY <1>1 DEF CopiesBytes
  <2> QED BY <2>1
<1>3. ASSUME NEW n \in Nat, n \in T PROVE n + 1 \in T
  <2> SUFFICES ASSUME n + 1 <= Len(s) PROVE Good(f[n + 1], n + 1)
    OBVIOUS
  <2>1. n + 1 \in 1..Len(s) /\ (n + 1) - 1 = n /\ s[n + 1] \in Bytes /\ n \in 0..Len(s)
    OBVIOUS
  <2>2. f[n] \in Seq(Bytes) /\ Good(f[n], n)
        /\ f[n + 1] = IF s[n + 1] = NUL THEN f[n] ELSE Append(f[n], s[n + 1])
    BY <1>1, <1>3, <2>1 DEF CopiesBytes
  <2> DEFINE x == f[n]
             y == f[n + 1]
             b == s[n + 1]
  <2>3. x \in Seq(Bytes) /\ b \in Bytes /\ Good(x, n)
        /\ y = IF b = NUL THEN x ELSE Append(x, b)
    BY <2>1, <2>2
  <2> HIDE DEF x, y, b
  <2>4. CASE b = NUL
    BY <2>3, <2>4 DEF y
  <2>5. CASE b # NUL
    <3>1. y = Append(x, b)
      BY <2>3, <2>5
    <3>2. Len(y) = Len(x) + 1 /\ \A k \in 1..Len(x) + 1 : y[k] = IF k <= Len(x) THEN x[k] ELSE b
      BY <2>3, <3>1
    <3>3. Good(y, n + 1)
      BY <2>3, <2>5, <3>2
    <3> QED BY <3>3 DEF y
  <2> QED BY <2>4, <2>5
<1> HIDE DEF T
<1>4. \A n \in Nat : n \in T
  BY <1>2, <1>3, SetInduction
<1>5. Good(f[Len(s)], Len(s)) /\ Len(s) \in 0..Len(s)
  BY <1>4 DEF T
<1>6. f[Len(s)] \in Seq(Bytes)
  BY <1>1, <1>5 DEF CopiesBytes
<1> QED BY <1>1, <1>5, <1>6

\* Where no newline is looked at, none is copied.
LEMMA NonNulNoNewline ==
  ASSUME NEW s \in Seq(Bytes), NEW f, CopiesBytes(f, s), NEW m \in Nat, m <= Len(s),
         \A k \in 1..m : s[k] # NL
  PROVE  \A k \in 1..Len(f[m]) : f[m][k] # NL
<1> DEFINE Good(x) == \A k \in 1..Len(x) : x[k] # NL
           T == {n \in Nat : n <= m => Good(f[n])}
<1>2. 0 \in T
  <2>1. f[0] = <<>> /\ Len(<<>>) = 0
    BY DEF CopiesBytes
  <2> QED BY <2>1
<1>3. ASSUME NEW n \in Nat, n \in T PROVE n + 1 \in T
  <2> SUFFICES ASSUME n + 1 <= m PROVE Good(f[n + 1])
    OBVIOUS
  <2>1. n + 1 \in 1..Len(s) /\ (n + 1) - 1 = n /\ s[n + 1] \in Bytes /\ n \in 0..Len(s)
        /\ n + 1 \in 1..m
    OBVIOUS
  <2>2. f[n] \in Seq(Bytes) /\ Good(f[n])
        /\ f[n + 1] = IF s[n + 1] = NUL THEN f[n] ELSE Append(f[n], s[n + 1])
    BY <1>3, <2>1 DEF CopiesBytes
  <2> DEFINE x == f[n]
             y == f[n + 1]
             b == s[n + 1]
  <2>3. x \in Seq(Bytes) /\ b \in Bytes /\ Good(x) /\ b # NL
        /\ y = IF b = NUL THEN x ELSE Append(x, b)
    BY <2>1, <2>2
  <2> HIDE DEF x, y, b
  <2>4. CASE b = NUL
    BY <2>3, <2>4 DEF y
  <2>5. CASE b # NUL
    <3>1. y = Append(x, b)
      BY <2>3, <2>5
    <3>2. Len(y) = Len(x) + 1 /\ \A k \in 1..Len(x) + 1 : y[k] = IF k <= Len(x) THEN x[k] ELSE b
      BY <2>3, <3>1
    <3>3. Good(y)
      BY <2>3, <2>5, <3>2
    <3> QED BY <3>3 DEF y
  <2> QED BY <2>4, <2>5
<1> HIDE DEF T
<1>4. \A n \in Nat : n \in T
  BY <1>2, <1>3, SetInduction
<1> QED BY <1>4 DEF T

\* A newline at the end of what is looked at, and only there, is copied last; the
\* bytes copied are at least one.
LEMMA NonNulNewline ==
  ASSUME NEW s \in Seq(Bytes), \A k \in 1..Len(s) : s[k] = NL => k = Len(s)
  PROVE  /\ \A k \in 1..Len(NonNul(s)) : NonNul(s)[k] = NL =>
              k = Len(NonNul(s)) /\ Len(s) > 0 /\ s[Len(s)] = NL
         /\ Len(s) > 0 /\ s[Len(s)] = NL => Len(NonNul(s)) > 0
<1>1. PICK f : CopiesBytes(f, s) /\ NonNul(s) = f[Len(s)]
  BY NonNulIs
<1> DEFINE m == Len(s)
<1>2. CASE m = 0 \/ s[m] # NL
  <2>1. \A k \in 1..m : s[k] # NL
    BY <1>2
  <2>2. \A k \in 1..Len(f[m]) : f[m][k] # NL
    BY <1>1, <2>1, NonNulNoNewline
  <2> QED BY <1>1, <1>2, <2>2
<1>3. CASE m # 0 /\ s[m] = NL
  <2> DEFINE l == m - 1
             x == f[l]
             y == f[m]
  <2>1. l \in Nat /\ l <= Len(s) /\ l \in 0..Len(s) /\ m \in 1..Len(s)
        /\ \A k \in 1..l : s[k] # NL
    BY <1>3
  <2>2. y = Append(x, NL) /\ x \in Seq(Bytes)
    BY <1>1, <1>3, <2>1, ReaderAssumption DEF CopiesBytes
  <2>3. \A k \in 1..Len(x) : x[k] # NL
    <3> HIDE DEF l
    <3> QED BY <1>1, <2>1, NonNulNoNewline
  <2> HIDE DEF x, y
  <2>4. Len(y) = Len(x) + 1 /\ \A k \in 1..Len(x) + 1 : y[k] = IF k <= Len(x) THEN x[k] ELSE NL
    BY <2>2, ReaderAssumption
  <2>5. /\ \A k \in 1..Len(y) : y[k] = NL => k = Len(y)
        /\ Len(y) > 0
    BY <2>2, <2>3, <2>4
  <2> QED BY <1>1, <1>3, <2>5 DEF y
<1> QED BY <1>2, <1>3

\* Appending to the second of two pieces.
LEMMA AppendConcat ==
  ASSUME NEW a \in Seq(Bytes), NEW x \in Seq(Bytes), NEW b \in Bytes
  PROVE  Append(a \o x, b) = a \o Append(x, b)
<1> DEFINE p == Append(a \o x, b)
           q == a \o Append(x, b)
<1>1. p \in Seq(Bytes) /\ Len(p) = Len(a) + Len(x) + 1
      /\ \A k \in 1..Len(p) : p[k] = IF k <= Len(a) THEN a[k]
                                   ELSE IF k - Len(a) <= Len(x) THEN x[k - Len(a)] ELSE b
  OBVIOUS
<1>2. q \in Seq(Bytes) /\ Len(q) = Len(a) + Len(x) + 1
      /\ \A k \in 1..Len(q) : q[k] = IF k <= Len(a) THEN a[k]
                                   ELSE IF k - Len(a) <= Len(x) THEN x[k - Len(a)] ELSE b
  OBVIOUS
<1> HIDE DEF p, q
<1>3. p = q
  BY <1>1, <1>2, SeqEqual
<1> QED BY <1>3 DEF p, q

\* What is copied of a sequence is what is copied of its parts.
LEMMA NonNulConcat ==
  ASSUME NEW s \in Seq(Bytes), NEW t \in Seq(Bytes)
  PROVE  NonNul(s \o t) = NonNul(s) \o NonNul(t)
<1> DEFINE u == s \o t
           l == Len(s)
<1>1. u \in Seq(Bytes) /\ Len(u) = l + Len(t) /\ l \in Nat
      /\ (\A k \in 1..l : u[k] = s[k]) /\ \A k \in 1..Len(t) : u[l + k] = t[k]
  OBVIOUS
<1>2. PICK f : CopiesBytes(f, s) /\ NonNul(s) = f[Len(s)]
  BY NonNulIs
<1>3. PICK g : CopiesBytes(g, t) /\ NonNul(t) = g[Len(t)]
  BY NonNulIs
<1> HIDE DEF u
<1>4. PICK e : CopiesBytes(e, u) /\ NonNul(u) = e[Len(u)]
  BY <1>1, NonNulIs
<1>5. e[l] = f[l]
  BY <1>1, <1>2, <1>4, CopiesUnique, SMTT(60)
<1> DEFINE a == f[l]
           T == {n \in Nat : n <= Len(t) => e[l + n] = a \o g[n]}
<1>6. a \in Seq(Bytes)
  BY <1>1, <1>2 DEF CopiesBytes
<1> HIDE DEF a
<1>7. 0 \in T
  <2>1. g[0] = <<>> /\ a \o <<>> = a /\ l + 0 = l
    BY <1>1, <1>3, <1>6, ConcatEmptySeq DEF CopiesBytes
  <2>2. e[l + 0] = a \o g[0]
    BY <1>5, <2>1 DEF a
  <2> QED BY <2>2
<1>8. ASSUME NEW n \in Nat, n \in T PROVE n + 1 \in T
  <2> SUFFICES ASSUME n + 1 <= Len(t) PROVE e[l + (n + 1)] = a \o g[n + 1]
    OBVIOUS
  <2> DEFINE i == l + (n + 1)
  <2>1. i \in 1..Len(u) /\ i - 1 = l + n /\ n + 1 \in 1..Len(t) /\ (n + 1) - 1 = n
        /\ n \in 0..Len(t) /\ n <= Len(t)
    BY <1>1
  <2>2. u[i] = t[n + 1] /\ t[n + 1] \in Bytes
    BY <1>1, <2>1
  <2> DEFINE b == t[n + 1]
             x == g[n]
  <2> HIDE DEF i
  <2>3. e[i] = IF b = NUL THEN e[l + n] ELSE Append(e[l + n], b)
    <3>1. e[i] = IF u[i] = NUL THEN e[i - 1] ELSE Append(e[i - 1], u[i])
      BY <1>4, <2>1 DEF CopiesBytes
    <3> QED BY <2>1, <2>2, <3>1
  <2>4. g[n + 1] = (IF b = NUL THEN x ELSE Append(x, b)) /\ x \in Seq(Bytes)
    BY <1>3, <2>1 DEF CopiesBytes
  <2>5. e[l + n] = a \o x
    BY <1>8, <2>1
  <2>6. b \in Bytes
    BY <2>2
  <2> HIDE DEF b, x
  <2>7. Append(a \o x, b) = a \o Append(x, b)
    BY <1>6, <2>4, <2>6, AppendConcat
  <2>8. e[i] = a \o g[n + 1]
    BY <2>3, <2>4, <2>5, <2>7
  <2> QED BY <2>8 DEF i
<1> HIDE DEF T
<1>9. \A n \in Nat : n \in T
  BY <1>7, <1>8, SetInduction
<1>10. e[l + Len(t)] = a \o g[Len(t)]
  <2>1. Len(t) \in Nat
    OBVIOUS
  <2> QED BY <1>9, <2>1 DEF T
<1> QED BY <1>1, <1>2, <1>3, <1>4, <1>10 DEF u, a

\* Nothing is copied of nothing.
LEMMA NonNulEmpty == NonNul(<<>>) = <<>>
<1>1. Len(NonNul(<<>>)) <= 0 /\ NonNul(<<>>) \in Seq(Bytes)
  BY NonNulType, SeqFacts
<1> QED BY <1>1, EmptySeq, LenProperties

----------------------------------------------------------------------------
(* The other helpers.                                                      *)

\* copy_buf stops after the first newline.
LEMMA UpToNewlineIs ==
  ASSUME NEW q \in Seq(Bytes)
  PROVE  \E m \in 0..Len(q) : /\ UpToNewline(q) = SubSeq(q, 1, m)
                              /\ \A k \in 1..m : q[k] = NL => k = m
<1> DEFINE E == {k \in 1..Len(q) : q[k] = NL}
<1>1. CASE E = {}
  <2>1. UpToNewline(q) = q
    BY <1>1 DEF UpToNewline
  <2>2. q = SubSeq(q, 1, Len(q)) /\ Len(q) \in 0..Len(q)
    BY SubSeqFull
  <2>3. \A k \in 1..Len(q) : q[k] # NL
    BY <1>1
  <2> QED BY <2>1, <2>2, <2>3
<1>2. CASE E # {}
  <2> DEFINE m == CHOOSE k \in E : \A j \in E : k <= j
  <2>1. E \subseteq Nat
    OBVIOUS
  <2>2. m \in E /\ \A j \in E : m <= j
    <3> HIDE DEF E
    <3> QED BY <1>2, <2>1, LeastNatural
  <2>3. UpToNewline(q) = SubSeq(q, 1, m)
    BY <1>2 DEF UpToNewline
  <2> HIDE DEF m
  <2>4. m \in 0..Len(q) /\ \A k \in 1..m : q[k] = NL => k = m
    BY <2>2
  <2> QED BY <2>3, <2>4
<1> QED BY <1>1, <1>2

\* A string without NUL that has a NUL behind it is what C code reads.
LEMMA CStringIs ==
  ASSUME NEW d, NEW n \in 0..DstSize - 1, d[n] = NUL, \A j \in 0..n - 1 : d[j] # NUL
  PROVE  CString(d) = [k \in 1..n |-> d[k - 1]]
<1> DEFINE C(k) == (\A j \in 0..k - 1 : d[j] # NUL) /\ (k = DstSize \/ d[k] = NUL)
           c == CHOOSE k \in 0..DstSize : C(k)
<1>1. n \in 0..DstSize /\ C(n)
  BY ReaderAssumption
<1>2. ASSUME NEW k \in 0..DstSize, C(k) PROVE k = n
  <2>1. CASE k < n
    <3>1. k \in 0..n - 1 /\ k # DstSize
      BY <2>1, ReaderAssumption
    <3> QED BY <1>2, <3>1
  <2>2. CASE n < k
    <3>1. n \in 0..k - 1
      BY <2>2
    <3> QED BY <1>2, <3>1
  <2> QED BY <2>1, <2>2, ReaderAssumption
<1>3. c = n
  BY <1>1, <1>2
<1> QED BY <1>3 DEF CString

\* The position in the queue wraps to 0 only at its end.
LEMMA Wraps ==
  ASSUME NEW n \in 0..Size
  PROVE  n % Size = IF n < Size THEN n ELSE 0
BY ReaderAssumption

\* Joining is associative.
LEMMA Regroup3 ==
  ASSUME NEW a \in Seq(Bytes), NEW b \in Seq(Bytes), NEW c \in Seq(Bytes)
  PROVE  a \o (b \o c) = (a \o b) \o c
<1> DEFINE p == a \o (b \o c)
           q == (a \o b) \o c
<1>1. p \in Seq(Bytes) /\ Len(p) = Len(a) + Len(b) + Len(c)
      /\ \A k \in 1..Len(p) : p[k] = IF k <= Len(a) THEN a[k]
                                   ELSE IF k - Len(a) <= Len(b) THEN b[k - Len(a)]
                                   ELSE c[k - Len(a) - Len(b)]
  OBVIOUS
<1>2. q \in Seq(Bytes) /\ Len(q) = Len(a) + Len(b) + Len(c)
      /\ \A k \in 1..Len(q) : q[k] = IF k <= Len(a) THEN a[k]
                                   ELSE IF k - Len(a) <= Len(b) THEN b[k - Len(a)]
                                   ELSE c[k - Len(a) - Len(b)]
  OBVIOUS
<1> HIDE DEF p, q
<1>3. p = q
  BY <1>1, <1>2, SeqEqual
<1> QED BY <1>3 DEF p, q

----------------------------------------------------------------------------
(* Where a line stands in the stream.                                      *)

\* Between, with the bytes before s named.
LEMMA BetweenIf ==
  ASSUME NEW a \in Seq(Bytes), NEW s \in Seq(Bytes), NEW rest \in Seq(Bytes),
         NEW all, all = a \o s \o rest
  PROVE  Between(s, all, rest)
<1> DEFINE k == Len(a)
           b == SubSeq(all, 1, k)
<1>1. all \in Seq(Bytes) /\ k \in Nat /\ k <= Len(all) /\ \A i \in 1..k : all[i] = a[i]
  OBVIOUS
<1>2. b \in Seq(Bytes) /\ Len(b) = k /\ \A i \in 1..k : b[i] = a[i]
  <2>1. k \in 0..Len(all) /\ \A i \in 1..k : all[i] \in Bytes
    BY <1>1
  <2> HIDE DEF k
  <2> QED BY <1>1, <2>1, SubSeqProperties
<1> HIDE DEF b
<1>3. b = a
  BY <1>2, SeqEqual DEF k
<1>4. k \in 0..Len(all)
  BY <1>1
<1>5. SubSeq(all, 1, k) = a
  BY <1>3 DEF b
<1> HIDE DEF k
<1>6. all = SubSeq(all, 1, k) \o s \o rest
  BY <1>5, Zenon
<1> QED BY <1>4, <1>6, Zenon DEF Between

\* The beginning of a stream.
LEMMA PrefixBytes ==
  ASSUME NEW all \in Seq(Bytes), NEW k \in 0..Len(all)
  PROVE  SubSeq(all, 1, k) \in Seq(Bytes)
<1>1. \A i \in 1..k : all[i] \in Bytes
  OBVIOUS
<1> QED BY <1>1, SubSeqProperties

\* The bytes before s.
LEMMA BetweenGives ==
  ASSUME NEW s, NEW all \in Seq(Bytes), NEW rest, Between(s, all, rest)
  PROVE  \E a \in Seq(Bytes) : all = a \o s \o rest
<1>1. PICK k \in 0..Len(all) : all = SubSeq(all, 1, k) \o s \o rest
  BY DEF Between
<1> QED BY <1>1, PrefixBytes

\* Every stream ends in nothing.
LEMMA BetweenNothing ==
  ASSUME NEW all \in Seq(Bytes)
  PROVE  Between(<<>>, all, <<>>)
<1>1. all = all \o <<>> \o <<>>
  BY ConcatEmptySeq
<1> QED BY <1>1, BetweenIf, SeqFacts

\* A line grows by the bytes taken from the queue.
LEMMA BetweenTakes ==
  ASSUME NEW s \in Seq(Bytes), NEW all \in Seq(Bytes), NEW b \in Seq(Bytes),
         NEW rest \in Seq(Bytes), Between(s, all, b \o rest)
  PROVE  Between(s \o b, all, rest)
<1>1. PICK a \in Seq(Bytes) : all = a \o s \o (b \o rest)
  <2>1. PICK k \in 0..Len(all) : all = SubSeq(all, 1, k) \o s \o (b \o rest)
    BY Zenon DEF Between
  <2>2. SubSeq(all, 1, k) \in Seq(Bytes)
    BY PrefixBytes
  <2> QED BY <2>1, <2>2, Zenon
<1> DEFINE e == a \o s
<1>2. e \in Seq(Bytes)
  BY ConcatProperties
<1>3. a \o (s \o b) = e \o b
  BY Regroup3
<1> HIDE DEF e
<1>4. e \o (b \o rest) = (e \o b) \o rest
  BY <1>2, Regroup3
<1>5. all = a \o (s \o b) \o rest
  BY <1>1, <1>3, <1>4 DEF e
<1>6. s \o b \in Seq(Bytes)
  BY ConcatProperties
<1> QED BY <1>5, <1>6, BetweenIf

\* Without the line, what is left is still the end of the stream.
LEMMA BetweenDrops ==
  ASSUME NEW s \in Seq(Bytes), NEW all \in Seq(Bytes), NEW rest \in Seq(Bytes),
         Between(s, all, rest)
  PROVE  Between(<<>>, all, rest)
<1>1. PICK a \in Seq(Bytes) : all = a \o s \o rest
  BY BetweenGives
<1> DEFINE e == a \o s
<1>2. e \in Seq(Bytes)
  BY ConcatProperties
<1> HIDE DEF e
<1>3. e \o <<>> = e
  BY <1>2, ConcatEmptySeq
<1>4. all = e \o <<>> \o rest
  BY <1>1, <1>3 DEF e
<1> QED BY <1>2, <1>4, BetweenIf, SeqFacts

\* A read into an empty queue puts its bytes behind the line.
LEMMA BetweenReads ==
  ASSUME NEW s \in Seq(Bytes), NEW all \in Seq(Bytes), NEW b \in Seq(Bytes),
         Between(s, all, <<>>)
  PROVE  Between(s, all \o b, b)
<1>1. PICK a \in Seq(Bytes) : all = a \o s \o <<>>
  <2>1. PICK k \in 0..Len(all) : all = SubSeq(all, 1, k) \o s \o <<>>
    BY Zenon DEF Between
  <2>2. SubSeq(all, 1, k) \in Seq(Bytes)
    BY PrefixBytes
  <2> QED BY <2>1, <2>2, Zenon
<1>2. a \o s \in Seq(Bytes)
  BY ConcatProperties
<1>3. all = a \o s
  BY <1>1, <1>2, ConcatEmptySeq
<1>4. all \o b = a \o s \o b
  BY <1>3
<1> QED BY <1>4, BetweenIf

----------------------------------------------------------------------------
(* ReaderInv is an invariant.                                              *)

\* The bytes of a part of a sequence, as fill_buf and copy_buf take it.
LEMMA SubSeqIs ==
  ASSUME NEW q \in Seq(Bytes), NEW m \in Nat, NEW n \in Nat, 1 <= m, m <= n + 1, n <= Len(q),
         NEW r, r = SubSeq(q, m, n)
  PROVE  /\ r \in Seq(Bytes) /\ Len(r) = n - m + 1
         /\ \A k \in 1..n - m + 1 : r[k] = q[m + k - 1]
<1>1. \A k \in m..n : q[k] \in Bytes
  OBVIOUS
<1>2. /\ SubSeq(q, m, n) \in Seq(Bytes)
      /\ Len(SubSeq(q, m, n)) = IF m <= n THEN n - m + 1 ELSE 0
      /\ \A i \in 1 .. n - m + 1 : SubSeq(q, m, n)[i] = q[m + i - 1]
  BY <1>1, SubSeqProperties
<1> QED BY <1>2

\* The bytes of two pieces joined.
LEMMA JoinIs ==
  ASSUME NEW a \in Seq(Bytes), NEW b \in Seq(Bytes), NEW l, l = Len(a),
         NEW n, n = l + Len(b)
  PROVE  /\ a \o b \in Seq(Bytes) /\ Len(a \o b) = n
         /\ \A k \in 1..n : (a \o b)[k] = IF k <= l THEN a[k] ELSE b[k - l]
<1>1. /\ Len(a \o b) = Len(a) + Len(b)
      /\ \A k \in 1..Len(a) + Len(b) :
           (a \o b)[k] = IF k <= Len(a) THEN a[k] ELSE b[k - Len(a)]
  OBVIOUS
<1> QED BY <1>1

\* The bytes of the queue that are left.
LEMMA PendingIs ==
  ASSUME TypeInv, QueueInv
  PROVE  /\ Pending \in Seq(Bytes) /\ Len(Pending) = end - start
         /\ \A k \in 1..end - start : Pending[k] = queue[start + k]
         /\ start = end => Pending = <<>>
<1> DEFINE m == start + 1
<1>1. queue \in Seq(Bytes) /\ m \in Nat /\ end \in Nat /\ 1 <= m /\ m <= end + 1
      /\ end <= Len(queue) /\ Pending = SubSeq(queue, m, end)
  BY DEF TypeInv, QueueInv, Pending
<1> HIDE DEF m
<1>2. /\ Pending \in Seq(Bytes) /\ Len(Pending) = end - m + 1
      /\ \A k \in 1..end - m + 1 : Pending[k] = queue[m + k - 1]
  BY <1>1, SubSeqIs
<1>3. start = end => Pending = <<>>
  BY SubSeqEmpty DEF Pending, TypeInv
<1> QED BY <1>2, <1>3 DEF TypeInv, QueueInv, m

\* The bytes the running call has copied.
LEMMA CurrentIs ==
  ASSUME TypeInv, CopiedInv
  PROVE  /\ Current \in Seq(Bytes)
         /\ pc \in {"fill", "copy", "test", "eof"} =>
              Len(Current) = pos /\ \A k \in 1..pos : Current[k] = dst[k - 1]
<1>1. CASE pc \in {"fill", "copy", "test", "eof"}
  <2>1. Current = [k \in 1..pos |-> dst[k - 1]] /\ pos \in Nat /\ pos < DstSize
    BY <1>1 DEF Current, TypeInv, CopiedInv
  <2>2. \A k \in 1..pos : dst[k - 1] \in Bytes
    BY <2>1, ReaderAssumption DEF TypeInv
  <2>3. Current \in [1..pos -> Bytes]
    BY <2>1, <2>2
  <2>4. Current \in Seq(Bytes) /\ Len(Current) = pos
    BY <2>1, <2>3
  <2> QED BY <2>1, <2>4
<1>2. CASE pc \notin {"fill", "copy", "test", "eof"}
  BY <1>2 DEF Current
<1> QED BY <1>1, <1>2

\* Before the first call nothing has been fetched or delivered.
LEMMA ReaderInit == Init => ReaderInv
<1> SUFFICES ASSUME Init PROVE ReaderInv
  OBVIOUS
<1>1. TypeInv /\ QueueInv /\ CopiedInv
  <2>1. input \in Seq(Bytes) /\ <<>> \in Seq(Bytes) /\ NUL \in Bytes /\ 0 < Size
    BY ReaderAssumption DEF Init
  <2>2. gap \in BOOLEAN
    BY Zenon DEF Init
  <2> QED BY <2>1, <2>2 DEF Init, TypeInv, QueueInv, CopiedInv
<1>2. StreamPreserved
  <2>1. Pending = <<>> /\ Current = <<>>
    BY <1>1, PendingIs DEF Init, Current
  <2>2. <<>> \o <<>> \o <<>> = <<>>
    OBVIOUS
  <2> QED BY <2>1, <2>2, NonNulEmpty DEF Init, StreamPreserved
<1>3. Piece(<<>>)
  <2>1. NonNul(arrived) = <<>> /\ NonNul(Pending) = <<>>
    BY <1>1, PendingIs, NonNulEmpty DEF Init
  <2> QED BY <2>1, BetweenNothing, SeqFacts DEF Piece
<1>4. LinesKeptApart /\ PlaceInv
  BY <1>3 DEF Init, LinesKeptApart, PlaceInv
<1> QED BY <1>1, <1>2, <1>4 DEF ReaderInv

\* A read that fills part of the queue adds its bytes to those under way; one that
\* fills the queue completely leaves an empty queue.
LEMMA FillReadsKeeps ==
  ASSUME ReaderInv, FillReads
  PROVE  ReaderInv'
<1>1. PICK got \in 1..Size :
       /\ got <= Len(input)
       /\ queue' = SubSeq(input, 1, got) /\ input' = SubSeq(input, got + 1, Len(input))
       /\ start' = 0 /\ end' = got % Size
       /\ fetched' = fetched \o (IF got < Size THEN queue' ELSE <<>>)
       /\ arrived' = arrived \o queue'
       /\ gap' = (gap \/ (got = Size /\ pos > 0))
  BY DEF FillReads, EndAfterRead
<1>2. pc = "fill" /\ start = end /\ pc' = "copy" /\ UNCHANGED <<dst, pos, last, delivered>>
  BY DEF FillReads
<1>3. TypeInv /\ QueueInv /\ CopiedInv /\ StreamPreserved /\ LinesKeptApart /\ PlaceInv
  BY DEF ReaderInv
<1>4. end' = (IF got < Size THEN got ELSE 0) /\ Size \in Nat /\ 0 < Size
  BY <1>1, Wraps, ReaderAssumption
<1>5. queue' \in Seq(Bytes) /\ Len(queue') = got
  <2>1. \A k \in 1..got : input[k] \in Bytes
    BY <1>1, <1>3 DEF TypeInv
  <2> QED BY <1>1, <1>4, <2>1, SubSeqProperties
<1>6. input' \in Seq(Bytes)
  <2>1. \A k \in got + 1..Len(input) : input[k] \in Bytes
    BY <1>1, <1>3 DEF TypeInv
  <2>2. got + 1 \in Int /\ Len(input) \in Int
    BY <1>1, <1>3, <1>4 DEF TypeInv
  <2>3. SubSeq(input, got + 1, Len(input)) \in Seq(Bytes)
    BY <2>1, <2>2, SubSeqProperties
  <2> QED BY <1>1, <2>3
<1>7. fetched' \in Seq(Bytes) /\ arrived' \in Seq(Bytes) /\ gap' \in BOOLEAN
  BY <1>1, <1>3, <1>5 DEF TypeInv
<1>8. TypeInv' /\ QueueInv'
  BY <1>1, <1>2, <1>3, <1>4, <1>5, <1>6, <1>7 DEF TypeInv, QueueInv
<1>9. CopiedInv'
  BY <1>2, <1>3 DEF CopiedInv
<1>10. Current' = Current /\ Current \in Seq(Bytes) /\ NonNul(Pending) = <<>>
       /\ (got < Size => Pending' = queue') /\ (~ (got < Size) => Pending' = <<>>)
  <2>1. Current' = Current
    BY <1>2 DEF Current
  <2>2. Current \in Seq(Bytes) /\ NonNul(Pending) = <<>>
    BY <1>2, <1>3, CurrentIs, PendingIs, NonNulEmpty
  <2>3. ASSUME got < Size PROVE Pending' = queue'
    <3>1. Pending' = SubSeq(queue', 1, Len(queue'))
      BY <1>1, <1>4, <1>5, <2>3 DEF Pending
    <3> QED BY <1>5, <3>1, SubSeqFull
  <2>4. ASSUME ~ (got < Size) PROVE Pending' = <<>>
    <3>1. Pending' = SubSeq(queue', 1, 0)
      BY <1>1, <1>4, <2>4 DEF Pending
    <3> QED BY <3>1, SubSeqEmpty
  <2> QED BY <2>1, <2>2, <2>3, <2>4
<1>11. StreamPreserved'
  <2> DEFINE dc == delivered \o Current
  <2>1. dc \in Seq(Bytes) /\ delivered' \o Current' = dc
    BY <1>2, <1>3, <1>10 DEF TypeInv
  <2>2. dc \o <<>> = dc
    BY <2>1, ConcatEmptySeq
  <2>3. dc = NonNul(fetched)
    BY <1>2, <1>3, <1>10, <2>2 DEF StreamPreserved
  <2> HIDE DEF dc
  <2>4. fetched = arrived \/ Len(arrived) >= Len(fetched) + Size
    BY <1>3 DEF StreamPreserved
  <2>5. Len(arrived') = Len(arrived) + got /\ Len(arrived) \in Nat /\ Len(fetched) \in Nat
        /\ arrived \in Seq(Bytes) /\ fetched \in Seq(Bytes)
    BY <1>1, <1>3, <1>5 DEF TypeInv
  <2>6. CASE got < Size
    <3>1. fetched' = fetched \o queue'
      BY <1>1, <2>6
    <3>2. NonNul(fetched') = dc \o NonNul(Pending')
      BY <1>3, <1>5, <1>10, <2>3, <2>6, <3>1, NonNulConcat DEF TypeInv
    <3>3. Len(fetched') = Len(fetched) + got
      <4>1. Len(fetched \o queue') = Len(fetched) + Len(queue')
        BY <1>5, <2>5, ConcatProperties
      <4> QED BY <1>5, <3>1, <4>1
    <3>4. CASE fetched = arrived
      <4>1. fetched' = arrived'
        BY <1>1, <3>1, <3>4
      <4> QED BY <1>2, <2>1, <3>2, <4>1 DEF StreamPreserved
    <3>5. CASE Len(arrived) >= Len(fetched) + Size
      <4>1. Len(arrived') >= Len(fetched') + Size
        BY <1>4, <2>5, <3>3, <3>5
      <4> QED BY <1>2, <2>1, <3>2, <4>1 DEF StreamPreserved
    <3> QED BY <2>4, <3>4, <3>5
  <2>7. CASE ~ (got < Size)
    <3>1. NonNul(Pending') = <<>>
      BY <1>10, <2>7, NonNulEmpty
    <3>2. fetched' = fetched
      BY <1>1, <1>3, <2>7, ConcatEmptySeq DEF TypeInv
    <3>3. dc \o NonNul(Pending') = dc
      BY <2>2, <3>1
    <3>4. got = Size
      BY <1>4, <2>7
    <3>5. Len(arrived') >= Len(fetched') + Size
      BY <1>4, <2>4, <2>5, <3>2, <3>4
    <3> QED BY <1>2, <2>1, <2>3, <3>2, <3>3, <3>5 DEF StreamPreserved
  <2> QED BY <2>6, <2>7
<1>12. PlaceInv'
  <2> DEFINE a == NonNul(arrived)
             n == NonNul(queue')
  <2>1. a \in Seq(Bytes) /\ n \in Seq(Bytes) /\ NonNul(arrived') = a \o n
        /\ a \o n \in Seq(Bytes)
    BY <1>1, <1>3, <1>5, NonNulType, NonNulConcat, ConcatProperties DEF TypeInv
  <2>2. Between(<<>>, a, <<>>) /\ (~gap => Between(Current, a, <<>>))
    BY <1>2, <1>3, <1>10 DEF PlaceInv, Piece
  <2> HIDE DEF a, n
  <2>3. CASE got < Size
    <3>1. NonNul(Pending') = n /\ got # Size
      BY <1>4, <1>10, <2>3 DEF n
    <3>3. ~gap' => ~gap
      BY <1>1, <3>1, Zenon
    <3>2. Between(<<>>, a \o n, n) /\ (~gap => Between(Current, a \o n, n))
      BY <1>10, <2>1, <2>2, BetweenReads, SeqFacts
    <3> QED BY <1>10, <2>1, <3>1, <3>2, <3>3 DEF PlaceInv, Piece
  <2>4. CASE ~ (got < Size)
    <3>1. NonNul(Pending') = <<>> /\ got = Size
      BY <1>4, <1>10, <2>4, NonNulEmpty
    <3>2. Between(<<>>, a \o n, <<>>)
      BY <2>1, BetweenNothing
    <3>3. ASSUME ~gap' PROVE Current' = <<>>
      <4>0. ~ (pos > 0)
        BY <1>1, <3>1, <3>3, Zenon
      <4>1. pos = 0
        BY <1>3, <4>0 DEF TypeInv
      <4>2. Current = [k \in 1..0 |-> dst[k - 1]]
        BY <1>2, <4>1 DEF Current
      <4> QED BY <1>10, <4>2
    <3> QED BY <2>1, <3>1, <3>2, <3>3 DEF PlaceInv, Piece
  <2> QED BY <2>3, <2>4
<1>13. LinesKeptApart'
  BY <1>2, <1>3 DEF LinesKeptApart
<1> QED BY <1>8, <1>9, <1>11, <1>12, <1>13 DEF ReaderInv

\* copy_buf moves the bytes up to the first newline from the queue to the caller's
\* buffer, and puts a NUL behind a complete line.
LEMMA CopyKeeps ==
  ASSUME ReaderInv, Copy
  PROVE  ReaderInv'
<1> DEFINE P == Pending
           C == Current
           taken == UpToNewline(P)
           bytes == NonNul(taken)
           line == Len(taken) > 0 /\ taken[Len(taken)] = NL
           w == IF line THEN Append(bytes, NUL) ELSE bytes
<1>1. /\ pc = "copy" /\ start' = (start + Len(taken)) % Size /\ pos' = pos + Len(bytes)
      /\ dst' = Store(dst, pos, w) /\ pc' = (IF pos' < DstSize THEN "test" ELSE "overrun")
      /\ UNCHANGED <<input, queue, end, last, delivered, fetched, arrived, gap>>
  BY DEF Copy, history
<1>2. TypeInv /\ QueueInv /\ CopiedInv /\ StreamPreserved /\ LinesKeptApart /\ PlaceInv
  BY DEF ReaderInv
<1>3. /\ P \in Seq(Bytes) /\ Len(P) = end - start
      /\ \A k \in 1..end - start : P[k] = queue[start + k]
  BY <1>2, PendingIs
<1>4. C \in Seq(Bytes) /\ Len(C) = pos /\ \A k \in 1..pos : C[k] = dst[k - 1]
  BY <1>1, <1>2, CurrentIs
<1> HIDE DEF P, C
<1>5. PICK m \in 0..Len(P) : taken = SubSeq(P, 1, m) /\ \A k \in 1..m : P[k] = NL => k = m
  BY <1>3, UpToNewlineIs
<1>6. /\ taken \in Seq(Bytes) /\ Len(taken) = m
      /\ \A k \in 1..m : taken[k] = P[k]
  <2>1. m \in Nat /\ m <= Len(P) /\ Len(P) \in Nat
    BY <1>3, <1>5
  <2> HIDE DEF taken
  <2>2. /\ taken \in Seq(Bytes) /\ Len(taken) = m - 1 + 1
        /\ \A k \in 1..m - 1 + 1 : taken[k] = P[1 + k - 1]
    BY <1>3, <1>5, <2>1, SubSeqIs
  <2> QED BY <2>1, <2>2
<1> DEFINE rest == SubSeq(P, m + 1, Len(P))
<1>7. P = taken \o rest /\ rest \in Seq(Bytes)
  <2>1. m \in Nat /\ m <= Len(P) /\ Len(P) \in Nat
    BY <1>3, <1>5
  <2>2. 1 \in 1..Len(P) + 1 /\ m \in 1 - 1..Len(P) /\ Len(P) \in m..Len(P)
    BY <2>1
  <2>3. SubSeq(P, 1, m) \o SubSeq(P, m + 1, Len(P)) = SubSeq(P, 1, Len(P))
    BY <1>3, <2>2, ConcatAdjacentSubSeq
  <2>4. SubSeq(P, 1, Len(P)) = P
    BY <1>3, SubSeqFull
  <2>5. rest \in Seq(Bytes)
    <3> DEFINE i == m + 1
    <3>1. i \in Nat /\ 1 <= i /\ i <= Len(P) + 1
      BY <2>1
    <3> HIDE DEF i
    <3>2. SubSeq(P, i, Len(P)) \in Seq(Bytes)
      BY <1>3, <2>1, <3>1, SubSeqIs
    <3> QED BY <3>2 DEF i
  <2> QED BY <1>5, <2>3, <2>4, <2>5
<1>8. start' = start + m /\ start + m <= end /\ end < Size
  <2>1. start + m <= end /\ end < Size /\ start + m \in 0..Size
    BY <1>2, <1>3, <1>5, ReaderAssumption DEF TypeInv, QueueInv
  <2> DEFINE u == start + m
  <2>2. u \in 0..Size /\ u < Size
    BY <1>2, <1>5, <2>1, ReaderAssumption DEF TypeInv
  <2> HIDE DEF u
  <2>3. u % Size = u
    BY <2>2, Wraps
  <2>4. start' = u % Size
    BY <1>1, <1>6 DEF u
  <2> QED BY <2>1, <2>3, <2>4 DEF u
<1>9. Pending' = rest
  <2> DEFINE i == start + m + 1
             j == m + 1
             r == Pending'
  <2>1. i \in Nat /\ 1 <= i /\ i <= end + 1 /\ end \in Nat /\ end <= Len(queue)
        /\ queue \in Seq(Bytes) /\ r = SubSeq(queue, i, end)
    <3>1. m \in Nat /\ start \in Nat /\ end \in Nat /\ start + m <= end
      BY <1>2, <1>3, <1>5, <1>8 DEF TypeInv
    <3>2. i \in Nat /\ 1 <= i /\ i <= end + 1
      BY <3>1
    <3>3. end <= Len(queue) /\ queue \in Seq(Bytes)
      BY <1>2 DEF TypeInv, QueueInv
    <3>4. r = SubSeq(queue, i, end)
      BY <1>1, <1>8 DEF Pending
    <3> QED BY <3>1, <3>2, <3>3, <3>4
  <2>2. j \in Nat /\ 1 <= j /\ j <= Len(P) + 1 /\ Len(P) \in Nat /\ rest = SubSeq(P, j, Len(P))
    BY <1>3, <1>5
  <2> HIDE DEF i, j, r, rest
  <2>3. r \in Seq(Bytes) /\ Len(r) = end - i + 1
        /\ \A k \in 1..end - i + 1 : r[k] = queue[i + k - 1]
    BY <2>1, SubSeqIs
  <2>4. rest \in Seq(Bytes) /\ Len(rest) = Len(P) - j + 1
        /\ \A k \in 1..Len(P) - j + 1 : rest[k] = P[j + k - 1]
    BY <1>3, <2>2, SubSeqIs
  <2>5. Len(r) = Len(rest)
    BY <1>2, <1>3, <2>3, <2>4 DEF i, j, TypeInv
  <2>6. ASSUME NEW k \in 1..Len(r) PROVE r[k] = rest[k]
    <3>1. k \in 1..end - i + 1 /\ k \in 1..Len(P) - j + 1
      BY <2>3, <2>4, <2>5
    <3>2. j + k - 1 \in 1..end - start /\ start + (j + k - 1) = i + k - 1
      BY <1>2, <1>3, <1>5, <3>1 DEF i, j, TypeInv
    <3> QED BY <1>3, <2>3, <2>4, <3>1, <3>2
  <2>7. r = rest
    BY <2>3, <2>4, <2>5, <2>6, SeqEqual
  <2> QED BY <2>7 DEF r
<1>10. /\ bytes \in Seq(Bytes) /\ Len(bytes) <= m
       /\ \A k \in 1..Len(bytes) : bytes[k] # NUL
       /\ \A k \in 1..Len(bytes) : bytes[k] = NL => k = Len(bytes) /\ line
  <2> HIDE DEF taken
  <2>1. \A k \in 1..Len(taken) : taken[k] = NL => k = Len(taken)
    BY <1>5, <1>6
  <2> QED BY <1>6, <2>1, NonNulType, NonNulNewline
<1>11. NonNul(P) = bytes \o NonNul(rest)
  <2> HIDE DEF taken, rest
  <2> QED BY <1>6, <1>7, NonNulConcat
<1> DEFINE X == C \o bytes
           later == NonNul(rest)
<1>12. later \in Seq(Bytes) /\ X \in Seq(Bytes)
  <2> HIDE DEF taken, rest, bytes
  <2> QED BY <1>4, <1>7, <1>10, NonNulType, ConcatProperties
<1>13. NonNul(fetched) = (delivered \o X) \o later
  <2> HIDE DEF later, bytes, taken, rest, line, w, X
  <2>1. NonNul(fetched) = (delivered \o C) \o (bytes \o later)
    BY <1>1, <1>2, <1>11 DEF StreamPreserved, C, P, later
  <2>2. (delivered \o (C \o bytes)) \o later = (delivered \o C) \o (bytes \o later)
    <3> DEFINE D == delivered
    <3>1. D \in Seq(Bytes) /\ C \in Seq(Bytes) /\ bytes \in Seq(Bytes) /\ later \in Seq(Bytes)
      BY <1>2, <1>4, <1>10, <1>12 DEF TypeInv
    <3> HIDE DEF D
    <3>2. (D \o (C \o bytes)) \o later = (D \o C) \o (bytes \o later)
      <4> DEFINE e == D \o C
      <4>1. D \o (C \o bytes) = e \o bytes
        BY <3>1, Regroup3
      <4>2. e \in Seq(Bytes)
        BY <3>1, ConcatProperties
      <4> HIDE DEF e
      <4>3. e \o (bytes \o later) = (e \o bytes) \o later
        BY <3>1, <4>2, Regroup3
      <4> QED BY <4>1, <4>3 DEF e
    <3> QED BY <3>2 DEF D
  <2> QED BY <2>1, <2>2 DEF X
<1> DEFINE all == NonNul(arrived)
<1>22. Between(<<>>, all, later) /\ (~gap => Between(X, all, later))
  <2> HIDE DEF taken, rest, bytes, later
  <2>1. all \in Seq(Bytes)
    BY <1>2, NonNulType DEF TypeInv
  <2>2. Between(<<>>, all, bytes \o later) /\ (~gap => Between(C, all, bytes \o later))
    BY <1>1, <1>2, <1>11 DEF PlaceInv, Piece, P, C, later
  <2> HIDE DEF all
  <2>3. Between(<<>> \o bytes, all, later) /\ <<>> \o bytes \in Seq(Bytes)
    BY <1>10, <1>12, <2>1, <2>2, BetweenTakes, SeqFacts, ConcatProperties
  <2>4. Between(<<>>, all, later)
    BY <1>12, <2>1, <2>3, BetweenDrops
  <2>5. ASSUME ~gap PROVE Between(C \o bytes, all, later)
    BY <1>4, <1>10, <1>12, <2>1, <2>2, <2>5, BetweenTakes
  <2> QED BY <2>4, <2>5
<1> HIDE DEF taken, bytes, line, rest, later, all
<1>14. /\ w \in Seq(Bytes) /\ Len(w) >= Len(bytes) /\ (line => Len(w) = Len(bytes) + 1)
       /\ \A k \in 1..Len(bytes) : w[k] = bytes[k]
       /\ line => w[Len(bytes) + 1] = NUL
       /\ Len(w) <= Len(bytes) + 1
  <2>1. CASE line
    BY <1>10, <2>1, ReaderAssumption
  <2>2. CASE ~ line
    BY <1>10, <2>2
  <2> QED BY <2>1, <2>2
<1> HIDE DEF w
<1>15. /\ dst' \in [0..DstSize - 1 -> Bytes]
       /\ \A k \in 0..DstSize - 1 :
            dst'[k] = IF k \in pos..pos + Len(w) - 1 THEN w[k - pos + 1] ELSE dst[k]
  <2>1. dst \in [0..DstSize - 1 -> Bytes] /\ pos \in Nat
    BY <1>2 DEF TypeInv
  <2>2. dst' = [k \in 0..DstSize - 1 |->
                 IF k \in pos..pos + Len(w) - 1 THEN w[k - pos + 1] ELSE dst[k]]
    BY <1>1, <2>1 DEF Store
  <2>3. ASSUME NEW k \in 0..DstSize - 1, k \in pos..pos + Len(w) - 1
        PROVE  w[k - pos + 1] \in Bytes
    BY <1>14, <2>1, <2>3, ReaderAssumption
  <2> QED BY <2>1, <2>2, <2>3
<1>16. TypeInv' /\ QueueInv'
  BY <1>1, <1>2, <1>8, <1>10, <1>15 DEF TypeInv, QueueInv
<1> DEFINE np == pos'
<1>17. /\ pos \in Nat /\ pos < DstSize /\ np \in Nat /\ np = pos + Len(bytes) /\ Len(bytes) \in Nat
       /\ \A j \in 0..pos - 1 : dst[j] # NUL /\ dst[j] # NL
  BY <1>1, <1>2, <1>10 DEF CopiedInv, TypeInv
<1> HIDE DEF np
<1>18. /\ X \in Seq(Bytes) /\ Len(X) = np
       /\ \A k \in 1..np : X[k] = IF k <= pos THEN C[k] ELSE bytes[k - pos]
  BY <1>4, <1>10, <1>17, JoinIs
<1> HIDE DEF X
<1>19. \A k \in 1..np : X[k] # NUL /\ (X[k] = NL => k = np /\ line)
  <2> SUFFICES ASSUME NEW k \in 1..np PROVE X[k] # NUL /\ (X[k] = NL => k = np /\ line)
    OBVIOUS
  <2>1. CASE k <= pos
    <3>1. k \in 1..pos /\ k - 1 \in 0..pos - 1
      BY <1>17, <2>1
    <3> QED BY <1>4, <1>17, <1>18, <2>1, <3>1
  <2>2. CASE ~ (k <= pos)
    <3>1. k - pos \in 1..Len(bytes) /\ (k - pos = Len(bytes) => k = np)
      BY <1>17, <2>2
    <3> QED BY <1>10, <1>18, <2>2, <3>1
  <2> QED BY <2>1, <2>2
<1>20. CASE np < DstSize
  <2>1. pc' = "test" /\ np \in Nat
    BY <1>1, <1>17, <1>20 DEF np
  <2>2. ASSUME NEW k \in 1..np PROVE dst'[k - 1] = X[k]
    <3>1. k - 1 \in 0..DstSize - 1
      BY <1>20, <2>1, ReaderAssumption
    <3>2. CASE k <= pos
      <4>1. k \in 1..pos /\ k - 1 \notin pos..pos + Len(w) - 1
        BY <1>14, <1>17, <3>2
      <4> QED BY <1>4, <1>15, <1>18, <3>1, <3>2, <4>1
    <3>3. CASE ~ (k <= pos)
      <4>1. k - pos \in 1..Len(bytes) /\ (k - 1) - pos + 1 = k - pos
            /\ k - 1 \in pos..pos + Len(w) - 1
        BY <1>14, <1>17, <3>3
      <4>2. dst'[k - 1] = w[k - pos]
        BY <1>15, <3>1, <4>1
      <4> QED BY <1>14, <1>18, <3>3, <4>1, <4>2
    <3> QED BY <3>2, <3>3
  <2>3. Current' = X
    <3> DEFINE y == [k \in 1..np |-> X[k]]
    <3>1. Current' = [k \in 1..np |-> dst'[k - 1]]
      BY <2>1 DEF Current, np
    <3>2. Current' = y
      BY <2>2, <3>1
    <3>3. y = X
      <4>1. \A k \in 1..np : X[k] \in Bytes
        BY <1>18
      <4>2. y \in Seq(Bytes) /\ Len(y) = np /\ \A k \in 1..np : y[k] = X[k]
        BY <2>1, <4>1
      <4> HIDE DEF y
      <4> QED BY <1>18, <4>2, SeqEqual
    <3> QED BY <3>2, <3>3
  <2>4. StreamPreserved' /\ PlaceInv'
    <3>1. StreamPreserved'
      BY <1>1, <1>2, <1>9, <1>13, <2>1, <2>3 DEF StreamPreserved, later
    <3>2. NonNul(Pending') = later /\ NonNul(arrived') = all /\ gap' = gap
      BY <1>1, <1>9 DEF later, all
    <3>3. PlaceInv'
      BY <1>22, <2>3, <3>2 DEF PlaceInv, Piece
    <3> QED BY <3>1, <3>3
  <2>5. line => dst'[np] = NUL
    <3> SUFFICES ASSUME line PROVE dst'[np] = NUL
      OBVIOUS
    <3>1. np \in 0..DstSize - 1 /\ np \in pos..pos + Len(w) - 1
          /\ np - pos + 1 = Len(bytes) + 1
      BY <1>14, <1>17, <1>20, ReaderAssumption
    <3> QED BY <1>14, <1>15, <3>1
  <2>6. CopiedInv'
    <3>1. ASSUME NEW j \in 0..np - 1
          PROVE  dst'[j] # NUL /\ (dst'[j] = NL => j = np - 1 /\ dst'[np] = NUL)
      <4> DEFINE k == j + 1
      <4>1. k \in 1..np /\ k - 1 = j
        BY <2>1
      <4>2. dst'[j] = X[k]
        BY <2>2, <4>1
      <4>3. k = np => j = np - 1
        BY <4>1
      <4> HIDE DEF k
      <4> QED BY <1>19, <2>5, <4>1, <4>2, <4>3
    <3> QED BY <1>20, <2>1, <3>1 DEF CopiedInv, np
  <2>7. LinesKeptApart'
    BY <1>1, <1>2, <2>1 DEF LinesKeptApart
  <2> QED BY <1>16, <2>4, <2>6, <2>7 DEF ReaderInv
<1>21. CASE ~ (np < DstSize)
  <2>1. pc' = "overrun" /\ np \in Nat /\ np >= DstSize
    BY <1>1, <1>17, <1>21, ReaderAssumption DEF np
  <2>2. StreamPreserved' /\ CopiedInv' /\ PlaceInv'
    <3>1. NonNul(Pending') = later /\ NonNul(arrived') = all /\ gap' = gap
      BY <1>1, <1>9 DEF later, all
    <3> QED BY <1>1, <1>2, <1>22, <2>1, <3>1 DEF StreamPreserved, CopiedInv, PlaceInv, Piece
  <2> DEFINE D == delivered
             l == Len(D)
             f == NonNul(fetched)
             e == D \o X
             i == l + 1
             n == l + np
             r == SubSeq(f, i, n)
  <2>3. D \in Seq(Bytes) /\ f = e \o later
    BY <1>2, <1>13 DEF TypeInv
  <2> HIDE DEF D, f
  <2>4. l \in Nat /\ n \in Nat
    BY <2>1, <2>3
  <2>5. e \in Seq(Bytes) /\ Len(e) = n
        /\ \A k \in 1..n : e[k] = IF k <= l THEN D[k] ELSE X[k - l]
    BY <1>18, <2>3, JoinIs
  <2> HIDE DEF e
  <2>6. f \in Seq(Bytes) /\ n <= Len(f) /\ \A k \in 1..n : f[k] = e[k]
    BY <1>12, <2>3, <2>4, <2>5
  <2> HIDE DEF l
  <2>7. i \in Nat /\ 1 <= i /\ i <= n + 1 /\ n - i + 1 = np
    BY <2>1, <2>4
  <2> HIDE DEF i, n
  <2>8. r \in Seq(Bytes) /\ Len(r) = n - i + 1 /\ \A k \in 1..n - i + 1 : r[k] = f[i + k - 1]
    BY <2>4, <2>6, <2>7, SubSeqIs
  <2> HIDE DEF r
  <2>9. ASSUME NEW k \in 1..np PROVE r[k] = X[k]
    <3>1. i + k - 1 = l + k /\ l + k \in 1..n /\ ~ (l + k <= l) /\ (l + k) - l = k
      BY <2>1, <2>4 DEF i, n
    <3>2. r[k] = f[l + k]
      BY <2>7, <2>8, <3>1
    <3> QED BY <2>5, <2>6, <3>1, <3>2
  <2>10. ASSUME NEW k \in 1..np - 1 PROVE r[k] # NL
    <3>1. k \in 1..np /\ k # np
      BY <2>1
    <3> QED BY <1>19, <2>9, <3>1
  <2>11. r = SubSeq(NonNul(fetched'), Len(delivered') + 1, Len(delivered') + np)
    BY <1>1 DEF r, f, l, i, n, D
  <2>12. LinesKeptApart'
    <3>1. Len(r) = np
      BY <2>7, <2>8
    <3>2. r = X
      BY <1>18, <2>8, <2>9, <3>1, SeqEqual
    <3>3. NonNul(Pending') = later /\ NonNul(arrived') = all /\ gap' = gap
      BY <1>1, <1>9 DEF later, all
    <3>4. ~gap' => Between(r, NonNul(arrived'), NonNul(Pending'))
      BY <1>22, <3>2, <3>3
    <3> QED BY <1>1, <1>2, <2>1, <2>10, <2>11, <3>1, <3>4 DEF LinesKeptApart, Piece, np
  <2> QED BY <1>16, <2>2, <2>12 DEF ReaderInv
<1> QED BY <1>20, <1>21

\* The test for the NUL behind the copied bytes: what fdgets returns is what it has
\* copied, whole, and nothing an earlier call left in the buffer.
LEMMA ReturnKeeps ==
  ASSUME ReaderInv, Return
  PROVE  ReaderInv'
<1>1. /\ pc = "test" /\ dst[pos] = NUL /\ last' = CString(dst) /\ pc' = "caller"
      /\ delivered' = delivered \o CString(dst)
      /\ UNCHANGED <<input, queue, start, end, dst, pos, fetched, arrived, gap>>
  BY DEF Return
<1>2. TypeInv /\ QueueInv /\ CopiedInv /\ StreamPreserved /\ LinesKeptApart /\ PlaceInv
  BY DEF ReaderInv
<1>3. /\ pos \in Nat /\ pos \in 0..DstSize - 1 /\ dst[pos] = NUL
      /\ \A j \in 0..pos - 1 : dst[j] # NUL /\ (dst[j] = NL => j = pos - 1)
  BY <1>1, <1>2, ReaderAssumption DEF TypeInv, CopiedInv
<1> DEFINE C == Current
<1>4. C = CString(dst)
  <2>1. CString(dst) = [k \in 1..pos |-> dst[k - 1]]
    BY <1>3, CStringIs
  <2> QED BY <1>1, <2>1 DEF Current
<1>5. C \in Seq(Bytes) /\ Len(C) = pos /\ \A k \in 1..pos : C[k] = dst[k - 1]
  BY <1>1, <1>2, CurrentIs
<1> HIDE DEF C
<1>6. TypeInv' /\ QueueInv' /\ CopiedInv'
  <2>1. delivered' \in Seq(Bytes)
    BY <1>1, <1>2, <1>4, <1>5 DEF TypeInv
  <2> QED BY <1>1, <1>2, <1>4, <1>5, <2>1 DEF TypeInv, QueueInv, CopiedInv
<1>7. StreamPreserved'
  <2> DEFINE D == delivered'
             N == NonNul(Pending)
  <2>1. Current' = <<>> /\ Pending' = Pending
    BY <1>1 DEF Current, Pending
  <2>2. D \in Seq(Bytes) /\ D = delivered \o C
    BY <1>1, <1>4, <1>6 DEF TypeInv
  <2>3. D \o N = NonNul(fetched)
    BY <1>1, <1>2, <2>2 DEF StreamPreserved, C
  <2> HIDE DEF D, N
  <2>4. D \o <<>> = D
    BY <2>2, ConcatEmptySeq
  <2>5. D \o <<>> \o N = NonNul(fetched)
    BY <2>3, <2>4
  <2> QED BY <1>1, <1>2, <2>1, <2>5 DEF StreamPreserved, D, N
<1>8. LinesKeptApart'
  <2>1. ASSUME NEW k \in 1..Len(C), C[k] = NL PROVE k = Len(C)
    <3>1. k \in 1..pos /\ k - 1 \in 0..pos - 1 /\ dst[k - 1] = NL
      BY <1>3, <1>5, <2>1
    <3>2. k - 1 = pos - 1
      BY <1>3, <3>1
    <3> QED BY <1>3, <1>5, <3>1, <3>2
  <2>2. NonNul(Pending') = NonNul(Pending) /\ NonNul(arrived') = NonNul(arrived)
    BY <1>1 DEF Pending
  <2>3. ~gap' => Piece(last)'
    BY <1>1, <1>2, <1>4, <2>2 DEF PlaceInv, Piece, C
  <2> QED BY <1>1, <1>4, <2>1, <2>3 DEF LinesKeptApart
<1>9. PlaceInv'
  BY <1>1, <1>2 DEF PlaceInv, Piece, Pending
<1> QED BY <1>6, <1>7, <1>8, <1>9 DEF ReaderInv

\* The steps that only move fdgets on, and the call, which starts with an empty line.
LEMMA OtherStepsKeep ==
  ASSUME ReaderInv, Call \/ FillSkips \/ FillEnds \/ Again \/ UNCHANGED vars
  PROVE  ReaderInv'
<1>1. TypeInv /\ QueueInv /\ CopiedInv /\ StreamPreserved /\ LinesKeptApart /\ PlaceInv
  BY DEF ReaderInv
<1>2. CASE Call
  <2>1. TypeInv' /\ QueueInv' /\ CopiedInv'
    <3>1. gap' \in BOOLEAN
      BY <1>2, Zenon DEF Call
    <3> QED BY <1>1, <1>2, <3>1, ReaderAssumption DEF Call, TypeInv, QueueInv, CopiedInv
  <2>2. Current = <<>> /\ Current' = <<>> /\ Pending' = Pending
    <3>1. Current' = [k \in 1..0 |-> dst'[k - 1]]
      BY <1>2 DEF Call, Current
    <3>2. Current' = <<>>
      BY <3>1
    <3> QED BY <1>2, <3>2 DEF Call, Current, Pending
  <2>3. StreamPreserved' /\ LinesKeptApart' /\ PlaceInv'
    BY <1>1, <1>2, <2>2 DEF Call, StreamPreserved, LinesKeptApart, PlaceInv, Piece
  <2> QED BY <2>1, <2>3 DEF ReaderInv
<1>3. CASE FillSkips
  BY <1>1, <1>3 DEF ReaderInv, FillSkips, history, TypeInv, QueueInv, CopiedInv,
     StreamPreserved, LinesKeptApart, PlaceInv, Piece, Current, Pending
<1>4. CASE FillEnds
  <2>1. TypeInv' /\ QueueInv' /\ CopiedInv'
    BY <1>1, <1>4, ReaderAssumption DEF FillEnds, history, TypeInv, QueueInv, CopiedInv
  <2>2. Pending = <<>> /\ Pending' = <<>> /\ Current' = Current
    <3>1. Pending = <<>>
      BY <1>1, <1>4, PendingIs DEF FillEnds
    <3>2. Pending' = SubSeq(queue, 1, 0)
      BY <1>4 DEF FillEnds, Pending
    <3>3. SubSeq(queue, 1, 0) = <<>>
      BY SubSeqEmpty
    <3>4. Current' = Current
      BY <1>4 DEF FillEnds, Current
    <3> QED BY <3>1, <3>2, <3>3, <3>4
  <2>3. \A k \in 1..pos : Current[k] # NL
    <3> SUFFICES ASSUME NEW k \in 1..pos PROVE Current[k] # NL
      OBVIOUS
    <3>1. Current[k] = dst[k - 1] /\ k - 1 \in 0..pos - 1
      BY <1>1, <1>4, CurrentIs DEF FillEnds, TypeInv
    <3> QED BY <1>1, <1>4, <3>1 DEF FillEnds, CopiedInv
  <2>4. StreamPreserved' /\ LinesKeptApart' /\ PlaceInv'
    BY <1>1, <1>4, <2>2, <2>3
    DEF FillEnds, history, StreamPreserved, LinesKeptApart, PlaceInv, Piece
  <2> QED BY <2>1, <2>4 DEF ReaderInv
<1>5. CASE Again
  <2>1. TypeInv' /\ QueueInv' /\ CopiedInv'
    BY <1>1, <1>5 DEF Again, history, TypeInv, QueueInv, CopiedInv
  <2>2. StreamPreserved' /\ LinesKeptApart' /\ PlaceInv'
    BY <1>1, <1>5 DEF Again, history, StreamPreserved, LinesKeptApart, PlaceInv, Piece,
       Current, Pending
  <2> QED BY <2>1, <2>2 DEF ReaderInv
<1>6. CASE UNCHANGED vars
  BY <1>1, <1>6 DEF vars, history, ReaderInv, TypeInv, QueueInv, CopiedInv, StreamPreserved,
     LinesKeptApart, PlaceInv, Piece, Current, Pending
<1> QED BY <1>2, <1>3, <1>4, <1>5, <1>6

\* ReaderInv is inductive.
LEMMA ReaderStep == ReaderInv /\ [Next]_vars => ReaderInv'
<1> SUFFICES ASSUME ReaderInv, [Next]_vars PROVE ReaderInv'
  OBVIOUS
<1>1. CASE FillReads
  BY <1>1, FillReadsKeeps
<1>2. CASE Copy
  BY <1>2, CopyKeeps
<1>3. CASE Return
  BY <1>3, ReturnKeeps
<1>4. CASE Call \/ FillSkips \/ FillEnds \/ Again \/ UNCHANGED vars
  BY <1>4, OtherStepsKeep
<1> QED BY <1>1, <1>2, <1>3, <1>4 DEF Next, Done

\* ReaderInv holds at every step of fill_buf, copy_buf, fdgets and the caller.
LEMMA ReaderInvariant == Spec => []ReaderInv
<1>1. Init => ReaderInv
  BY ReaderInit
<1>2. ReaderInv /\ [Next]_vars => ReaderInv'
  BY ReaderStep
<1> QED BY <1>1, <1>2, PTL DEF Spec

\* However reads cut the stream and whatever earlier calls left in the caller's buffer,
\* the lines fdgets returns, what it has copied of the next one and what waits in the
\* queue are together the bytes of the reads that did not fill the queue, each once and
\* in order; at the end of the input only a last line without newline is not returned;
\* and a difference to all bytes read is a whole queue at least: for every size of the
\* queue and of the caller's buffer and every stream.
THEOREM StreamReachesCaller == Spec => []StreamPreserved
<1>1. ReaderInv => StreamPreserved
  BY DEF ReaderInv
<1> QED BY <1>1, ReaderInvariant, PTL

\* A line fdgets returns has a newline at its end at most, and it, or the one line that
\* overruns the caller's buffer, is one piece of the stream of all bytes read, unless a
\* read that filled the queue was lost in the middle of the call: for every size of the
\* queue and of the buffer and every stream.
THEOREM LinesStayApart == Spec => []LinesKeptApart
<1>1. ReaderInv => LinesKeptApart
  BY DEF ReaderInv
<1> QED BY <1>1, ReaderInvariant, PTL

----------------------------------------------------------------------------
(* Formatted output: the digits of a number.                               *)

Bases == {10, 16}
Hex == {DigitChars[m + 1] : m \in 0..15}

\* Division by the base: the quotient of a number other than 0 is smaller.
LEMMA Quotients ==
  ASSUME NEW n \in Nat, NEW b \in Bases
  PROVE  /\ n \div b \in Nat /\ n % b \in 0..b - 1 /\ n = (n \div b) * b + (n % b)
         /\ n # 0 => n \div b \in 0..n - 1
         /\ n \div b = 0 => n = n % b
<1>1. /\ n \div 10 \in Nat /\ n % 10 \in 0..9 /\ n = (n \div 10) * 10 + (n % 10)
      /\ n # 0 => n \div 10 \in 0..n - 1
      /\ n \div 10 = 0 => n = n % 10
  <2> DEFINE q == n \div 10
             r == n % 10
  <2>1. n = 10 * q + r /\ q \in Int /\ r \in 0..9
    OBVIOUS
  <2> HIDE DEF q, r
  <2>2. q \in Nat /\ r \in 0..9 /\ n = q * 10 + r /\ (n # 0 => q \in 0..n - 1) /\ (q = 0 => n = r)
    BY <2>1
  <2> QED BY <2>2 DEF q, r
<1>2. /\ n \div 16 \in Nat /\ n % 16 \in 0..15 /\ n = (n \div 16) * 16 + (n % 16)
      /\ n # 0 => n \div 16 \in 0..n - 1
      /\ n \div 16 = 0 => n = n % 16
  <2> DEFINE q == n \div 16
             r == n % 16
  <2>1. n = 16 * q + r /\ q \in Int /\ r \in 0..15
    OBVIOUS
  <2> HIDE DEF q, r
  <2>2. q \in Nat /\ r \in 0..15 /\ n = q * 16 + r /\ (n # 0 => q \in 0..n - 1) /\ (q = 0 => n = r)
    BY <2>1
  <2> QED BY <2>2 DEF q, r
<1>3. 10 - 1 = 9 /\ 16 - 1 = 15
  OBVIOUS
<1>4. CASE b = 10
  BY <1>1, <1>3, <1>4, Zenon
<1>5. CASE b = 16
  BY <1>2, <1>3, <1>5, Zenon
<1> QED BY <1>4, <1>5 DEF Bases

\* The sixteen digits differ from each other, from the sign and from garbage.
LEMMA DigitsDiffer ==
  /\ \A m, k \in 0..15 : DigitChars[m + 1] = DigitChars[k + 1] => m = k
  /\ \A k \in 0..15 : DigitChars[k + 1] # "-" /\ (DigitChars[k + 1] = "0" => k = 0)
  /\ \A k \in 0..15 : DigitChars[k + 1] # Garbage
<1>1. \A m, k \in 0..15 : DigitChars[m + 1] = DigitChars[k + 1] => m = k
  BY DEF DigitChars
<1>2. \A k \in 0..15 : DigitChars[k + 1] # "-" /\ (DigitChars[k + 1] = "0" => k = 0)
  BY DEF DigitChars
<1>3. \A k \in 0..15 : DigitChars[k + 1] # Garbage
  BY DEF DigitChars, Garbage
<1> QED BY <1>1, <1>2, <1>3

\* D holds the digits of the numbers up to v.
Writes(D, v, b) ==
  D = [n \in 0..v |-> IF n = 0 THEN <<>> ELSE Append(D[n \div b], DigitChars[(n % b) + 1])]

\* All digits of all numbers.
LEMMA AllDigits ==
  ASSUME NEW b \in Bases
  PROVE  \E g : /\ g \in [Nat -> Seq(Hex)] /\ g[0] = <<>>
                /\ \A n \in Nat \ {0} : g[n] = Append(g[n \div b], DigitChars[(n % b) + 1])
<1> DEFINE d == [n \in Nat |-> n \div b]
           c(n) == DigitChars[(n % b) + 1]
           h == [n \in Nat |-> [x \in Seq(Hex) |-> Append(x, c(n))]]
<1>1. \A k \in Nat \ {0} : d[k] \in 0..k - 1 /\ d[k] = k \div b
  BY Quotients
<1>0. PICK f : Descent(f, <<>>, h, d)
  <2> HIDE DEF h, d
  <2>1. \A k \in Nat \ {0} : d[k] \in 0..k - 1
    BY <1>1
  <2> QED BY <2>1, DescentExists
<1>2. \A k \in Nat : f[k] = IF k = 0 THEN <<>> ELSE h[k][f[d[k]]]
  <2> HIDE DEF h, d
  <2> QED BY <1>0 DEF Descent
<1>3. \A n \in Nat : c(n) \in Hex
  <2> SUFFICES ASSUME NEW n \in Nat PROVE c(n) \in Hex
    OBVIOUS
  <2>1. n % b \in 0..15
    BY Quotients DEF Bases
  <2> QED BY <2>1 DEF Hex
<1> HIDE DEF d
<1> DEFINE T == {n \in Nat : \A k \in 0..n : f[k] \in Seq(Hex)}
<1>4. 0 \in T
  <2>1. \A k \in 0..0 : k = 0
    OBVIOUS
  <2>2. f[0] = <<>>
    <3> HIDE DEF h
    <3> QED BY <1>2
  <2>3. <<>> \in Seq(Hex)
    OBVIOUS
  <2>4. \A k \in 0..0 : f[k] \in Seq(Hex)
    BY <2>1, <2>2, <2>3, Zenon
  <2> QED BY <2>4
<1>5. ASSUME NEW n \in Nat, n \in T PROVE n + 1 \in T
  <2> SUFFICES ASSUME NEW k \in 0..n + 1 PROVE f[k] \in Seq(Hex)
    OBVIOUS
  <2>1. CASE k = n + 1
    <3>1. k \in Nat \ {0} /\ k # 0 /\ k \in Nat
      BY <2>1
    <3>2. d[k] \in 0..n
      <4>1. d[k] \in 0..k - 1
        BY <1>1, <3>1
      <4> QED BY <2>1, <4>1
    <3>3. f[d[k]] \in Seq(Hex)
      BY <1>5, <3>2
    <3>4. f[k] = Append(f[d[k]], c(k))
      BY <1>2, <3>1, <3>3
    <3> HIDE DEF c, h
    <3> QED BY <1>3, <3>1, <3>3, <3>4
  <2>2. CASE k # n + 1
    BY <1>5, <2>2
  <2> QED BY <2>1, <2>2
<1>6. \A n \in Nat : n \in T
  <2> HIDE DEF T
  <2> QED BY <1>4, <1>5, SetInduction
<1>7. \A n \in Nat : f[n] \in Seq(Hex)
  <2>1. \A n \in Nat : n \in 0..n
    OBVIOUS
  <2> QED BY <1>6, <2>1, Zenon
<1> DEFINE g == [n \in Nat |-> f[n]]
<1>8. g \in [Nat -> Seq(Hex)] /\ g[0] = <<>>
  BY <1>2, <1>7
<1>9. ASSUME NEW n \in Nat \ {0} PROVE g[n] = Append(g[n \div b], c(n))
  <2>1. n \div b \in Nat /\ d[n] = n \div b /\ n # 0 /\ n \in Nat
    BY <1>1, Quotients
  <2>2. f[n] = h[n][f[n \div b]] /\ f[n \div b] \in Seq(Hex)
    BY <1>2, <1>7, <2>1
  <2>3. f[n] = Append(f[n \div b], c(n))
    BY <2>1, <2>2
  <2> QED BY <2>1, <2>3
<1> QED BY <1>8, <1>9

\* The digits of a number are those of its quotient and one more.
LEMMA DigitsStep ==
  ASSUME NEW v \in Nat, NEW b \in Bases
  PROVE  /\ Digits(v, b) \in Seq(Hex) /\ Digits(0, b) = <<>>
         /\ v # 0 => Digits(v, b) = Append(Digits(v \div b, b), DigitChars[(v % b) + 1])
<1>1. PICK g : /\ g \in [Nat -> Seq(Hex)] /\ g[0] = <<>>
               /\ \A n \in Nat \ {0} : g[n] = Append(g[n \div b], DigitChars[(n % b) + 1])
  BY AllDigits
<1>2. ASSUME NEW w \in Nat PROVE Digits(w, b) = g[w]
  <2> DEFINE D == CHOOSE u : Writes(u, w, b)
             e == [n \in 0..w |-> g[n]]
  <2>1. \A n \in 0..w : n \div b \in 0..w
    <3> SUFFICES ASSUME NEW n \in 0..w PROVE n \div b \in 0..w
      OBVIOUS
    <3>1. n \in Nat /\ (n # 0 => n \div b \in 0..n - 1) /\ (n = 0 => n \div b = 0)
      <4>1. n = 0 => n \div b = 0
        BY DEF Bases
      <4> QED BY <4>1, Quotients
    <3> HIDE DEF e, D
    <3> QED BY <3>1
  <2>2. Writes(e, w, b)
    <3>1. ASSUME NEW n \in 0..w
          PROVE  g[n] = IF n = 0 THEN <<>> ELSE Append(e[n \div b], DigitChars[(n % b) + 1])
      <4>1. n \in Nat /\ n \div b \in 0..w
        BY <2>1
      <4>2. e[n \div b] = g[n \div b]
        BY <4>1
      <4> HIDE DEF e
      <4> QED BY <1>1, <4>1, <4>2
    <3> QED BY <3>1 DEF Writes
  <2>3. Writes(D, w, b)
    <3> HIDE DEF e
    <3> QED BY <2>2
  <2>4. Digits(w, b) = D[w]
    BY DEF Digits, Writes
  <2> HIDE DEF D
  <2> DEFINE T == {n \in Nat : \A k \in 0..n : k <= w => D[k] = g[k]}
  <2>5. 0 \in T
    <3>1. \A k \in 0..0 : k = 0 /\ k \in 0..w
      OBVIOUS
    <3>2. D[0] = <<>>
      BY <2>3, <3>1 DEF Writes
    <3> QED BY <1>1, <3>1, <3>2
  <2>6. ASSUME NEW n \in Nat, n \in T PROVE n + 1 \in T
    <3> SUFFICES ASSUME NEW k \in 0..n + 1, k <= w PROVE D[k] = g[k]
      OBVIOUS
    <3>1. CASE k = n + 1
      <4>1. k \in Nat \ {0} /\ k # 0 /\ k \in 0..w
        BY <3>1
      <4>2. k \div b \in 0..k - 1
        BY <4>1, Quotients
      <4> DEFINE j == k \div b
      <4>3. j \in 0..n /\ j <= w
        <5> HIDE DEF j
        <5> QED BY <3>1, <4>1, <4>2 DEF j
      <4>4. D[j] = g[j]
        <5> HIDE DEF j
        <5> QED BY <2>6, <4>3
      <4> QED BY <1>1, <2>3, <4>1, <4>4 DEF Writes
    <3>2. CASE k # n + 1
      BY <2>6, <3>2
    <3> QED BY <3>1, <3>2
  <2>7. \A n \in Nat : n \in T
    <3> HIDE DEF T
    <3> QED BY <2>5, <2>6, SetInduction
  <2>8. w \in T
    BY <2>7
  <2> QED BY <2>4, <2>8
<1>3. v \div b \in Nat
  BY Quotients
<1> QED BY <1>1, <1>2, <1>3

----------------------------------------------------------------------------
(* The number a string of digits stands for.                               *)

\* n holds the values of the prefixes of s.
Evaluates(n, s, b) == n = [k \in 0..Len(s) |-> IF k = 0 THEN 0 ELSE n[k - 1] * b + DigitOf(s[k])]

\* DigitOf undoes DigitChars.
LEMMA DigitIs ==
  /\ \A m \in 0..15 : DigitOf(DigitChars[m + 1]) = m
  /\ \A c \in Hex : DigitOf(c) \in 0..15
<1>1. \A c \in Hex : \E m \in 0..15 : DigitChars[m + 1] = c
  BY DEF Hex
<1>2. \A c \in Hex : DigitOf(c) \in 0..15 /\ DigitChars[DigitOf(c) + 1] = c
  BY <1>1 DEF DigitOf
<1>3. \A m \in 0..15 : DigitChars[m + 1] \in Hex
  BY DEF Hex
<1>4. ASSUME NEW m \in 0..15 PROVE DigitOf(DigitChars[m + 1]) = m
  <2>1. DigitOf(DigitChars[m + 1]) \in 0..15
    BY <1>2, <1>3
  <2>2. DigitChars[DigitOf(DigitChars[m + 1]) + 1] = DigitChars[m + 1]
    BY <1>2, <1>3
  <2> HIDE DEF DigitOf
  <2> QED BY <2>1, <2>2, DigitsDiffer
<1> QED BY <1>2, <1>4

\* The values of the prefixes exist and are natural numbers.
LEMMA EvaluatesExists ==
  ASSUME NEW s \in Seq(Hex), NEW b \in Bases
  PROVE  /\ \E n : Evaluates(n, s, b)
         /\ \A n : Evaluates(n, s, b) => \A k \in 0..Len(s) : n[k] \in Nat
<1>0. b \in Nat
  BY DEF Bases
<1>1. \A k \in 1..Len(s) : DigitOf(s[k]) \in Nat
  <2> SUFFICES ASSUME NEW k \in 1..Len(s) PROVE DigitOf(s[k]) \in Nat
    OBVIOUS
  <2>1. s[k] \in Hex
    OBVIOUS
  <2>2. DigitOf(s[k]) \in 0..15
    BY <2>1, DigitIs
  <2> QED BY <2>2
<1> DEFINE v == [k \in 1..Len(s) |-> DigitOf(s[k])]
           h == [k \in Nat |-> [x \in Nat |-> x * b + v[k]]]
<1>2. PICK g : DefinedBy(g, 0, h)
  <2> HIDE DEF h
  <2> QED BY RecursionExists
<1>3. \A k \in Nat : g[k] = IF k = 0 THEN 0 ELSE h[k][g[k - 1]]
  <2> HIDE DEF h
  <2> QED BY <1>2 DEF DefinedBy
<1>4. \A k \in 1..Len(s) : v[k] \in Nat /\ v[k] = DigitOf(s[k])
  BY <1>1
<1> HIDE DEF v
<1> DEFINE S == {k \in Nat : k <= Len(s) => g[k] \in Nat}
<1>5. 0 \in S
  <2> HIDE DEF h
  <2> QED BY <1>3
<1>6. ASSUME NEW k \in Nat, k \in S PROVE k + 1 \in S
  <2> SUFFICES ASSUME k + 1 <= Len(s) PROVE g[k + 1] \in Nat
    OBVIOUS
  <2>1. k + 1 \in Nat /\ k + 1 # 0 /\ (k + 1) - 1 = k /\ g[k] \in Nat /\ k + 1 \in 1..Len(s)
    BY <1>6
  <2>2. g[k + 1] = h[k + 1][g[k]]
    <3> HIDE DEF h
    <3> QED BY <1>3, <2>1
  <2>3. g[k + 1] = g[k] * b + v[k + 1]
    BY <2>1, <2>2
  <2>4. v[k + 1] \in Nat
    BY <1>4, <2>1
  <2> HIDE DEF h
  <2> QED BY <1>0, <2>1, <2>3, <2>4
<1>7. \A k \in Nat : k \in S
  <2> HIDE DEF S
  <2> QED BY <1>5, <1>6, SetInduction
<1> DEFINE e == [k \in 0..Len(s) |-> g[k]]
<1>8. ASSUME NEW k \in 0..Len(s)
      PROVE  e[k] = IF k = 0 THEN 0 ELSE e[k - 1] * b + DigitOf(s[k])
  <2>1. CASE k = 0
    <3> HIDE DEF h
    <3> QED BY <1>3, <2>1
  <2>2. CASE k # 0
    <3>1. k \in Nat /\ k - 1 \in Nat /\ k - 1 \in 0..Len(s) /\ k \in 1..Len(s)
      BY <2>2
    <3>2. g[k - 1] \in Nat
      <4>1. k - 1 \in S
        BY <1>7, <3>1
      <4> QED BY <3>1, <4>1
    <3>3. g[k] = h[k][g[k - 1]]
      <4> HIDE DEF h
      <4> QED BY <1>3, <2>2, <3>1
    <3>4. g[k] = g[k - 1] * b + v[k]
      BY <3>1, <3>2, <3>3
    <3> HIDE DEF h
    <3> QED BY <1>4, <2>2, <3>1, <3>4
  <2> QED BY <2>1, <2>2
<1>9. Evaluates(e, s, b)
  <2>1. e = [k \in 0..Len(s) |-> e[k]]
    OBVIOUS
  <2> HIDE DEF e
  <2> QED BY <1>8, <2>1 DEF Evaluates
<1>10. ASSUME NEW n, Evaluates(n, s, b) PROVE \A k \in 0..Len(s) : n[k] \in Nat
  <2> DEFINE T == {k \in Nat : k <= Len(s) => n[k] \in Nat}
  <2>1. 0 \in T
    BY <1>10 DEF Evaluates
  <2>2. ASSUME NEW k \in Nat, k \in T PROVE k + 1 \in T
    <3> SUFFICES ASSUME k + 1 <= Len(s) PROVE n[k + 1] \in Nat
      OBVIOUS
    <3>1. k + 1 \in 0..Len(s) /\ k + 1 # 0 /\ (k + 1) - 1 = k /\ n[k] \in Nat /\ k + 1 \in 1..Len(s)
      BY <2>2
    <3>2. n[k + 1] = n[k] * b + DigitOf(s[k + 1])
      BY <1>10, <3>1 DEF Evaluates
    <3>3. DigitOf(s[k + 1]) \in Nat
      BY <1>1, <3>1
    <3> QED BY <1>0, <3>1, <3>2, <3>3
  <2>3. \A k \in Nat : k \in T
    <3> HIDE DEF T
    <3> QED BY <2>1, <2>2, SetInduction
  <2> QED BY <2>3
<1> QED BY <1>9, <1>10

\* One digit more multiplies what was read and adds the digit.
LEMMA ValueStep ==
  ASSUME NEW s \in Seq(Hex), NEW b \in Bases, NEW c \in Hex
  PROVE  /\ Value(<<>>, b) = 0 /\ Value(s, b) \in Nat
         /\ Value(Append(s, c), b) = Value(s, b) * b + DigitOf(c)
<1> DEFINE t == Append(s, c)
           W(u) == CHOOSE n : Evaluates(n, u, b)
<1>1. t \in Seq(Hex) /\ <<>> \in Seq(Hex) /\ Len(t) = Len(s) + 1 /\ Len(<<>>) = 0
      /\ t[Len(s) + 1] = c /\ \A k \in 1..Len(s) : t[k] = s[k]
  OBVIOUS
<1>2. \A u : Value(u, b) = W(u)[Len(u)]
  BY DEF Value, Evaluates
<1>3. \A u \in Seq(Hex) : Evaluates(W(u), u, b)
  BY EvaluatesExists
<1> HIDE DEF W
<1>4. Value(<<>>, b) = 0
  <2>0. 0 \in 0..Len(<<>>)
    OBVIOUS
  <2>1. Evaluates(W(<<>>), <<>>, b)
    BY <1>1, <1>3, Zenon
  <2>2. W(<<>>)[0] = 0
    BY <2>0, <2>1 DEF Evaluates
  <2> QED BY <1>1, <1>2, <2>2
<1>5. Value(s, b) \in Nat
  <2>1. Len(s) \in 0..Len(s)
    OBVIOUS
  <2> QED BY <1>2, <1>3, <2>1, EvaluatesExists
<1> DEFINE x == W(s)
           y == W(t)
<1>6. Evaluates(x, s, b) /\ Evaluates(y, t, b)
  BY <1>1, <1>3
<1>7. Value(s, b) = x[Len(s)] /\ Value(t, b) = y[Len(s) + 1]
  BY <1>1, <1>2
<1> HIDE DEF x, y, t
<1> DEFINE T == {k \in Nat : k <= Len(s) => x[k] = y[k]}
<1>8. 0 \in T
  <2>1. 0 \in 0..Len(s) /\ 0 \in 0..Len(t)
    BY <1>1
  <2> QED BY <1>6, <2>1 DEF Evaluates
<1>9. ASSUME NEW k \in Nat, k \in T PROVE k + 1 \in T
  <2> SUFFICES ASSUME k + 1 <= Len(s) PROVE x[k + 1] = y[k + 1]
    OBVIOUS
  <2>1. /\ k + 1 \in 0..Len(s) /\ k + 1 \in 0..Len(t) /\ k + 1 # 0 /\ (k + 1) - 1 = k
        /\ x[k] = y[k] /\ k + 1 \in 1..Len(s)
    BY <1>1, <1>9
  <2>2. t[k + 1] = s[k + 1]
    BY <1>1, <2>1
  <2>3. x[k + 1] = x[k] * b + DigitOf(s[k + 1])
    BY <1>6, <2>1 DEF Evaluates
  <2>4. y[k + 1] = y[k] * b + DigitOf(t[k + 1])
    BY <1>6, <2>1 DEF Evaluates
  <2> QED BY <2>1, <2>2, <2>3, <2>4
<1>10. \A k \in Nat : k \in T
  <2> HIDE DEF T
  <2> QED BY <1>8, <1>9, SetInduction
<1>11. x[Len(s)] = y[Len(s)]
  <2>1. Len(s) \in T /\ Len(s) <= Len(s)
    BY <1>10
  <2> QED BY <2>1
<1>12. y[Len(s) + 1] = y[Len(s)] * b + DigitOf(c)
  <2>1. Len(s) + 1 \in 0..Len(t) /\ Len(s) + 1 # 0 /\ (Len(s) + 1) - 1 = Len(s)
    BY <1>1
  <2> QED BY <1>1, <1>6, <2>1 DEF Evaluates
<1> QED BY <1>4, <1>5, <1>7, <1>11, <1>12 DEF t

\* Digits writes the numeral of every number but 0.
LEMMA DigitsNumeral ==
  ASSUME NEW b \in Bases
  PROVE  \A v \in Nat \ {0} : Numeral(Digits(v, b), v, b) /\ Digits(v, b)[1] # "0"
<1> DEFINE Good(v) == Numeral(Digits(v, b), v, b) /\ Digits(v, b)[1] # "0"
           T == {n \in Nat : \A k \in 1..n : Good(k)}
<1>0. b \in Nat /\ b - 1 \in 0..15
  BY DEF Bases
<1>1. 0 \in T
  <2>1. \A k \in 1..0 : FALSE
    OBVIOUS
  <2> QED BY <2>1
<1>2. ASSUME NEW n \in Nat, n \in T PROVE n + 1 \in T
  <2> DEFINE v == n + 1
             q == v \div b
             r == v % b
             c == DigitChars[r + 1]
             s == Digits(q, b)
  <2>1. v \in Nat \ {0} /\ v \in Nat /\ v # 0
    OBVIOUS
  <2>2. q \in Nat /\ r \in 0..b - 1 /\ v = q * b + r /\ q \in 0..v - 1 /\ (q = 0 => v = r)
    <3> HIDE DEF v
    <3> QED BY <2>1, Quotients
  <2>3. Digits(v, b) = Append(s, c) /\ s \in Seq(Hex) /\ Digits(0, b) = <<>>
    <3> HIDE DEF v
    <3> QED BY <2>1, <2>2, DigitsStep
  <2> HIDE DEF v, q, r, s
  <2>4. r \in 0..15 /\ c \in Hex
    <3>1. r \in 0..15
      BY <1>0, <2>2
    <3> QED BY <3>1 DEF Hex
  <2>5. DigitOf(c) = r
    BY <2>4, DigitIs
  <2> HIDE DEF c
  <2>6. Value(Append(s, c), b) = Value(s, b) * b + r
    BY <2>3, <2>4, <2>5, ValueStep
  <2>7. \A k \in 1..Len(s) + 1 : Append(s, c)[k] = IF k = Len(s) + 1 THEN c ELSE s[k]
    BY <2>3
  <2>8. Len(Append(s, c)) = Len(s) + 1 /\ Append(s, c) # <<>> /\ Len(s) \in Nat
    BY <2>3
  <2>9. q # 0 => Good(q)
    <3>1. q # 0 => q \in 1..n
      BY <2>2 DEF v
    <3> HIDE DEF Good
    <3> QED BY <1>2, <3>1
  <2>10. Good(v)
    <3>1. CASE q = 0
      <4>1. s = <<>> /\ Len(s) = 0
        BY <2>3, <3>1 DEF s
      <4>2. Value(s, b) = 0
        BY <2>3, <2>4, <4>1, ValueStep
      <4>3. v = r /\ Value(Append(s, c), b) = v
        BY <1>0, <2>2, <2>6, <3>1, <4>2
      <4>4. Append(s, c)[1] = c /\ \A k \in 1..1 : Append(s, c)[k] = c
        BY <4>1
      <4>5. c # "0"
        BY <2>1, <2>4, <4>3, DigitsDiffer DEF c
      <4>6. \A k \in 1..1 : \E m \in 0..b - 1 : Append(s, c)[k] = DigitChars[m + 1]
        BY <2>2, <4>4 DEF c
      <4> QED BY <2>3, <2>8, <4>1, <4>3, <4>4, <4>5, <4>6 DEF Numeral
    <3>2. CASE q # 0
      <4>1. /\ s # <<>> /\ Value(s, b) = q /\ s[1] # "0"
            /\ \A k \in 1..Len(s) : \E m \in 0..b - 1 : s[k] = DigitChars[m + 1]
        BY <2>9, <3>2 DEF Numeral, s
      <4>2. Len(s) >= 1
        BY <2>3, <4>1
      <4>3. Append(s, c)[1] = s[1]
        BY <2>3, <4>2
      <4>4. \A k \in 1..Len(s) + 1 : \E m \in 0..b - 1 : Append(s, c)[k] = DigitChars[m + 1]
        <5> SUFFICES ASSUME NEW k \in 1..Len(s) + 1
                     PROVE  \E m \in 0..b - 1 : Append(s, c)[k] = DigitChars[m + 1]
          OBVIOUS
        <5>1. CASE k = Len(s) + 1
          BY <2>2, <2>7, <5>1 DEF c
        <5>2. CASE k # Len(s) + 1
          <6>1. k \in 1..Len(s)
            BY <2>8, <5>2
          <6> QED BY <2>7, <4>1, <5>2, <6>1
        <5> QED BY <5>1, <5>2
      <4>5. Value(Append(s, c), b) = v
        BY <2>2, <2>6, <4>1
      <4> QED BY <2>3, <2>8, <4>1, <4>3, <4>4, <4>5 DEF Numeral
    <3> QED BY <3>1, <3>2
  <2>11. ASSUME NEW k \in 1..v PROVE Good(k)
    <3>1. CASE k = v
      <4> HIDE DEF Good
      <4> QED BY <2>10, <3>1
    <3>2. CASE k # v
      <4>1. k \in 1..n
        BY <3>2 DEF v
      <4> HIDE DEF Good
      <4> QED BY <1>2, <4>1
    <3> QED BY <3>1, <3>2
  <2> HIDE DEF Good
  <2> QED BY <2>1, <2>11 DEF v
<1>3. \A n \in Nat : n \in T
  <2> HIDE DEF T
  <2> QED BY <1>1, <1>2, SetInduction
<1>4. ASSUME NEW v \in Nat \ {0} PROVE Good(v)
  <2>1. v \in 1..v /\ v \in T
    BY <1>3
  <2> HIDE DEF Good
  <2> QED BY <2>1
<1> QED BY <1>4

\* n holds what atoi has read after each character of s.
Scans(n, s) ==
  n = [k \in 0..Len(s) |->
         IF k = 0 THEN 0
         ELSE IF IsDigit(s[k]) THEN Signed(10 * n[k - 1] + DigitOf(s[k]), IntHalf) ELSE n[k - 1]]

\* An int holds the low bits of a number.
LEMMA LowBits ==
  ASSUME NEW half \in Nat \ {0}, NEW v \in Int
  PROVE  /\ Unsigned(v, half) \in 0..2 * half - 1 /\ Signed(v, half) \in -half..half - 1
         /\ v \in 0..2 * half - 1 => Unsigned(v, half) = v
         /\ v \in 0..half - 1 => Signed(v, half) = v
         /\ v \in 0..2 * half - 1 /\ Signed(v, half) = 0 => v = 0
         /\ v = half => Signed(v, half) = -half
<1> DEFINE m == 2 * half
<1>0. m \in Nat \ {0} /\ m = half + half
  OBVIOUS
<1> HIDE DEF m
<1>1. v % m \in 0..m - 1
  BY <1>0
<1>2. v \in 0..m - 1 => v % m = v
  BY <1>0
<1> DEFINE u == v % m
<1> HIDE DEF u
<1>3. /\ u \in 0..m - 1 /\ (v \in 0..m - 1 => u = v)
  BY <1>1, <1>2 DEF u
<1>4. Unsigned(v, half) = u /\ Signed(v, half) = IF u >= half THEN u - m ELSE u
  BY DEF Unsigned, Signed, u, m
<1> QED BY <1>0, <1>3, <1>4 DEF m

\* The bits of a negative int, read as unsigned.
LEMMA LowBitsBack ==
  ASSUME NEW half \in Nat \ {0}
  PROVE  Unsigned(-half, half) = half
<1> DEFINE m == 2 * half
<1>0. m \in Nat \ {0} /\ m = half + half /\ half \in 1..m - 1
  OBVIOUS
<1> HIDE DEF m
<1>1. (half - m) % m = half
  BY <1>0
<1>2. half - m = -half
  BY <1>0
<1> QED BY <1>1, <1>2 DEF Unsigned, m

\* What atoi reads exists and is an int.
LEMMA ScansExists ==
  ASSUME NEW S, NEW s \in Seq(S)
  PROVE  /\ \E n : Scans(n, s)
         /\ \A n : Scans(n, s) => \A k \in 0..Len(s) : n[k] \in Int
<1> DEFINE d == [k \in 1..Len(s) |-> IF IsDigit(s[k]) THEN DigitOf(s[k]) ELSE 0]
           Read(x, k) == IF IsDigit(s[k]) THEN Signed(10 * x + d[k], IntHalf) ELSE x
           h == [k \in Nat |-> [x \in Int |-> Read(x, k)]]
<1>1. \A k \in 1..Len(s) : d[k] \in Int /\ (IsDigit(s[k]) => d[k] = DigitOf(s[k]))
  <2> SUFFICES ASSUME NEW k \in 1..Len(s), IsDigit(s[k]) PROVE DigitOf(s[k]) \in Int
    OBVIOUS
  <2>1. PICK m \in 0..9 : DigitChars[m + 1] = s[k]
    BY DEF IsDigit
  <2>2. m \in 0..15 /\ m \in Int
    OBVIOUS
  <2> QED BY <2>1, <2>2, DigitIs
<1> HIDE DEF d
<1>2. \A x \in Int, k \in 1..Len(s) : Read(x, k) \in Int
  <2> SUFFICES ASSUME NEW x \in Int, NEW k \in 1..Len(s) PROVE Read(x, k) \in Int
    OBVIOUS
  <2>1. 10 * x + d[k] \in Int
    BY <1>1
  <2>2. Signed(10 * x + d[k], IntHalf) \in Int
    BY <2>1, LowBits, FormatAssumption
  <2> QED BY <2>2
<1>3. PICK g : DefinedBy(g, 0, h)
  <2> HIDE DEF h
  <2> QED BY RecursionExists
<1>4. \A k \in Nat : g[k] = IF k = 0 THEN 0 ELSE h[k][g[k - 1]]
  <2> HIDE DEF h
  <2> QED BY <1>3 DEF DefinedBy
<1>5. \A x \in Int, k \in Nat : h[k][x] = Read(x, k)
  <2> HIDE DEF Read
  <2> QED OBVIOUS
<1> HIDE DEF h, Read
<1> DEFINE T == {k \in Nat : k <= Len(s) => g[k] \in Int}
<1>6. 0 \in T
  BY <1>4
<1>7. ASSUME NEW k \in Nat, k \in T PROVE k + 1 \in T
  <2> SUFFICES ASSUME k + 1 <= Len(s) PROVE g[k + 1] \in Int
    OBVIOUS
  <2>1. k + 1 \in Nat /\ k + 1 # 0 /\ (k + 1) - 1 = k /\ g[k] \in Int /\ k + 1 \in 1..Len(s)
    BY <1>7
  <2>2. g[k + 1] = Read(g[k], k + 1)
    BY <1>4, <1>5, <2>1
  <2> QED BY <1>2, <2>1, <2>2
<1>8. \A k \in Nat : k \in T
  <2> HIDE DEF T
  <2> QED BY <1>6, <1>7, SetInduction
<1> DEFINE e == [k \in 0..Len(s) |-> g[k]]
<1>9. ASSUME NEW k \in 0..Len(s)
      PROVE  e[k] = IF k = 0 THEN 0
                    ELSE IF IsDigit(s[k]) THEN Signed(10 * e[k - 1] + DigitOf(s[k]), IntHalf) ELSE e[k - 1]
  <2>1. CASE k = 0
    BY <1>4, <2>1
  <2>2. CASE k # 0
    <3>1. k \in Nat /\ k - 1 \in Nat /\ k - 1 \in 0..Len(s) /\ k \in 1..Len(s)
      BY <2>2
    <3>2. g[k - 1] \in Int
      <4>1. k - 1 \in T
        BY <1>8, <3>1
      <4> QED BY <3>1, <4>1
    <3>3. g[k] = Read(g[k - 1], k)
      BY <1>4, <1>5, <2>2, <3>1, <3>2
    <3>4. e[k] = g[k] /\ e[k - 1] = g[k - 1]
      BY <3>1
    <3> HIDE DEF e
    <3>5. Read(g[k - 1], k) = IF IsDigit(s[k]) THEN Signed(10 * g[k - 1] + DigitOf(s[k]), IntHalf) ELSE g[k - 1]
      BY <1>1, <3>1 DEF Read
    <3> QED BY <2>2, <3>3, <3>4, <3>5
  <2> QED BY <2>1, <2>2
<1>10. Scans(e, s)
  <2>1. e = [k \in 0..Len(s) |-> e[k]]
    OBVIOUS
  <2> HIDE DEF e
  <2> QED BY <1>9, <2>1 DEF Scans
<1>11. ASSUME NEW n, Scans(n, s) PROVE \A k \in 0..Len(s) : n[k] \in Int
  <2> DEFINE U == {k \in Nat : k <= Len(s) => n[k] \in Int}
  <2>1. 0 \in U
    BY <1>11 DEF Scans
  <2>2. ASSUME NEW k \in Nat, k \in U PROVE k + 1 \in U
    <3> SUFFICES ASSUME k + 1 <= Len(s) PROVE n[k + 1] \in Int
      OBVIOUS
    <3>1. k + 1 \in 0..Len(s) /\ k + 1 # 0 /\ (k + 1) - 1 = k /\ n[k] \in Int /\ k + 1 \in 1..Len(s)
      BY <2>2
    <3>2. n[k + 1] = IF IsDigit(s[k + 1]) THEN Signed(10 * n[k] + DigitOf(s[k + 1]), IntHalf) ELSE n[k]
      BY <1>11, <3>1 DEF Scans
    <3>3. n[k + 1] = Read(n[k], k + 1)
      BY <1>1, <3>1, <3>2 DEF Read
    <3> QED BY <1>2, <3>1, <3>3
  <2>3. \A k \in Nat : k \in U
    <3> HIDE DEF U
    <3> QED BY <2>1, <2>2, SetInduction
  <2> QED BY <2>3
<1> QED BY <1>10, <1>11

\* One character more is one step of atoi's loop.
LEMMA AtoiStep ==
  ASSUME NEW S, NEW s \in Seq(S), NEW c \in S
  PROVE  /\ atoi(<<>>) = 0
         /\ atoi(Append(s, c)) = IF IsDigit(c) THEN Signed(10 * atoi(s) + DigitOf(c), IntHalf) ELSE atoi(s)
<1> DEFINE t == Append(s, c)
           W(u) == CHOOSE n : Scans(n, u)
<1>1. t \in Seq(S) /\ <<>> \in Seq(S) /\ Len(t) = Len(s) + 1 /\ Len(<<>>) = 0
      /\ t[Len(s) + 1] = c /\ \A k \in 1..Len(s) : t[k] = s[k]
  OBVIOUS
<1>2. \A u : atoi(u) = W(u)[Len(u)]
  BY DEF atoi, Scans
<1>3. \A u \in Seq(S) : Scans(W(u), u)
  BY ScansExists
<1> HIDE DEF W
<1>4. atoi(<<>>) = 0
  <2>0. 0 \in 0..Len(<<>>)
    OBVIOUS
  <2>1. Scans(W(<<>>), <<>>)
    BY <1>1, <1>3, Zenon
  <2>2. W(<<>>)[0] = 0
    BY <2>0, <2>1 DEF Scans
  <2> QED BY <1>1, <1>2, <2>2
<1> DEFINE x == W(s)
           y == W(t)
<1>6. Scans(x, s) /\ Scans(y, t)
  BY <1>1, <1>3
<1>7. atoi(s) = x[Len(s)] /\ atoi(t) = y[Len(s) + 1]
  BY <1>1, <1>2
<1> HIDE DEF x, y, t
<1> DEFINE T == {k \in Nat : k <= Len(s) => x[k] = y[k]}
<1>8. 0 \in T
  <2>1. 0 \in 0..Len(s) /\ 0 \in 0..Len(t)
    BY <1>1
  <2> QED BY <1>6, <2>1 DEF Scans
<1>9. ASSUME NEW k \in Nat, k \in T PROVE k + 1 \in T
  <2> SUFFICES ASSUME k + 1 <= Len(s) PROVE x[k + 1] = y[k + 1]
    OBVIOUS
  <2>1. /\ k + 1 \in 0..Len(s) /\ k + 1 \in 0..Len(t) /\ k + 1 # 0 /\ (k + 1) - 1 = k
        /\ x[k] = y[k] /\ k + 1 \in 1..Len(s)
    BY <1>1, <1>9
  <2>2. t[k + 1] = s[k + 1]
    BY <1>1, <2>1
  <2>3. x[k + 1] = IF IsDigit(s[k + 1]) THEN Signed(10 * x[k] + DigitOf(s[k + 1]), IntHalf) ELSE x[k]
    BY <1>6, <2>1 DEF Scans
  <2>4. y[k + 1] = IF IsDigit(t[k + 1]) THEN Signed(10 * y[k] + DigitOf(t[k + 1]), IntHalf) ELSE y[k]
    BY <1>6, <2>1 DEF Scans
  <2> QED BY <2>1, <2>2, <2>3, <2>4
<1>10. \A k \in Nat : k \in T
  <2> HIDE DEF T
  <2> QED BY <1>8, <1>9, SetInduction
<1>11. x[Len(s)] = y[Len(s)]
  <2>1. Len(s) \in T /\ Len(s) <= Len(s)
    BY <1>10
  <2> QED BY <2>1
<1>12. y[Len(s) + 1] = IF IsDigit(c) THEN Signed(10 * y[Len(s)] + DigitOf(c), IntHalf) ELSE y[Len(s)]
  <2>1. Len(s) + 1 \in 0..Len(t) /\ Len(s) + 1 # 0 /\ (Len(s) + 1) - 1 = Len(s)
    BY <1>1
  <2> QED BY <1>1, <1>6, <2>1 DEF Scans
<1> QED BY <1>4, <1>7, <1>11, <1>12 DEF t

\* The characters a conversion prints.
PutChars == Hex \cup {"-", "x", Garbage, "(", "n", "u", "l", ")", "s"}

\* atoi reads the digits of a number, behind a sign or not, as an int.
LEMMA AtoiReads ==
  ASSUME NEW p \in {<<>>, <<"-">>}
  PROVE  \A v \in 0..IntHalf : atoi(p \o Digits(v, 10)) = Signed(v, IntHalf)
<1> DEFINE Good(v) == atoi(p \o Digits(v, 10)) = Signed(v, IntHalf)
           T == {n \in Nat : \A k \in 0..n : k <= IntHalf => Good(k)}
<1>0. 10 \in Bases /\ IntHalf \in Nat \ {0}
  BY FormatAssumption DEF Bases
<1>1. p \in Seq(PutChars) /\ atoi(p) = 0
  <2>1. CASE p = <<>>
    <3>1. <<>> \in Seq(PutChars) /\ "-" \in PutChars
      BY DEF PutChars
    <3> QED BY <2>1, <3>1, AtoiStep
  <2>2. CASE p = <<"-">>
    <3>1. <<>> \in Seq(PutChars) /\ "-" \in PutChars
      BY DEF PutChars
    <3>2. ~ IsDigit("-")
      BY DigitsDiffer DEF IsDigit
    <3>3. p = Append(<<>>, "-") /\ p \in Seq(PutChars)
      BY <2>2, <3>1
    <3> QED BY <3>1, <3>2, <3>3, AtoiStep
  <2> QED BY <2>1, <2>2
<1>2. 0 \in T
  <2>1. Digits(0, 10) = <<>> /\ Signed(0, IntHalf) = 0
    BY <1>0, DigitsStep, LowBits
  <2>2. Good(0)
    <3>1. p \o <<>> = p
      BY <1>1
    <3> QED BY <1>1, <2>1, <3>1
  <2>3. \A k \in 0..0 : k = 0
    OBVIOUS
  <2> HIDE DEF Good
  <2> QED BY <2>2, <2>3
<1>3. ASSUME NEW n \in Nat, n \in T PROVE n + 1 \in T
  <2> DEFINE v == n + 1
             q == v \div 10
             r == v % 10
             c == DigitChars[r + 1]
             s == Digits(q, 10)
  <2>1. v \in Nat /\ v # 0
    OBVIOUS
  <2>2. q \in Nat /\ r \in 0..9 /\ v = q * 10 + r /\ q \in 0..v - 1
    <3> HIDE DEF v
    <3>1. 10 - 1 = 9
      OBVIOUS
    <3> QED BY <1>0, <2>1, <3>1, Quotients
  <2>3. Digits(v, 10) = Append(s, c) /\ s \in Seq(Hex)
    <3> HIDE DEF v
    <3> QED BY <1>0, <2>1, <2>2, DigitsStep
  <2> HIDE DEF v, q, r, s
  <2>4. r \in 0..15 /\ c \in PutChars /\ IsDigit(c)
    <3>1. r \in 0..15
      BY <2>2
    <3> QED BY <2>2, <3>1 DEF Hex, PutChars, IsDigit
  <2>5. DigitOf(c) = r
    BY <2>4, DigitIs
  <2> HIDE DEF c
  <2>6. s \in Seq(PutChars)
    BY <2>3 DEF PutChars
  <2>7. p \o Append(s, c) = Append(p \o s, c) /\ p \o s \in Seq(PutChars)
    BY <1>1, <2>4, <2>6
  <2>8. atoi(p \o Digits(v, 10)) = Signed(10 * atoi(p \o s) + r, IntHalf)
    <3> DEFINE w == p \o s
    <3>1. p \o Digits(v, 10) = Append(w, c) /\ w \in Seq(PutChars)
      BY <2>3, <2>7
    <3> HIDE DEF w
    <3>2. atoi(Append(w, c)) = Signed(10 * atoi(w) + r, IntHalf)
      BY <2>4, <2>5, <3>1, AtoiStep
    <3> QED BY <3>1, <3>2 DEF w
  <2>9. v <= IntHalf => Good(v)
    <3> SUFFICES ASSUME v <= IntHalf PROVE Good(v)
      OBVIOUS
    <3>1. q \in 0..n /\ q <= IntHalf /\ q \in 0..IntHalf - 1
      BY <1>0, <2>1, <2>2 DEF v
    <3>2. Good(q)
      <4> HIDE DEF Good
      <4> QED BY <1>3, <3>1
    <3>3. atoi(p \o s) = Signed(q, IntHalf)
      BY <3>2 DEF s
    <3>4. Signed(q, IntHalf) = q
      BY <1>0, <2>2, <3>1, LowBits
    <3>5. 10 * q + r = v
      BY <2>2
    <3> QED BY <2>8, <3>3, <3>4, <3>5
  <2>10. ASSUME NEW k \in 0..v, k <= IntHalf PROVE Good(k)
    <3>1. CASE k = v
      <4> HIDE DEF Good
      <4> QED BY <2>9, <2>10, <3>1
    <3>2. CASE k # v
      <4>1. k \in 0..n
        BY <3>2 DEF v
      <4> HIDE DEF Good
      <4> QED BY <1>3, <2>10, <4>1
    <3> QED BY <3>1, <3>2
  <2> HIDE DEF Good
  <2> QED BY <2>1, <2>10 DEF v
<1>4. \A n \in Nat : n \in T
  <2> HIDE DEF T
  <2> QED BY <1>2, <1>3, SetInduction
<1>5. ASSUME NEW v \in 0..IntHalf PROVE Good(v)
  <2>1. v \in 0..v /\ v \in T /\ v <= IntHalf
    BY <1>0, <1>4
  <2> HIDE DEF Good
  <2> QED BY <2>1
<1> QED BY <1>5

----------------------------------------------------------------------------
(* What each conversion prints.                                            *)

\* The magnitude of a negative value, the most negative one included, fits the unsigned type.
LEMMA NegatedIs ==
  ASSUME NEW half \in Nat \ {0}, NEW val \in -half..-1
  PROVE  Negated(val, half) = -val
<1>1. -val \in Int /\ -val \in 0..2 * half - 1
  OBVIOUS
<1> QED BY <1>1, LowBits DEF Negated

\* "0" is the numeral of 0.
LEMMA ZeroShows == Numeral(Zero, 0, 10) /\ Zero \in Seq(PutChars)
<1>1. "0" = DigitChars[0 + 1] /\ 0 \in 0..15
  BY DEF DigitChars
<1>2. "0" \in Hex /\ DigitOf("0") = 0
  BY <1>1, DigitIs DEF Hex
<1>3. 10 \in Bases /\ <<>> \in Seq(Hex) /\ Zero = Append(<<>>, "0")
  BY DEF Bases, Zero
<1>4. Value(Zero, 10) = 0
  <2>1. Value(<<>>, 10) = 0
    BY <1>2, <1>3, ValueStep
  <2>2. Value(Append(<<>>, "0"), 10) = 0 * 10 + 0
    BY <1>2, <1>3, <2>1, ValueStep
  <2> QED BY <1>3, <2>2
<1>5. Zero # <<>> /\ Len(Zero) = 1 /\ Zero[1] = "0" /\ \A k \in 1..1 : Zero[k] = "0"
  BY DEF Zero
<1>6. \A k \in 1..1 : \E m \in 0..10 - 1 : Zero[k] = DigitChars[m + 1]
  BY <1>1, <1>5
<1>7. Zero \in Seq(PutChars)
  BY <1>2 DEF Zero, PutChars
<1> QED BY <1>4, <1>5, <1>6, <1>7 DEF Numeral

\* The digits of a number other than 0, in general.
LEMMA DigitsShow ==
  ASSUME NEW b \in Bases, NEW n \in Nat
  PROVE  /\ Digits(n, b) \in Seq(Hex) /\ Digits(n, b) \in Seq(PutChars)
         /\ n = 0 => Digits(n, b) = <<>>
         /\ n # 0 => Numeral(Digits(n, b), n, b) /\ Digits(n, b) # <<>> /\ Len(Digits(n, b)) >= 1
<1>1. Digits(n, b) \in Seq(Hex) /\ (n = 0 => Digits(n, b) = <<>>)
  BY DigitsStep
<1>2. Digits(n, b) \in Seq(PutChars)
  BY <1>1 DEF PutChars
<1>3. n # 0 => Numeral(Digits(n, b), n, b)
  BY DigitsNumeral
<1>4. n # 0 => Digits(n, b) # <<>>
  BY <1>3 DEF Numeral
<1>5. n # 0 => Len(Digits(n, b)) >= 1
  BY <1>1, <1>4
<1> QED BY <1>1, <1>2, <1>3, <1>4, <1>5

\* putint and putl show every value but 0, for which they print nothing.
LEMMA SignedShows ==
  ASSUME NEW half \in Nat \ {0}, NEW val \in -half..half - 1
  PROVE  /\ PutSigned(val, half) \in Seq(PutChars)
         /\ val = 0 => PutSigned(val, half) = <<>>
         /\ val # 0 => ShowsSigned(PutSigned(val, half), val)
<1>0. 10 \in Bases /\ "-" \in PutChars
  BY DEF Bases, PutChars
<1>1. CASE val < 0
  <2> DEFINE n == -val
             s == Digits(n, 10)
  <2>1. n \in Nat /\ n # 0 /\ val \in -half..-1
    BY <1>1
  <2>2. s \in Seq(PutChars) /\ Numeral(s, n, 10)
    <3> HIDE DEF n
    <3> QED BY <1>0, <2>1, DigitsShow
  <2>3. PutSigned(val, half) = <<"-">> \o s
    BY <1>1, <2>1, NegatedIs DEF PutSigned
  <2> HIDE DEF s
  <2>4. /\ <<"-">> \o s \in Seq(PutChars) /\ <<"-">> \o s # <<>>
        /\ (<<"-">> \o s)[1] = "-" /\ Tail(<<"-">> \o s) = s
    BY <1>0, <2>2
  <2>5. ShowsSigned(<<"-">> \o s, val)
    BY <1>1, <2>2, <2>4 DEF ShowsSigned
  <2> QED BY <1>1, <2>3, <2>4, <2>5
<1>2. CASE ~ (val < 0)
  <2>1. val \in Nat /\ PutSigned(val, half) = Digits(val, 10)
    BY <1>2 DEF PutSigned
  <2> QED BY <1>0, <1>2, <2>1, DigitsShow DEF ShowsSigned
<1> QED BY <1>1, <1>2

\* A prefix of two characters and what follows it.
LEMMA BehindPrefix ==
  ASSUME NEW S, NEW p \in Seq(S), Len(p) = 2, NEW s \in Seq(S)
  PROVE  SubSeq(p \o s, 1, 2) = p /\ SubSeq(p \o s, 3, Len(p \o s)) = s
<1>0. p \o s \in Seq(S) /\ Len(p \o s) = Len(p) + Len(s) /\ Len(s) \in Nat
  BY ConcatProperties, LenProperties
<1>1. p \o s \in Seq(S) /\ Len(p \o s) = 2 + Len(s) /\ Len(s) \in Nat
  BY <1>0
<1>2. SubSeq(p \o s, 3, Len(p \o s)) = s
  BY <1>1
<1> DEFINE t == SubSeq(p \o s, 1, 2)
<1>3. t \in Seq(S) /\ Len(t) = 2 /\ t[1] = p[1] /\ t[2] = p[2]
  BY <1>1
<1> HIDE DEF t
<1>4. t = p
  BY <1>3
<1> QED BY <1>2, <1>4 DEF t

\* puthex and putptr show every value but 0.
LEMMA HexShows ==
  ASSUME NEW n \in Nat
  PROVE  /\ <<"0", "x">> \o Digits(n, 16) \in Seq(PutChars)
         /\ ShowsHex(<<"0", "x">> \o Digits(n, 16), n) <=> n # 0
<1> DEFINE s == Digits(n, 16)
           p == <<"0", "x">>
<1>0. 16 \in Bases
  BY DEF Bases
<1>1. s \in Seq(PutChars) /\ (n = 0 => s = <<>>) /\ (n # 0 => Numeral(s, n, 16) /\ Len(s) >= 1)
  BY <1>0, DigitsShow
<1> HIDE DEF s
<1>2. p \in Seq(PutChars) /\ Len(p) = 2
  <2>1. "0" = DigitChars[0 + 1] /\ 0 \in 0..15
    BY DEF DigitChars
  <2>2. "0" \in Hex
    BY <2>1 DEF Hex
  <2> QED BY <2>2 DEF PutChars
<1>3. p \o s \in Seq(PutChars) /\ Len(p \o s) = 2 + Len(s) /\ Len(s) \in Nat
  BY <1>1, <1>2
<1>4. CASE n = 0
  <2>1. ~ (Len(p \o s) > 2)
    BY <1>1, <1>3, <1>4
  <2> QED BY <1>3, <1>4, <2>1 DEF ShowsHex, s
<1>5. CASE n # 0
  <2>1. SubSeq(p \o s, 1, 2) = p /\ SubSeq(p \o s, 3, Len(p \o s)) = s
    <3> HIDE DEF p
    <3> QED BY <1>1, <1>2, BehindPrefix
  <2>3. Len(p \o s) > 2
    BY <1>1, <1>3, <1>5
  <2> QED BY <1>1, <1>3, <1>5, <2>1, <2>3 DEF ShowsHex, s
<1> QED BY <1>4, <1>5

\* %p of a null pointer leaves a byte of the buffer as it was.
LEMMA NullPointer ==
  <<"0", "x">> \o <<Garbage>> \in Seq(PutChars) /\ ~ ShowsHex(<<"0", "x">> \o <<Garbage>>, 0)
<1> DEFINE s == <<"0", "x">> \o <<Garbage>>
<1>1. "0" = DigitChars[0 + 1] /\ 0 \in 0..15
  BY DEF DigitChars
<1>2. "0" \in Hex
  BY <1>1 DEF Hex
<1>3. s \in Seq(PutChars) /\ Len(s) = 3
  BY <1>2 DEF PutChars
<1>4. SubSeq(s, 3, Len(s)) = <<Garbage>>
  <2> DEFINE p == <<"0", "x">>
             t == <<Garbage>>
  <2>1. p \in Seq(PutChars) /\ Len(p) = 2 /\ t \in Seq(PutChars)
    BY <1>2 DEF PutChars
  <2>2. s = p \o t
    OBVIOUS
  <2> HIDE DEF p, t, s
  <2>3. SubSeq(p \o t, 3, Len(p \o t)) = t
    BY <2>1, BehindPrefix
  <2> QED BY <2>2, <2>3 DEF t
<1>5. ~ Numeral(<<Garbage>>, 0, 16)
  <2>1. 1 \in 1..Len(<<Garbage>>) /\ <<Garbage>>[1] = Garbage /\ 16 - 1 = 15
    OBVIOUS
  <2>2. ~ \E m \in 0..15 : <<Garbage>>[1] = DigitChars[m + 1]
    BY <2>1, DigitsDiffer
  <2> QED BY <2>1, <2>2 DEF Numeral
<1>6. ~ ShowsHex(s, 0)
  BY <1>4, <1>5 DEF ShowsHex
<1> QED BY <1>3, <1>6

Longs == 0..2 * LongHalf - 1

\* Every conversion shows its argument, but for the zeros of %l, %x and %p.
LEMMA PutShows ==
  ASSUME NEW d \in Directives, NEW v \in Longs
  PROVE  Put(d, v) \in Seq(PutChars) /\ (Shows(Put(d, v), d, v) <=> ~ ZeroCase(d, v))
<1>0. IntHalf \in Nat \ {0} /\ LongHalf \in Nat \ {0} /\ v \in Nat /\ v \in Int /\ 10 \in Bases /\ 16 \in Bases
  BY FormatAssumption DEF Longs, Bases
<1>1. CASE d = "d"
  <2> DEFINE n == Signed(v, IntHalf)
  <2>1. n \in -IntHalf..IntHalf - 1
    BY <1>0, LowBits
  <2>2. Put(d, v) = IF n = 0 THEN Zero ELSE PutSigned(n, IntHalf)
    BY <1>1 DEF Put, putint
  <2>3. Shows(Put(d, v), d, v) <=> ShowsSigned(Put(d, v), n)
    BY <1>1 DEF Shows
  <2>4. ~ ZeroCase(d, v)
    BY <1>1 DEF ZeroCase
  <2> HIDE DEF n
  <2>5. Put(d, v) \in Seq(PutChars) /\ ShowsSigned(Put(d, v), n)
    <3>1. CASE n = 0
      BY <2>2, <3>1, ZeroShows DEF ShowsSigned
    <3>2. CASE n # 0
      BY <1>0, <2>1, <2>2, <3>2, SignedShows
    <3> QED BY <3>1, <3>2
  <2> QED BY <2>3, <2>4, <2>5
<1>2. CASE d = "u"
  <2> DEFINE n == Unsigned(v, IntHalf)
  <2>1. n \in 0..2 * IntHalf - 1
    BY <1>0, LowBits
  <2>2. Put(d, v) = IF n = 0 THEN Zero ELSE Digits(n, 10)
    BY <1>2 DEF Put, putuint
  <2>3. Shows(Put(d, v), d, v) <=> Numeral(Put(d, v), n, 10)
    BY <1>2 DEF Shows
  <2>4. ~ ZeroCase(d, v)
    BY <1>2 DEF ZeroCase
  <2> HIDE DEF n
  <2>5. n \in Nat
    BY <2>1
  <2>6. Put(d, v) \in Seq(PutChars) /\ Numeral(Put(d, v), n, 10)
    BY <1>0, <2>2, <2>5, ZeroShows, DigitsShow
  <2> QED BY <2>3, <2>4, <2>6
<1>3. CASE d = "x"
  <2> DEFINE n == Unsigned(v, IntHalf)
  <2>1. n \in 0..2 * IntHalf - 1
    BY <1>0, LowBits
  <2>2. Put(d, v) = <<"0", "x">> \o Digits(n, 16)
    BY <1>3 DEF Put, puthex
  <2>3. Shows(Put(d, v), d, v) <=> ShowsHex(Put(d, v), n)
    BY <1>3 DEF Shows
  <2>4. ZeroCase(d, v) <=> n = 0
    BY <1>3 DEF ZeroCase
  <2> HIDE DEF n
  <2>5. n \in Nat
    BY <2>1
  <2>6. Put(d, v) \in Seq(PutChars) /\ (ShowsHex(Put(d, v), n) <=> n # 0)
    BY <2>2, <2>5, HexShows
  <2> QED BY <2>3, <2>4, <2>6
<1>4. CASE d = "p"
  <2>2. Put(d, v) = <<"0", "x">> \o (IF v = 0 THEN <<Garbage>> ELSE Digits(v, 16))
    BY <1>4 DEF Put, putptr
  <2>3. Shows(Put(d, v), d, v) <=> ShowsHex(Put(d, v), v)
    BY <1>4 DEF Shows
  <2>4. ZeroCase(d, v) <=> v = 0
    BY <1>4 DEF ZeroCase
  <2>5. Put(d, v) \in Seq(PutChars) /\ (ShowsHex(Put(d, v), v) <=> v # 0)
    <3>1. CASE v = 0
      <4>1. Put(d, v) = <<"0", "x">> \o <<Garbage>>
        BY <2>2, <3>1
      <4> QED BY <3>1, <4>1, NullPointer, Zenon
    <3>2. CASE v # 0
      <4>1. Put(d, v) = <<"0", "x">> \o Digits(v, 16)
        BY <2>2, <3>2
      <4> QED BY <1>0, <3>2, <4>1, HexShows
    <3> QED BY <3>1, <3>2
  <2> QED BY <2>3, <2>4, <2>5
<1>5. CASE d = "l"
  <2> DEFINE n == Signed(v, LongHalf)
  <2>1. n \in -LongHalf..LongHalf - 1 /\ (n = 0 <=> v = 0)
    <3>1. n \in -LongHalf..LongHalf - 1
      BY <1>0, LowBits
    <3>2. n = 0 => v = 0
      BY <1>0, LowBits DEF Longs
    <3>3. v = 0 => n = 0
      <4>1. 0 \in 0..LongHalf - 1
        BY <1>0
      <4> QED BY <1>0, <4>1, LowBits
    <3> QED BY <3>1, <3>2, <3>3
  <2>2. Put(d, v) = PutSigned(n, LongHalf)
    BY <1>5 DEF Put, putl
  <2>3. Shows(Put(d, v), d, v) <=> ShowsSigned(Put(d, v), n)
    BY <1>5 DEF Shows
  <2>4. ZeroCase(d, v) <=> v = 0
    BY <1>5 DEF ZeroCase
  <2> HIDE DEF n
  <2>5. Put(d, v) \in Seq(PutChars) /\ (ShowsSigned(Put(d, v), n) <=> n # 0)
    <3>1. CASE n = 0
      <4>1. ~ ShowsSigned(<<>>, 0)
        BY DEF ShowsSigned, Numeral
      <4> QED BY <1>0, <2>1, <2>2, <3>1, <4>1, SignedShows
    <3>2. CASE n # 0
      BY <1>0, <2>1, <2>2, <3>2, SignedShows
    <3> QED BY <3>1, <3>2
  <2> QED BY <2>1, <2>3, <2>4, <2>5
<1>6. CASE d = "s"
  <2>1. Put(d, v) = putstr(v)
    BY <1>6 DEF Put
  <2>2. Shows(Put(d, v), d, v) /\ ~ ZeroCase(d, v)
    BY <1>6, <2>1 DEF Shows, ZeroCase
  <2>3. putstr(v) \in Seq(PutChars)
    <3>1. <<"(", "n", "u", "l", "l", ")">> \in Seq(PutChars)
      BY DEF PutChars
    <3>2. <<"s">> \in Seq(PutChars)
      BY DEF PutChars
    <3> QED BY <3>1, <3>2 DEF putstr
  <2> QED BY <2>1, <2>2, <2>3
<1>7. CASE d = "L"
  <2>2. Put(d, v) = IF v = 0 THEN Zero ELSE Digits(v, 10)
    BY <1>7 DEF Put, putul
  <2>3. Shows(Put(d, v), d, v) <=> Numeral(Put(d, v), v, 10)
    BY <1>7 DEF Shows
  <2>4. ~ ZeroCase(d, v)
    BY <1>7 DEF ZeroCase
  <2>6. Put(d, v) \in Seq(PutChars) /\ Numeral(Put(d, v), v, 10)
    BY <1>0, <2>2, ZeroShows, DigitsShow
  <2> QED BY <2>3, <2>4, <2>6
<1> QED BY <1>1, <1>2, <1>3, <1>4, <1>5, <1>6, <1>7 DEF Directives

\* atoi undoes %d up to the sign.
LEMMA PutReadBack ==
  ASSUME NEW v \in Longs
  PROVE  LET n == Signed(v, IntHalf)
         IN  Unsigned(atoi(Put("d", v)), IntHalf) = (IF n < 0 THEN -n ELSE n)
<1> DEFINE n == Signed(v, IntHalf)
           a == IF n < 0 THEN -n ELSE n
           p == IF n < 0 THEN <<"-">> ELSE <<>>
<1>0. IntHalf \in Nat \ {0} /\ v \in Int /\ 10 \in Bases
  BY FormatAssumption DEF Longs, Bases
<1>1. n \in -IntHalf..IntHalf - 1
  BY <1>0, LowBits
<1>2. Put("d", v) = IF n = 0 THEN Zero ELSE PutSigned(n, IntHalf)
  BY DEF Put, putint
<1> HIDE DEF n
<1>3. a \in 0..IntHalf /\ a \in Int
  BY <1>0, <1>1
<1>4. Unsigned(Signed(a, IntHalf), IntHalf) = a
  <2> HIDE DEF a
  <2>1. CASE a = IntHalf
    BY <1>0, <1>3, <2>1, LowBits, LowBitsBack
  <2>2. CASE a # IntHalf
    <3>1. a \in 0..IntHalf - 1 /\ a \in 0..2 * IntHalf - 1
      BY <1>0, <1>3, <2>2
    <3>2. Signed(a, IntHalf) = a
      BY <1>0, <1>3, <3>1, LowBits
    <3>3. Unsigned(a, IntHalf) = a
      BY <1>0, <1>3, <3>1, LowBits
    <3> QED BY <3>2, <3>3
  <2> QED BY <2>1, <2>2
<1>5. CASE n = 0
  <2>1. "0" = DigitChars[0 + 1] /\ 0 \in 0..15 /\ 0 \in 0..9
    BY DEF DigitChars
  <2>2. IsDigit("0") /\ DigitOf("0") = 0 /\ "0" \in Hex
    BY <2>1, DigitIs DEF IsDigit, Hex
  <2>3. <<>> \in Seq(Hex) /\ Zero = Append(<<>>, "0")
    BY DEF Zero
  <2>4. atoi(<<>>) = 0
    BY <2>2, <2>3, AtoiStep
  <2>5. atoi(Zero) = Signed(10 * 0 + 0, IntHalf)
    BY <2>2, <2>3, <2>4, AtoiStep
  <2>6. 10 * 0 + 0 = 0 /\ a = 0
    BY <1>5
  <2> HIDE DEF a
  <2>7. Unsigned(atoi(Put("d", v)), IntHalf) = a
    BY <1>2, <1>4, <1>5, <2>5, <2>6
  <2> QED BY <2>7 DEF a, n
<1>6. CASE n # 0
  <2>1. PutSigned(n, IntHalf) = p \o Digits(a, 10)
    <3>1. CASE n < 0
      <4>1. n \in -IntHalf..-1
        BY <1>1, <3>1
      <4> QED BY <1>0, <3>1, <4>1, NegatedIs DEF PutSigned
    <3>2. CASE ~ (n < 0)
      <4>1. Digits(n, 10) \in Seq(Hex)
        BY <1>0, <1>1, <3>2, DigitsShow
      <4>2. <<>> \o Digits(n, 10) = Digits(n, 10)
        BY <4>1
      <4> QED BY <3>2, <4>2 DEF PutSigned
    <3> QED BY <3>1, <3>2
  <2>2. p \in {<<>>, <<"-">>}
    OBVIOUS
  <2> HIDE DEF a, p
  <2>3. atoi(p \o Digits(a, 10)) = Signed(a, IntHalf)
    BY <1>3, <2>2, AtoiReads
  <2>4. Unsigned(atoi(Put("d", v)), IntHalf) = a
    BY <1>2, <1>4, <1>6, <2>1, <2>3
  <2> QED BY <2>4 DEF a, n
<1> QED BY <1>5, <1>6

----------------------------------------------------------------------------
(* The loop of Sprintf.                                                    *)

SpanRecord == [dir : Directives, val : Longs, at : Nat, from : Nat, to : Nat]
FormatTypes ==
  /\ fmt \in Seq(STRING) /\ (\A k \in 1..Len(fmt) : fmt[k] # Nul) /\ arg \in Seq(Longs)
  /\ fi \in 1..Len(fmt) + 1 /\ ret \in 0..DstLen /\ spans \in Seq(SpanRecord)
  /\ DOMAIN fdst = 1..DstLen /\ fdst = [k \in 1..DstLen |-> fdst[k]]
  /\ fpc \in {"loop", "returned", "undefined"}

\* Conversion k has left its characters, behind which nothing has been written yet
\* or only later output.
SpanHolds(k) ==
  LET s == Put(spans[k].dir, spans[k].val) IN
    /\ spans[k].from >= 1 /\ spans[k].to = spans[k].from + Len(s) - 1 /\ spans[k].to <= ret
    /\ \A j \in 1..Len(s) : fdst[spans[k].from + j - 1] = s[j]

FormatInv ==
  /\ FormatTypes
  /\ \A k \in 1..Len(spans) : SpanHolds(k)
  /\ \A n \in 0..Len(spans) : SameText(n, fi)
  /\ fpc = "returned" => fi = Len(fmt) + 1 /\ ret + 1 \in 1..DstLen /\ fdst[ret + 1] = Nul

\* Where the pieces of text lie.
LEMMA Pieces ==
  ASSUME FormatInv, NEW n \in 0..Len(spans)
  PROVE  /\ FmtFrom(n) \in Nat /\ DstFrom(n) \in Nat /\ DstFrom(n) >= 1 /\ DstTo(n) \in Nat
         /\ FmtTo(n, fi) \in Nat /\ DstTo(n) <= ret + 1 /\ DstFrom(n) <= DstTo(n)
         /\ FmtTo(n, fi) - FmtFrom(n) = DstTo(n) - DstFrom(n)
<1>0. /\ spans \in Seq(SpanRecord) /\ Len(spans) \in Nat /\ ret \in Nat /\ fi \in Nat
      /\ \A k \in 1..Len(spans) : spans[k] \in SpanRecord
  BY DEF FormatInv, FormatTypes
<1>1. ASSUME NEW k \in 1..Len(spans)
      PROVE  /\ spans[k].at \in Nat /\ spans[k].from \in Nat /\ spans[k].to \in Nat
             /\ spans[k].from >= 1 /\ spans[k].to >= spans[k].from - 1 /\ spans[k].to <= ret
  <2>1. spans[k] \in SpanRecord
    BY <1>0
  <2>2. /\ spans[k].at \in Nat /\ spans[k].from \in Nat /\ spans[k].to \in Nat
        /\ spans[k].dir \in Directives /\ spans[k].val \in Longs
    BY <2>1 DEF SpanRecord
  <2> DEFINE s == Put(spans[k].dir, spans[k].val)
  <2>3. Len(s) \in Nat
    <3>1. s \in Seq(PutChars)
      BY <2>2, PutShows
    <3> QED BY <3>1, LenProperties
  <2>4. spans[k].from >= 1 /\ spans[k].to = spans[k].from + Len(s) - 1 /\ spans[k].to <= ret
    BY DEF FormatInv, SpanHolds
  <2> HIDE DEF s
  <2> QED BY <1>0, <2>2, <2>3, <2>4
<1>2. FmtFrom(n) \in Nat /\ DstFrom(n) \in Nat /\ DstFrom(n) >= 1
  <2>1. CASE n = 0
    BY <2>1 DEF FmtFrom, DstFrom
  <2>2. CASE n # 0
    <3>1. n \in 1..Len(spans)
      BY <1>0, <2>2
    <3> QED BY <1>1, <2>2, <3>1 DEF FmtFrom, DstFrom
  <2> QED BY <2>1, <2>2
<1>3. FmtTo(n, fi) \in Nat /\ DstTo(n) \in Nat /\ DstTo(n) <= ret + 1
  <2>1. CASE n = Len(spans)
    BY <1>0, <2>1 DEF FmtTo, DstTo
  <2>2. CASE n # Len(spans)
    <3>1. n + 1 \in 1..Len(spans)
      BY <1>0, <2>2
    <3>2. spans[n + 1].from <= ret + 1
      BY <1>0, <1>1, <3>1
    <3> QED BY <1>1, <2>2, <3>1, <3>2 DEF FmtTo, DstTo
  <2> QED BY <2>1, <2>2
<1>4. FmtTo(n, fi) - FmtFrom(n) = DstTo(n) - DstFrom(n) /\ FmtFrom(n) <= FmtTo(n, fi)
  BY DEF FormatInv, SameText
<1> HIDE DEF FormatInv
<1> QED BY <1>2, <1>3, <1>4

\* Writing changes nothing before the position it starts at.
LEMMA WrittenIs ==
  ASSUME NEW S, NEW s \in Seq(S), FormatTypes, Fits(s), Written(s)
  PROVE  /\ DOMAIN fdst' = 1..DstLen /\ fdst' = [k \in 1..DstLen |-> fdst'[k]]
         /\ \A k \in 1..ret : fdst'[k] = fdst[k]
         /\ \A j \in 1..Len(s) : fdst'[ret + j] = s[j]
         /\ ret + Len(s) \in 0..DstLen /\ Len(s) \in Nat
<1>0. Len(s) \in Nat /\ ret \in 0..DstLen /\ DstLen \in Nat /\ ret + Len(s) <= DstLen
  BY FormatAssumption, LenProperties DEF FormatTypes, Fits
<1>1. fdst' = [k \in 1..DstLen |-> IF k \in ret + 1..ret + Len(s) THEN s[k - ret] ELSE fdst[k]]
  BY DEF Written
<1>2. ASSUME NEW k \in 1..ret PROVE fdst'[k] = fdst[k]
  <2>1. k \in 1..DstLen /\ k \notin ret + 1..ret + Len(s)
    BY <1>0
  <2> QED BY <1>1, <2>1
<1>3. ASSUME NEW j \in 1..Len(s) PROVE fdst'[ret + j] = s[j]
  <2>1. ret + j \in 1..DstLen /\ ret + j \in ret + 1..ret + Len(s) /\ (ret + j) - ret = j
    BY <1>0
  <2> QED BY <1>1, <2>1
<1>4. DOMAIN fdst' = 1..DstLen /\ fdst' = [k \in 1..DstLen |-> fdst'[k]]
  BY <1>1
<1> QED BY <1>0, <1>2, <1>3, <1>4

\* What was there before a step is still there.
LEMMA EarlierKept ==
  ASSUME FormatInv, \A k \in 1..ret : fdst'[k] = fdst[k], ret' \in Nat, ret' >= ret,
         UNCHANGED fmt, \A k \in 1..Len(spans) : spans'[k] = spans[k]
  PROVE  /\ \A k \in 1..Len(spans) : SpanHolds(k)'
         /\ \A n \in 0..Len(spans) : FmtFrom(n)' = FmtFrom(n) /\ DstFrom(n)' = DstFrom(n)
         /\ \A k : IsConversion(k)' <=> IsConversion(k)
         /\ \A n \in 0..Len(spans) : \A k \in 0..FmtTo(n, fi) - FmtFrom(n) - 1 :
              fdst'[DstFrom(n) + k] = fmt[FmtFrom(n) + k] /\ ~ IsConversion(FmtFrom(n) + k)
<1>0. /\ Len(spans) \in Nat /\ ret \in Nat
      /\ \A k \in 1..Len(spans) : spans[k] \in SpanRecord
  BY DEF FormatInv, FormatTypes
<1>1. ASSUME NEW k \in 1..Len(spans) PROVE SpanHolds(k)'
  <2> DEFINE s == Put(spans[k].dir, spans[k].val)
             a == spans[k].from
             b == spans[k].to
  <2>1. spans'[k] = spans[k] /\ spans[k] \in SpanRecord
    BY <1>0
  <2>2. a \in Nat /\ b \in Nat /\ spans[k].dir \in Directives /\ spans[k].val \in Longs
    BY <2>1 DEF SpanRecord
  <2>3. Len(s) \in Nat
    <3>1. s \in Seq(PutChars)
      BY <2>2, PutShows
    <3> QED BY <3>1, LenProperties
  <2>4. a >= 1 /\ b = a + Len(s) - 1 /\ b <= ret /\ \A j \in 1..Len(s) : fdst[a + j - 1] = s[j]
    BY DEF FormatInv, SpanHolds
  <2>5. SpanHolds(k)' <=> /\ a >= 1 /\ b = a + Len(s) - 1 /\ b <= ret'
                          /\ \A j \in 1..Len(s) : fdst'[a + j - 1] = s[j]
    BY <2>1 DEF SpanHolds
  <2> HIDE DEF s, a, b
  <2>6. ASSUME NEW j \in 1..Len(s) PROVE fdst'[a + j - 1] = s[j]
    <3>1. a + j - 1 \in 1..ret
      BY <1>0, <2>2, <2>3, <2>4
    <3> QED BY <2>4, <3>1
  <2>7. b <= ret'
    BY <1>0, <2>2, <2>4
  <2> QED BY <2>4, <2>5, <2>6, <2>7
<1>2. ASSUME NEW n \in 0..Len(spans) PROVE FmtFrom(n)' = FmtFrom(n) /\ DstFrom(n)' = DstFrom(n)
  <2>1. n # 0 => n \in 1..Len(spans)
    BY <1>0
  <2> QED BY <2>1 DEF FmtFrom, DstFrom
<1>3. ASSUME NEW k PROVE IsConversion(k)' <=> IsConversion(k)
  BY DEF IsConversion, At
<1>4. ASSUME NEW n \in 0..Len(spans), NEW k \in 0..FmtTo(n, fi) - FmtFrom(n) - 1
      PROVE  fdst'[DstFrom(n) + k] = fmt[FmtFrom(n) + k] /\ ~ IsConversion(FmtFrom(n) + k)
  <2>1. fdst[DstFrom(n) + k] = fmt[FmtFrom(n) + k] /\ ~ IsConversion(FmtFrom(n) + k)
    BY DEF FormatInv, SameText
  <2>2. DstFrom(n) + k \in 1..ret
    <3> DEFINE a == FmtFrom(n)
               b == DstFrom(n)
               x == FmtTo(n, fi)
               y == DstTo(n)
    <3>1. /\ a \in Nat /\ b \in Nat /\ x \in Nat /\ y \in Nat /\ b >= 1
          /\ y <= ret + 1 /\ x - a = y - b /\ k \in 0..x - a - 1
      BY Pieces
    <3> HIDE DEF a, b, x, y
    <3>2. b + k \in 1..ret
      BY <1>0, <3>1
    <3> QED BY <3>2 DEF b
  <2> QED BY <2>1, <2>2
<1> QED BY <1>1, <1>2, <1>3, <1>4

\* A character of the format string is copied.
LEMMA CharKeeps ==
  ASSUME FormatInv, NEW c, At(fi) = c, c # Nul, ~ IsConversion(fi), Fits(<<c>>), Written(<<c>>),
         ret' = ret + 1, fi' = fi + 1, fpc = "loop", UNCHANGED <<fmt, arg, spans, fpc>>
  PROVE  FormatInv'
<1>0. FormatTypes /\ fi \in Nat /\ ret \in Nat /\ Len(spans) \in Nat /\ Len(fmt) \in Nat
  BY DEF FormatInv, FormatTypes
<1>1. /\ DOMAIN fdst' = 1..DstLen /\ fdst' = [k \in 1..DstLen |-> fdst'[k]]
      /\ \A k \in 1..ret : fdst'[k] = fdst[k]
      /\ fdst'[ret + 1] = c /\ ret + 1 \in 0..DstLen
  <2> DEFINE s == <<c>>
  <2>1. s \in Seq({c}) /\ Len(s) = 1 /\ s[1] = c /\ 1 \in 1..Len(s)
    OBVIOUS
  <2> HIDE DEF s
  <2>2. Fits(s) /\ Written(s)
    BY DEF s
  <2> QED BY <1>0, <2>1, <2>2, WrittenIs
<1>2. fi \in 1..Len(fmt) /\ fmt[fi] = c
  BY <1>0 DEF At, FormatTypes
<1>3. FormatTypes'
  BY <1>0, <1>1, <1>2 DEF FormatTypes
<1>4. /\ \A k \in 1..Len(spans) : SpanHolds(k)'
      /\ \A n \in 0..Len(spans) : FmtFrom(n)' = FmtFrom(n) /\ DstFrom(n)' = DstFrom(n)
      /\ \A k : IsConversion(k)' <=> IsConversion(k)
      /\ \A n \in 0..Len(spans) : \A k \in 0..FmtTo(n, fi) - FmtFrom(n) - 1 :
           fdst'[DstFrom(n) + k] = fmt[FmtFrom(n) + k] /\ ~ IsConversion(FmtFrom(n) + k)
  <2>1. ret' \in Nat /\ ret' >= ret /\ UNCHANGED fmt /\ \A k \in 1..Len(spans) : spans'[k] = spans[k]
    BY <1>0
  <2> QED BY <1>1, <2>1, EarlierKept
<1>5. ASSUME NEW n \in 0..Len(spans) PROVE SameText(n, fi)'
  <2> DEFINE a == FmtFrom(n)
             b == DstFrom(n)
             x == FmtTo(n, fi)
             y == DstTo(n)
             x2 == IF n = Len(spans) THEN fi + 1 ELSE x
             y2 == IF n = Len(spans) THEN ret + 2 ELSE y
  <2>1. /\ a \in Nat /\ b \in Nat /\ x \in Nat /\ y \in Nat /\ x - a = y - b /\ b <= y /\ b >= 1
    BY Pieces
  <2>2. n = Len(spans) => x = fi /\ y = ret + 1
    BY DEF FmtTo, DstTo
  <2>3. FmtTo(n, fi)' = x2 /\ DstTo(n)' = y2
    <3>1. (ret + 1) + 1 = ret + 2
      BY <1>0
    <3> QED BY <3>1 DEF FmtTo, DstTo
  <2>4. FmtFrom(n)' = a /\ DstFrom(n)' = b
    BY <1>4
  <2>5. \A k \in 0..x - a - 1 : fdst'[b + k] = fmt[a + k] /\ ~ IsConversion(a + k)
    BY <1>4
  <2>6. SameText(n, fi)' <=>
          /\ x2 - a = y2 - b /\ a <= x2
          /\ \A k \in 0..x2 - a - 1 : fdst'[b + k] = fmt[a + k] /\ ~ IsConversion(a + k)
    BY <1>4, <2>3, <2>4 DEF SameText
  <2> HIDE DEF a, b, x, y
  <2>7. ASSUME NEW k \in 0..x2 - a - 1 PROVE fdst'[b + k] = fmt[a + k] /\ ~ IsConversion(a + k)
    <3>1. CASE k \in 0..x - a - 1
      BY <2>5, <3>1
    <3>2. CASE k \notin 0..x - a - 1
      <4>1. n = Len(spans) /\ a + k = fi /\ b + k = ret + 1
        BY <1>0, <2>1, <2>2, <3>2
      <4> QED BY <1>1, <1>2, <4>1
    <3> QED BY <3>1, <3>2
  <2>8. x2 - a = y2 - b /\ a <= x2
    BY <1>0, <2>1, <2>2
  <2> QED BY <2>6, <2>7, <2>8
<1> QED BY <1>3, <1>4, <1>5 DEF FormatInv

\* A conversion ends the text before it and begins the text behind it.
LEMMA DirectiveKeeps ==
  ASSUME FormatInv, Directive
  PROVE  FormatInv'
<1> DEFINE d == At(fi + 1)
           v == Head(arg)
           s == Put(d, v)
           r == [dir |-> d, val |-> v, at |-> fi, from |-> ret + 1, to |-> ret + Len(s)]
<1>0. FormatTypes /\ fi \in Nat /\ ret \in Nat /\ Len(spans) \in Nat /\ Len(fmt) \in Nat
      /\ spans \in Seq(SpanRecord)
  BY DEF FormatInv, FormatTypes
<1>m. PICK m \in Nat : m = Len(spans) + 1
  BY <1>0
<1>1. /\ fpc = "loop" /\ d \in Directives /\ arg # <<>> /\ Fits(s) /\ Written(s) /\ ret' = ret + Len(s)
      /\ spans' = Append(spans, r) /\ arg' = Tail(arg) /\ fi' = fi + 2 /\ UNCHANGED <<fmt, fpc>>
  BY DEF Directive, IsConversion
<1>2. v \in Longs /\ Tail(arg) \in Seq(Longs)
  BY <1>0, <1>1 DEF FormatTypes
<1>3. fi + 1 \in 1..Len(fmt)
  <2>1. Nul \notin Directives
    BY DEF Nul, Directives
  <2>2. fi + 1 <= Len(fmt)
    BY <1>1, <2>1 DEF At
  <2> QED BY <1>0, <1>m, <2>2
<1>4. s \in Seq(PutChars)
  BY <1>1, <1>2, PutShows
<1> HIDE DEF d, v, s
<1>5. /\ DOMAIN fdst' = 1..DstLen /\ fdst' = [k \in 1..DstLen |-> fdst'[k]]
      /\ \A k \in 1..ret : fdst'[k] = fdst[k]
      /\ \A j \in 1..Len(s) : fdst'[ret + j] = s[j]
      /\ ret + Len(s) \in 0..DstLen /\ Len(s) \in Nat
  BY <1>0, <1>1, <1>4, WrittenIs
<1>6. r \in SpanRecord
  BY <1>0, <1>1, <1>2, <1>5 DEF SpanRecord
<1>7. /\ Len(spans') = m /\ spans' \in Seq(SpanRecord) /\ spans'[m] = r
      /\ \A k \in 1..Len(spans) : spans'[k] = spans[k]
  <2> HIDE DEF r
  <2> QED BY <1>0, <1>1, <1>6, <1>m
<1>8. FormatTypes'
  <2> HIDE DEF r
  <2>1. fi + 2 \in 1..Len(fmt) + 1
    BY <1>0, <1>3
  <2>2. ret' \in 0..DstLen
    BY <1>1, <1>5
  <2>3. /\ fmt' \in Seq(STRING) /\ (\A k \in 1..Len(fmt') : fmt'[k] # Nul)
        /\ arg' \in Seq(Longs) /\ fi' \in 1..Len(fmt') + 1
        /\ fpc' \in {"loop", "returned", "undefined"}
    BY <1>0, <1>1, <1>2, <2>1 DEF FormatTypes
  <2> QED BY <1>5, <1>7, <2>2, <2>3 DEF FormatTypes
<1>9. /\ \A k \in 1..Len(spans) : SpanHolds(k)'
      /\ \A n \in 0..Len(spans) : FmtFrom(n)' = FmtFrom(n) /\ DstFrom(n)' = DstFrom(n)
      /\ \A k : IsConversion(k)' <=> IsConversion(k)
      /\ \A n \in 0..Len(spans) : \A k \in 0..FmtTo(n, fi) - FmtFrom(n) - 1 :
           fdst'[DstFrom(n) + k] = fmt[FmtFrom(n) + k] /\ ~ IsConversion(FmtFrom(n) + k)
  <2>1. ret' \in Nat /\ ret' >= ret /\ UNCHANGED fmt
    BY <1>0, <1>1, <1>5
  <2> QED BY <1>5, <1>7, <2>1, EarlierKept
<1>10. SpanHolds(m)'
  <2>1. /\ spans'[m].dir = d /\ spans'[m].val = v /\ spans'[m].from = ret + 1
        /\ spans'[m].to = ret + Len(s)
    BY <1>7
  <2>2. SpanHolds(m)' <=> /\ ret + 1 >= 1 /\ ret + Len(s) = ret + 1 + Len(s) - 1 /\ ret + Len(s) <= ret'
                          /\ \A j \in 1..Len(s) : fdst'[ret + 1 + j - 1] = s[j]
    <3> HIDE DEF r
    <3> QED BY <2>1 DEF SpanHolds, s
  <2>3. \A j \in 1..Len(s) : ret + 1 + j - 1 = ret + j
    BY <1>0, <1>5
  <2>4. \A j \in 1..Len(s) : fdst'[ret + 1 + j - 1] = s[j]
    BY <1>5, <2>3
  <2>5. ret + 1 >= 1 /\ ret + Len(s) = ret + 1 + Len(s) - 1 /\ ret + Len(s) <= ret'
    BY <1>0, <1>1, <1>5
  <2> QED BY <2>2, <2>4, <2>5
<1>11. ASSUME NEW n \in 0..m PROVE SameText(n, fi)'
  <2>1. CASE n = m
    <3>1. FmtFrom(n)' = fi + 2 /\ DstFrom(n)' = ret + Len(s) + 1
      <4>1. m # 0 /\ spans'[m].at = fi /\ spans'[m].to = ret + Len(s)
        BY <1>0, <1>7, <1>m
      <4> QED BY <2>1, <4>1 DEF FmtFrom, DstFrom
    <3>2. FmtTo(n, fi)' = fi + 2 /\ DstTo(n)' = ret + Len(s) + 1
      <4> HIDE DEF r
      <4> QED BY <1>1, <1>7, <2>1 DEF FmtTo, DstTo
    <3>3. \A k \in 0..(fi + 2) - (fi + 2) - 1 : FALSE
      BY <1>0
    <3>4. (fi + 2) - (fi + 2) = (ret + Len(s) + 1) - (ret + Len(s) + 1) /\ fi + 2 <= fi + 2
      BY <1>0, <1>5
    <3> HIDE DEF r
    <3> QED BY <3>1, <3>2, <3>3, <3>4 DEF SameText
  <2>2. CASE n # m
    <3>0. n \in 0..Len(spans)
      BY <1>0, <1>m, <2>2
    <3> DEFINE a == FmtFrom(n)
               b == DstFrom(n)
               x == FmtTo(n, fi)
               y == DstTo(n)
    <3>1. a \in Nat /\ b \in Nat /\ x \in Nat /\ y \in Nat /\ x - a = y - b /\ b <= y
      BY <3>0, Pieces
    <3>2. FmtTo(n, fi)' = x /\ DstTo(n)' = y
      <4>1. CASE n = Len(spans)
        <5>1. n # Len(spans') /\ n + 1 = m
          BY <1>7, <1>m, <2>2, <4>1
        <5>2. spans'[n + 1].at = fi /\ spans'[n + 1].from = ret + 1
          BY <1>7, <5>1
        <5> QED BY <4>1, <5>1, <5>2 DEF FmtTo, DstTo
      <4>2. CASE n # Len(spans)
        <5>1. n # Len(spans') /\ n + 1 \in 1..Len(spans)
          BY <1>0, <1>7, <1>m, <2>2, <3>0, <4>2
        <5>2. spans'[n + 1] = spans[n + 1]
          BY <1>7, <5>1
        <5> QED BY <4>2, <5>1, <5>2 DEF FmtTo, DstTo
      <4> QED BY <4>1, <4>2
    <3>3. FmtFrom(n)' = a /\ DstFrom(n)' = b
      BY <1>9, <3>0
    <3>4. \A k \in 0..x - a - 1 : fdst'[b + k] = fmt[a + k] /\ ~ IsConversion(a + k)
      BY <1>9, <3>0
    <3>5. SameText(n, fi)' <=>
            /\ x - a = y - b /\ a <= x
            /\ \A k \in 0..x - a - 1 : fdst'[b + k] = fmt[a + k] /\ ~ IsConversion(a + k)
      <4> HIDE DEF r
      <4> QED BY <1>1, <1>9, <3>2, <3>3 DEF SameText
    <3> HIDE DEF a, b, x, y
    <3>6. a <= x
      BY <3>1
    <3> QED BY <3>1, <3>4, <3>5, <3>6
  <2> QED BY <2>1, <2>2
<1>12. ASSUME NEW k \in 1..m PROVE SpanHolds(k)'
  <2>1. CASE k = m
    <3> QED BY <1>10, <2>1
  <2>2. CASE k # m
    <3>1. k \in 1..Len(spans)
      BY <1>0, <1>m, <2>2
    <3> QED BY <1>9, <3>1
  <2> QED BY <2>1, <2>2
<1> HIDE DEF r
<1> QED BY <1>1, <1>7, <1>8, <1>11, <1>12 DEF FormatInv

\* The zero byte goes behind the text, and only the end of the format string brings it.
LEMMA FinishKeeps ==
  ASSUME FormatInv, Finish
  PROVE  FormatInv'
<1>0. FormatTypes /\ fi \in Nat /\ ret \in Nat /\ Len(spans) \in Nat /\ Len(fmt) \in Nat
  BY DEF FormatInv, FormatTypes
<1>1. At(fi) = Nul /\ fpc' = "returned" /\ UNCHANGED <<fmt, arg, fi, ret, spans>>
  BY DEF Finish
<1>2. /\ DOMAIN fdst' = 1..DstLen /\ fdst' = [k \in 1..DstLen |-> fdst'[k]]
      /\ \A k \in 1..ret : fdst'[k] = fdst[k]
      /\ fdst'[ret + 1] = Nul /\ ret + 1 \in 1..DstLen
  <2> DEFINE s == <<Nul>>
  <2>1. s \in Seq({Nul}) /\ Len(s) = 1 /\ s[1] = Nul /\ 1 \in 1..Len(s)
    OBVIOUS
  <2>2. Fits(s) /\ Written(s)
    BY DEF Finish
  <2> HIDE DEF s
  <2>3. ret + 1 \in 0..DstLen
    BY <1>0, <2>1, <2>2, WrittenIs
  <2>4. ret + 1 \in 1..DstLen
    BY <1>0, <2>3
  <2> QED BY <1>0, <2>1, <2>2, <2>4, WrittenIs
<1>3. fi = Len(fmt) + 1
  BY <1>0, <1>1 DEF At, FormatTypes
<1>4. FormatTypes'
  BY <1>0, <1>1, <1>2 DEF FormatTypes
<1>5. /\ \A k \in 1..Len(spans) : SpanHolds(k)'
      /\ \A n \in 0..Len(spans) : FmtFrom(n)' = FmtFrom(n) /\ DstFrom(n)' = DstFrom(n)
      /\ \A k : IsConversion(k)' <=> IsConversion(k)
      /\ \A n \in 0..Len(spans) : \A k \in 0..FmtTo(n, fi) - FmtFrom(n) - 1 :
           fdst'[DstFrom(n) + k] = fmt[FmtFrom(n) + k] /\ ~ IsConversion(FmtFrom(n) + k)
  <2>1. ret' \in Nat /\ ret' >= ret /\ UNCHANGED fmt /\ \A k \in 1..Len(spans) : spans'[k] = spans[k]
    BY <1>0, <1>1
  <2> QED BY <1>2, <2>1, EarlierKept
<1>6. ASSUME NEW n \in 0..Len(spans) PROVE SameText(n, fi)'
  <2>1. FmtTo(n, fi)' = FmtTo(n, fi) /\ DstTo(n)' = DstTo(n)
    BY <1>1 DEF FmtTo, DstTo
  <2>2. SameText(n, fi)
    BY DEF FormatInv
  <2> QED BY <1>1, <1>5, <2>1, <2>2 DEF SameText
<1> QED BY <1>1, <1>2, <1>3, <1>4, <1>5, <1>6 DEF FormatInv

\* The invariant holds in every state of Sprintf.
THEOREM FormatInvariant == FormatSpec => []FormatInv
<1>1. FormatInit => FormatInv
  <2> SUFFICES ASSUME FormatInit PROVE FormatInv
    OBVIOUS
  <2>1. /\ fmt \in Seq(STRING) /\ (\A k \in 1..Len(fmt) : fmt[k] # Nul) /\ arg \in Seq(Longs)
        /\ fi = 1 /\ ret = 0 /\ spans = <<>> /\ fpc = "loop" /\ DstLen \in Nat
    BY FormatAssumption DEF FormatInit, Longs
  <2>2. DOMAIN fdst = 1..DstLen /\ fdst = [k \in 1..DstLen |-> fdst[k]]
    BY DEF FormatInit
  <2>3. FormatTypes
    BY <2>1, <2>2 DEF FormatTypes
  <2>4. Len(spans) = 0
    BY <2>1
  <2>5. ASSUME NEW n \in 0..Len(spans) PROVE SameText(n, fi)
    <3>1. n = 0 /\ n = Len(spans)
      BY <2>4
    <3>2. FmtFrom(n) = 1 /\ DstFrom(n) = 1 /\ FmtTo(n, fi) = 1 /\ DstTo(n) = 1
      BY <2>1, <3>1 DEF FmtFrom, DstFrom, FmtTo, DstTo
    <3>3. \A k \in 0..1 - 1 - 1 : FALSE
      OBVIOUS
    <3> QED BY <3>2, <3>3 DEF SameText
  <2>6. \A k \in 1..Len(spans) : FALSE
    BY <2>4
  <2> QED BY <2>1, <2>3, <2>5, <2>6 DEF FormatInv
<1>2. FormatInv /\ [FormatNext]_formatVars => FormatInv'
  <2> SUFFICES ASSUME FormatInv, [FormatNext]_formatVars PROVE FormatInv'
    OBVIOUS
  <2>1. CASE Directive
    BY <2>1, DirectiveKeeps
  <2>2. CASE Percent
    <3>1. "%" # Nul
      BY DEF Nul
    <3> QED BY <2>2, <3>1, CharKeeps DEF Percent
  <2>3. CASE Plain
    <3>1. At(fi) # "%" /\ At(fi) # Nul /\ ~ IsConversion(fi)
      BY <2>3 DEF Plain, IsConversion
    <3> QED BY <2>3, <3>1, CharKeeps DEF Plain
  <2>4. CASE Finish
    BY <2>4, FinishKeeps
  <2>5. CASE UNCHANGED <<fmt, arg, fi, fdst, ret, spans>> /\ fpc' \in {"loop", "returned", "undefined"}
             /\ (fpc' = "returned" => fpc = "returned")
    BY <2>5 DEF FormatInv, FormatTypes, SpanHolds, SameText, FmtFrom, DstFrom, FmtTo, DstTo,
                IsConversion, At
  <2>6. CASE Undefined
    BY <2>5, <2>6 DEF Undefined
  <2>7. CASE FormatDone \/ UNCHANGED formatVars
    <3>1. UNCHANGED <<fmt, arg, fi, fdst, ret, spans>> /\ fpc' = fpc
      BY <2>7 DEF FormatDone, formatVars
    <3> QED BY <2>5, <3>1 DEF FormatInv, FormatTypes
  <2> QED BY <2>1, <2>2, <2>3, <2>4, <2>6, <2>7 DEF FormatNext
<1> QED BY <1>1, <1>2, PTL DEF FormatSpec

\* For every format string and every list of arguments: when Sprintf returns, the text
\* between its conversions stands in the buffer as it stands in the format string, and a
\* zero byte ends it.
THEOREM FormatKeepsText == FormatSpec => []TextKept
<1>1. FormatInv => TextKept
  <2> SUFFICES ASSUME FormatInv, fpc = "returned"
               PROVE  fdst[ret + 1] = Nul /\ \A n \in 0..Len(spans) : SameText(n, Len(fmt) + 1)
    BY DEF TextKept
  <2>1. fi = Len(fmt) + 1 /\ fdst[ret + 1] = Nul /\ \A n \in 0..Len(spans) : SameText(n, fi)
    BY DEF FormatInv
  <2> QED BY <2>1
<1> QED BY <1>1, FormatInvariant, PTL

\* For every width of int and long and every argument: each conversion leaves the
\* numeral of its argument in the buffer (but for the zeros of %l, %x and %p, which it
\* never shows), later output keeps it, and atoi reads back what %d printed.
THEOREM FormatShowsArguments == FormatSpec => []ConversionsReadBack
<1>1. FormatInv => ConversionsReadBack
  <2> SUFFICES ASSUME FormatInv, NEW k \in 1..Len(spans)
               PROVE  LET s == SubSeq(fdst, spans[k].from, spans[k].to)
                          n == Signed(spans[k].val, IntHalf)
                      IN /\ Shows(s, spans[k].dir, spans[k].val) <=> ~ ZeroCase(spans[k].dir, spans[k].val)
                         /\ spans[k].dir = "d" => Unsigned(atoi(s), IntHalf) = (IF n < 0 THEN -n ELSE n)
    BY DEF ConversionsReadBack
  <2> DEFINE d == spans[k].dir
             v == spans[k].val
             p == Put(d, v)
             a == spans[k].from
             b == spans[k].to
             s == SubSeq(fdst, a, b)
  <2>1. d \in Directives /\ v \in Longs /\ a \in Nat /\ b \in Nat
    <3>1. spans[k] \in SpanRecord
      BY DEF FormatInv, FormatTypes
    <3> QED BY <3>1 DEF SpanRecord
  <2>2. p \in Seq(PutChars) /\ (Shows(p, d, v) <=> ~ ZeroCase(d, v))
    BY <2>1, PutShows
  <2>3. a >= 1 /\ b = a + Len(p) - 1 /\ b <= ret /\ ret \in 0..DstLen /\ DstLen \in Nat
        /\ \A j \in 1..Len(p) : fdst[a + j - 1] = p[j]
    BY FormatAssumption DEF FormatInv, FormatTypes, SpanHolds
  <2>4. fdst = [i \in 1..DstLen |-> fdst[i]]
    BY DEF FormatInv, FormatTypes
  <2> HIDE DEF d, v, p, a, b
  <2>5. s = p
    <3> DEFINE R == {fdst[i] : i \in 1..DstLen}
    <3>1. fdst \in Seq(R) /\ Len(fdst) = DstLen
      <4>1. fdst \in [1..DstLen -> R]
        BY <2>4
      <4> HIDE DEF R
      <4> QED BY <2>3, <4>1
    <3>2. Len(p) \in Nat
      BY <2>2, LenProperties
    <3> HIDE DEF R
    <3>3. s \in Seq(R) /\ Len(s) = Len(p) /\ \A j \in 1..Len(p) : s[j] = fdst[a + j - 1]
      BY <2>1, <2>3, <3>1, <3>2
    <3> HIDE DEF s
    <3>4. \A j \in 1..Len(p) : s[j] = p[j]
      BY <2>3, <3>3
    <3>5. s = [j \in 1..Len(p) |-> s[j]]
      BY <3>2, <3>3
    <3>6. p = [j \in 1..Len(p) |-> p[j]]
      BY <2>2, <3>2
    <3> QED BY <3>4, <3>5, <3>6
  <2>6. d = "d" => Unsigned(atoi(p), IntHalf) = (IF Signed(v, IntHalf) < 0 THEN -Signed(v, IntHalf) ELSE Signed(v, IntHalf))
    BY <2>1, PutReadBack DEF p
  <2> QED BY <2>2, <2>5, <2>6 DEF d, v, a, b
<1> QED BY <1>1, FormatInvariant, PTL
=============================================================================
