----------------------------- MODULE GptProofs -----------------------------
(***************************************************************************)
(* Proofs about GPTGenerate for every disk and every list of partitions.   *)
(***************************************************************************)
EXTENDS Gpt, Induction

----------------------------------------------------------------------------
(* The layout: sums of partition sizes, and the longest prefix that fits.  *)

\* The recursive sum of GptLayout is the sum.
LEMMA TakenSum ==
  ASSUME NEW v \in Seq(Nat)
  PROVE  \E s : IsSum(s, v, Len(v)) /\ \A k : Taken(v, k) = s[k]
  <1> DEFINE s == CHOOSE Sum : Sum = [j \in 0..Len(v) |-> IF j = 0 THEN 0 ELSE Sum[j - 1] + v[j]]
  <1>1. IsSum(s, v, Len(v))
    <2>1. Len(v) \in Nat /\ \A j \in 1..Len(v) : v[j] \in Nat
      BY SMT
    <2>2. \E Sum : IsSum(Sum, v, Len(v))
      BY <2>1, SumExists
    <2> QED BY <2>2 DEF IsSum
  <1>2. \A k : Taken(v, k) = s[k]
    BY DEF Taken
  <1> HIDE DEF s
  <1> QED BY <1>1, <1>2

\* Each partition adds its size to the blocks taken before it.
LEMMA TakenFacts ==
  ASSUME NEW v \in Seq(Nat)
  PROVE  /\ Taken(v, 0) = 0
         /\ \A k \in 0..Len(v) : Taken(v, k) \in Nat
         /\ \A k \in 0..Len(v) - 1 : Taken(v, k + 1) = Taken(v, k) + v[k + 1]
         /\ \A j, k \in 0..Len(v) : j <= k => Taken(v, j) <= Taken(v, k)
  <1> PICK s : IsSum(s, v, Len(v)) /\ \A k : Taken(v, k) = s[k]
    BY TakenSum
  <1>1. Len(v) \in Nat /\ \A j \in 1..Len(v) : v[j] \in Nat
    BY SMT
  <1>2. /\ \A j \in 0..Len(v) : s[j] \in Nat
        /\ \A j, k \in 0..Len(v) : j <= k => s[j] <= s[k]
    BY <1>1, SumGrows
  <1>3. s[0] = 0
    <2>1. 0 \in 0..Len(v)
      BY <1>1, SMT
    <2> QED BY <2>1 DEF IsSum
  <1>4. ASSUME NEW k \in 0..Len(v) - 1
        PROVE  s[k + 1] = s[k] + v[k + 1]
    <2>1. k + 1 \in 0..Len(v) /\ k + 1 # 0 /\ (k + 1) - 1 = k
      BY <1>1, SMT
    <2> QED BY <2>1 DEF IsSum
  <1> QED BY <1>2, <1>3, <1>4

\* At most one prefix is the longest that fits.
LEMMA PlacedUnique ==
  ASSUME NEW n \in Nat, NEW v \in Seq(Nat), ~ Refused(n, v), NEW r \in 0..Len(v),
         Taken(v, r) <= Room(n, v), r = Len(v) \/ Taken(v, r + 1) > Room(n, v)
  PROVE  Placed(n, v) = r
  <1> DEFINE Longest(k) == /\ Taken(v, k) <= Room(n, v)
                           /\ k = Len(v) \/ Taken(v, k + 1) > Room(n, v)
  <1>0. Len(v) \in Nat /\ Room(n, v) \in Int
    <2>1. Len(v) \in Nat
      BY SMT
    <2> QED BY <2>1, SMT DEF Room, FirstBlock, NSectorForArray, EntriesPerSector
  <1>1. ASSUME NEW j \in 0..Len(v), NEW k \in 0..Len(v), Longest(j), Longest(k)
        PROVE  ~ (j < k)
    <2> SUFFICES ASSUME j < k
                 PROVE  FALSE
      OBVIOUS
    <2>1. j + 1 \in 0..Len(v) /\ j + 1 <= k /\ j # Len(v)
      BY <1>0, SMT
    <2>2. Taken(v, j + 1) <= Taken(v, k) /\ Taken(v, j + 1) \in Nat /\ Taken(v, k) \in Nat
      BY <2>1, TakenFacts
    <2> QED BY <1>0, <1>1, <2>1, <2>2, SMT
  <1>2. \A k \in 0..Len(v) : Longest(k) => k = r
    <2> TAKE k \in 0..Len(v)
    <2> HAVE Longest(k)
    <2>1. ~ (k < r) /\ ~ (r < k)
      BY <1>1
    <2> QED BY <1>0, <2>1, SMT
  <1>3. Placed(n, v) = CHOOSE k \in 0..Len(v) : Longest(k)
    BY DEF Placed
  <1>4. Longest(r)
    OBVIOUS
  <1> HIDE DEF Longest
  <1> QED BY <1>2, <1>3, <1>4
----------------------------------------------------------------------------
(* The inductive invariant: the loop variables are the sums of GptLayout.  *)

Types ==
  /\ nBlock \in Nat /\ volume \in Seq(Nat)
  /\ pc \in {"call", "alloc", "entries", "backup", "crc", "returned"}
  /\ ret \in 0..Len(volume) /\ i \in 0..ret
  /\ startLBA \in Seq(Nat) /\ Len(startLBA) = ret
  /\ DOMAIN slots = 0..2 * EntriesPerSector * NArray - 1

Laid == pc # "call" /\ ~ TooSmall

AllocInv ==
  /\ TooSmall => pc \in {"call", "returned"}
  /\ ~ Laid => ret = 0
  /\ Laid => /\ start = FirstBlock(volume) + Taken(volume, ret)
             /\ remains = Room(nBlock, volume) - Taken(volume, ret) /\ remains >= 0
             /\ mbr = SizeInLBA
             /\ \A k \in 1..ret : startLBA[k] = StartOf(volume, k)
  /\ pc \in {"call", "alloc"} => i = 0
  /\ Laid /\ pc # "alloc" => ~ Fits

\* The header that both copies are made from.
PlainHeader ==
  [thisLBA |-> 1, alternateLBA |-> nBlock - 1, firstUsableLBA |-> start,
   lastUsableLBA |-> nBlock - 2, numEntries |-> ret, crcArray |-> Crc(ArrayNow),
   crc |-> Crc(<<>>)]

HeadInv ==
  /\ pc = "backup" => primary = PlainHeader
  /\ pc = "crc" => primary = PlainHeader /\ backup = Mirror(PlainHeader)
  /\ pc = "returned" /\ ~ TooSmall =>
       primary = Sealed(PlainHeader) /\ backup = Sealed(Mirror(PlainHeader))

GptInv == Types /\ AllocInv /\ EntriesKept /\ HeadInv

\* The array of entries has a slot for every requested partition.
LEMMA ArrayFacts ==
  ASSUME volume \in Seq(Nat), nBlock \in Nat
  PROVE  /\ Len(volume) \in Nat /\ NArray \in Nat /\ Len(volume) <= EntriesPerSector * NArray
         /\ (NArray = 0) = (volume = <<>>)
         /\ FirstBlock(volume) = 2 + NArray
         /\ Room(nBlock, volume) = nBlock - 4 - NArray /\ Room(nBlock, volume) \in Int
         /\ TooSmall = Refused(nBlock, volume)
         /\ EntriesPerSector * NArray \in Nat
         /\ 2 * EntriesPerSector * NArray = EntriesPerSector * NArray + EntriesPerSector * NArray
  <1>1. Len(volume) \in Nat /\ (Len(volume) = 0) = (volume = <<>>)
    BY SMT
  <1>2. NArray \in Nat /\ Len(volume) <= 4 * NArray /\ (NArray = 0) = (Len(volume) = 0)
    <2>1. \A n \in Nat : LET q == (4 - 1 + n) \div 4
                         IN q \in Nat /\ n <= 4 * q /\ (q = 0) = (n = 0)
      BY SMT
    <2> QED BY <1>1, <2>1 DEF NArray, NSectorForArray, EntriesPerSector
  <1>3. FirstBlock(volume) = 2 + NArray
    BY DEF FirstBlock, NArray
  <1>4. Room(nBlock, volume) = nBlock - 4 - NArray
    BY <1>2, <1>3, SMT DEF Room
  <1>5. TooSmall = Refused(nBlock, volume)
    BY <1>1, <1>2, <1>4, SMT DEF TooSmall, Refused
  <1> QED BY <1>1, <1>2, <1>3, <1>4, <1>5, SMT DEF EntriesPerSector

\* Nothing is placed before the call starts.
LEMMA InitGpt == Init => GptInv
  <1> SUFFICES ASSUME Init
               PROVE  GptInv
    OBVIOUS
  <1>0. volume \in Seq(Nat) /\ nBlock \in Nat
    BY GptAssumption DEF Init
  <1>1. /\ Len(volume) \in Nat /\ NArray \in Nat /\ EntriesPerSector * NArray \in Nat
    BY <1>0, ArrayFacts
  <1>2. Types
    <2>1. ret \in 0..Len(volume) /\ i \in 0..ret
      BY <1>1, SMT DEF Init
    <2>2. startLBA \in Seq(Nat) /\ Len(startLBA) = ret
      BY SMT DEF Init
    <2> QED BY <1>0, <2>1, <2>2 DEF Types, Init
  <1>3. AllocInv
    BY DEF Init, AllocInv, Laid
  <1>4. EntriesKept
    <2>1. 1..i = {} /\ ~ (i > 0)
      BY SMT DEF Init
    <2>2. \A s \in DOMAIN slots : slots[s] = Old
      BY DEF Init
    <2> QED BY <2>1, <2>2 DEF EntriesKept
  <1>5. HeadInv
    BY DEF Init, HeadInv
  <1> QED BY <1>2, <1>3, <1>4, <1>5 DEF GptInv

\* createProtectGPT: the first partition goes right after the array.
LEMMA ProtectGpt == ASSUME GptInv, Protect PROVE GptInv'
  <1>1. /\ pc = "call" /\ ~ TooSmall /\ mbr' = SizeInLBA /\ pc' = "alloc"
        /\ start' = 2 + NArray /\ remains' = nBlock - 4 - NArray
        /\ UNCHANGED <<nBlock, volume, ret, startLBA, i, slots, primary, backup>>
    BY DEF Protect, config
  <1>2. volume \in Seq(Nat) /\ nBlock \in Nat
    BY DEF GptInv, Types
  <1>3. /\ FirstBlock(volume) = 2 + NArray /\ NArray \in Nat
        /\ Room(nBlock, volume) = nBlock - 4 - NArray
    BY <1>2, ArrayFacts
  <1>4. Taken(volume, 0) = 0
    BY <1>2, TakenFacts
  <1>5. Types'
    BY <1>1 DEF GptInv, Types, NArray
  <1>6. ret = 0 /\ i = 0
    BY <1>1 DEF GptInv, AllocInv, Laid
  <1>7. AllocInv'
    <2>1. remains' >= 0
      BY <1>1, <1>2, <1>3, SMT DEF TooSmall
    <2>2. /\ start' = FirstBlock(volume) + Taken(volume, ret)
          /\ remains' = Room(nBlock, volume) - Taken(volume, ret)
      BY <1>1, <1>2, <1>3, <1>4, <1>6, SMT
    <2>3. 1..ret = {} /\ SizeInLBA' = SizeInLBA /\ TooSmall' = TooSmall
      BY <1>1, <1>6, SMT DEF SizeInLBA, TooSmall, NArray
    <2> QED BY <1>1, <1>6, <2>1, <2>2, <2>3 DEF AllocInv, Laid
  <1>8. EntriesKept'
    BY <1>1 DEF GptInv, EntriesKept, NArray
  <1> QED BY <1>1, <1>5, <1>7, <1>8 DEF GptInv, HeadInv

\* One round of the allocation loop.
LEMMA AllocateGpt == ASSUME GptInv, Allocate PROVE GptInv'
  <1>1. /\ pc = "alloc" /\ Fits /\ startLBA' = Append(startLBA, start)
        /\ start' = start + volume[ret + 1] /\ remains' = remains - volume[ret + 1]
        /\ ret' = ret + 1
        /\ UNCHANGED <<nBlock, volume, pc, i, mbr, slots, primary, backup>>
    BY DEF Allocate, config
  <1>2. /\ volume \in Seq(Nat) /\ nBlock \in Nat /\ ret \in 0..Len(volume) /\ i = 0
        /\ startLBA \in Seq(Nat) /\ Len(startLBA) = ret
    BY <1>1 DEF GptInv, Types, AllocInv
  <1>3. /\ Len(volume) \in Nat /\ NArray \in Nat /\ FirstBlock(volume) = 2 + NArray
        /\ Room(nBlock, volume) \in Int
    BY <1>2, ArrayFacts
  <1>4. /\ ret < Len(volume) /\ volume[ret + 1] <= remains /\ ret + 1 \in 1..Len(volume)
        /\ volume[ret + 1] \in Nat /\ ret + 1 \in 0..Len(volume) /\ ret \in 0..Len(volume) - 1
        /\ (ret + 1) - 1 = ret
    BY <1>1, <1>2, <1>3, SMT DEF Fits
  <1>5. /\ Taken(volume, ret + 1) = Taken(volume, ret) + volume[ret + 1]
        /\ Taken(volume, ret) \in Nat
    BY <1>2, <1>4, TakenFacts
  <1>6. ~ TooSmall /\ Laid
    BY <1>1 DEF GptInv, AllocInv, Laid
  <1>7. /\ start = FirstBlock(volume) + Taken(volume, ret)
        /\ remains = Room(nBlock, volume) - Taken(volume, ret)
        /\ mbr = SizeInLBA
        /\ \A k \in 1..ret : startLBA[k] = StartOf(volume, k)
    BY <1>6 DEF GptInv, AllocInv
  <1>8. start \in Nat
    BY <1>3, <1>5, <1>7, SMT
  <1>9. /\ startLBA' \in Seq(Nat) /\ Len(startLBA') = ret + 1
        /\ startLBA'[ret + 1] = start /\ \A k \in 1..ret : startLBA'[k] = startLBA[k]
    BY <1>1, <1>2, <1>8, SMT
  <1>10. Types'
    <2>1. i \in 0..ret + 1
      BY <1>2, <1>3, SMT
    <2> QED BY <1>1, <1>2, <1>4, <1>9, <2>1 DEF GptInv, Types, NArray
  <1>11. AllocInv'
    <2>1. /\ start' = FirstBlock(volume) + Taken(volume, ret + 1)
          /\ remains' = Room(nBlock, volume) - Taken(volume, ret + 1) /\ remains' >= 0
      <3> DEFINE F == FirstBlock(volume)
                 R == Room(nBlock, volume)
                 T == Taken(volume, ret)
                 v == volume[ret + 1]
      <3>1. F \in Nat /\ R \in Int /\ T \in Nat /\ v \in Nat
        BY <1>3, <1>4, <1>5, SMT
      <3>2. start' = (F + T) + v /\ remains' = (R - T) - v /\ v <= R - T
        BY <1>1, <1>4, <1>7
      <3> HIDE DEF F, R, T, v
      <3>3. start' = F + (T + v) /\ remains' = R - (T + v) /\ remains' >= 0
        BY <3>1, <3>2, SMT
      <3> QED BY <1>5, <3>3 DEF F, R, T, v
    <2>2. ASSUME NEW k \in 1..ret + 1
          PROVE  startLBA'[k] = StartOf(volume, k)
      <3>1. CASE k = ret + 1
        BY <1>4, <1>7, <1>9, <3>1 DEF StartOf
      <3>2. CASE k # ret + 1
        <4>1. k \in 1..ret
          BY <1>2, <1>3, <3>2, SMT
        <4> QED BY <1>7, <1>9, <4>1
      <3> QED BY <3>1, <3>2
    <2>3. SizeInLBA' = SizeInLBA /\ TooSmall' = TooSmall
      BY <1>1 DEF SizeInLBA, TooSmall, NArray
    <2> QED BY <1>1, <1>2, <1>6, <1>7, <2>1, <2>2, <2>3 DEF AllocInv, Laid
  <1>12. EntriesKept'
    <2>1. 1..i = {}
      BY <1>2, SMT
    <2> QED BY <1>1, <1>2, <2>1 DEF GptInv, EntriesKept, NArray
  <1> QED BY <1>1, <1>10, <1>11, <1>12 DEF GptInv, HeadInv

\* One round of the entry loop clears from entry i on and fills it in.
LEMMA WriteEntryGpt == ASSUME GptInv, WriteEntry PROVE GptInv'
  <1> DEFINE A == EntriesPerSector * NArray
             e == Entry(startLBA[i + 1], volume[i + 1])
  <1>1. /\ pc = "entries" /\ i < ret /\ i' = i + 1
        /\ slots' = [ClearFrom(i) EXCEPT ![i] = e]
        /\ UNCHANGED <<nBlock, volume, pc, ret, start, remains, startLBA, mbr, primary, backup>>
    BY DEF WriteEntry, config
  <1>2. /\ volume \in Seq(Nat) /\ nBlock \in Nat /\ ret \in 0..Len(volume) /\ i \in 0..ret
        /\ DOMAIN slots = 0..2 * EntriesPerSector * NArray - 1
    BY DEF GptInv, Types
  <1>3. /\ Len(volume) \in Nat /\ A \in Nat /\ Len(volume) <= A
        /\ 2 * EntriesPerSector * NArray = A + A
    BY <1>2, ArrayFacts
  <1>4. DOMAIN slots = 0..A + A - 1
    BY <1>2, <1>3
  <1> HIDE DEF A, e
  <1>5. i \in DOMAIN slots /\ i + 1 \in 0..ret /\ i \in Nat
    BY <1>1, <1>2, <1>3, <1>4, SMT
  <1>6. /\ DOMAIN slots' = DOMAIN slots
        /\ \A s \in DOMAIN slots :
             slots'[s] = IF s = i THEN e
                         ELSE IF s \in i..i + A - 1 THEN Zero ELSE slots[s]
    BY <1>1, <1>5 DEF ClearFrom, A
  <1>7. Types'
    BY <1>1, <1>5, <1>6 DEF GptInv, Types, NArray
  <1>8. AllocInv'
    BY <1>1 DEF GptInv, AllocInv, Laid, TooSmall, NArray, SizeInLBA, Fits
  <1>9. EntriesKept'
    <2>1. ASSUME NEW k \in 1..i + 1
          PROVE  slots'[k - 1] = Entry(startLBA[k], volume[k])
      <3>1. k - 1 \in DOMAIN slots
        BY <1>1, <1>2, <1>3, <1>4, SMT
      <3>2. CASE k = i + 1
        <4>1. k - 1 = i
          BY <1>5, <3>2, SMT
        <4> QED BY <1>6, <3>1, <3>2, <4>1 DEF e
      <3>3. CASE k # i + 1
        <4>1. k \in 1..i /\ k - 1 # i /\ k - 1 \notin i..i + A - 1
          BY <1>3, <1>5, <3>3, SMT
        <4>2. slots[k - 1] = Entry(startLBA[k], volume[k])
          BY <4>1 DEF GptInv, EntriesKept
        <4> QED BY <1>6, <3>1, <4>1, <4>2
      <3> QED BY <3>2, <3>3
    <2>2. ASSUME NEW s \in i + 1..A - 1
          PROVE  slots'[s] = Zero
      <3>1. s \in DOMAIN slots /\ s # i /\ s \in i..i + A - 1
        BY <1>3, <1>4, <1>5, SMT
      <3> QED BY <1>6, <3>1
    <2>3. ASSUME NEW s \in DOMAIN slots', s >= A + ((i + 1) - 1)
          PROVE  slots'[s] = Old
      <3>1. s \in DOMAIN slots /\ s # i /\ s \notin i..i + A - 1
        BY <1>1, <1>2, <1>3, <1>4, <1>5, <1>6, <2>3, SMT
      <3>2. s >= A + (IF i = 0 THEN 0 ELSE i - 1)
        BY <1>3, <1>4, <1>5, <2>3, <3>1, SMT
      <3>3. slots[s] = Old
        BY <3>1, <3>2 DEF GptInv, EntriesKept, A
      <3> QED BY <1>6, <3>1, <3>3
    <2>4. A' = A /\ i' = i + 1 /\ i + 1 # 0
      BY <1>1, <1>5, SMT DEF A, NArray
    <2>5. (EntriesPerSector * NArray)' = A
      BY <2>4 DEF A
    <2> QED BY <1>1, <2>1, <2>2, <2>3, <2>4, <2>5 DEF EntriesKept
  <1> QED BY <1>1, <1>7, <1>8, <1>9 DEF GptInv, HeadInv

\* Writing, copying and sealing the headers leaves the array as it is.
LEMMA HeadersGpt ==
  ASSUME GptInv, WritePrimary \/ WriteBackup \/ Seal
  PROVE  GptInv'
  <1>1. UNCHANGED <<nBlock, volume, ret, start, remains, startLBA, i, mbr, slots>>
    BY DEF WritePrimary, WriteBackup, Seal, config
  <1>2. /\ pc \in {"entries", "backup", "crc"} /\ pc' \in {"backup", "crc", "returned"}
    BY DEF WritePrimary, WriteBackup, Seal
  <1>3. Types'
    BY <1>1, <1>2 DEF GptInv, Types, NArray
  <1>4. AllocInv'
    BY <1>1, <1>2 DEF GptInv, AllocInv, Laid, TooSmall, NArray, SizeInLBA, Fits
  <1>5. EntriesKept'
    BY <1>1 DEF GptInv, EntriesKept, NArray
  <1>6. /\ PlainHeader' = PlainHeader /\ Mirror(PlainHeader)' = Mirror(PlainHeader)
        /\ Sealed(PlainHeader)' = Sealed(PlainHeader)
        /\ Sealed(Mirror(PlainHeader))' = Sealed(Mirror(PlainHeader))
    BY <1>1 DEF PlainHeader, ArrayNow, Mirror, Sealed
  <1>7. HeadInv'
    <2>1. CASE WritePrimary
      <3>1. primary' = PlainHeader
        BY <2>1 DEF WritePrimary, PlainHeader, NoHeader
      <3> QED BY <1>6, <2>1, <3>1 DEF WritePrimary, HeadInv
    <2>2. CASE WriteBackup
      <3>1. primary' = PlainHeader /\ backup' = Mirror(PlainHeader)
        BY <2>2 DEF WriteBackup, GptInv, HeadInv
      <3> QED BY <1>6, <2>2, <3>1 DEF WriteBackup, HeadInv
    <2>3. CASE Seal
      <3>1. primary' = Sealed(PlainHeader) /\ backup' = Sealed(Mirror(PlainHeader))
        BY <2>3 DEF Seal, GptInv, HeadInv
      <3> QED BY <1>6, <2>3, <3>1 DEF Seal, HeadInv
    <2> QED BY <2>1, <2>2, <2>3
  <1> QED BY <1>3, <1>4, <1>5, <1>7 DEF GptInv

\* Every step preserves the invariant.
LEMMA StepGpt == ASSUME GptInv, [Next]_vars PROVE GptInv'
  <1>1. CASE Refuse
    <2>1. /\ TooSmall /\ pc = "call" /\ pc' = "returned"
          /\ UNCHANGED <<nBlock, volume, ret, start, remains, startLBA, i, mbr, slots,
                         primary, backup>>
      BY <1>1 DEF Refuse, config
    <2>2. Types' /\ AllocInv' /\ EntriesKept'
      BY <2>1 DEF GptInv, Types, AllocInv, Laid, TooSmall, NArray, EntriesKept
    <2> QED BY <2>1, <2>2 DEF GptInv, HeadInv, TooSmall, NArray
  <1>2. CASE AllocateEnds
    <2>1. /\ ~ Fits /\ pc = "alloc" /\ pc' = "entries"
          /\ UNCHANGED <<nBlock, volume, ret, start, remains, startLBA, i, mbr, slots,
                         primary, backup>>
      BY <1>2 DEF AllocateEnds, config
    <2>2. Types' /\ AllocInv' /\ EntriesKept'
      BY <2>1 DEF GptInv, Types, AllocInv, Laid, TooSmall, NArray, EntriesKept, SizeInLBA, Fits
    <2> QED BY <2>1, <2>2 DEF GptInv, HeadInv
  <1>3. CASE Done \/ UNCHANGED vars
    <2>1. UNCHANGED <<nBlock, volume, pc, ret, start, remains, startLBA, i, mbr, slots,
                         primary, backup>>
      BY <1>3 DEF Done, vars
    <2>2. Types' /\ AllocInv' /\ EntriesKept'
      BY <2>1 DEF GptInv, Types, AllocInv, Laid, TooSmall, NArray, EntriesKept, SizeInLBA, Fits
    <2>3. HeadInv'
      BY <2>1 DEF GptInv, HeadInv, TooSmall, NArray, PlainHeader, Mirror, Sealed, ArrayNow
    <2> QED BY <2>2, <2>3 DEF GptInv
  <1> QED BY <1>1, <1>2, <1>3, ProtectGpt, AllocateGpt, WriteEntryGpt, HeadersGpt DEF Next

----------------------------------------------------------------------------
(* The theorems.                                                           *)

\* The invariant holds in every behaviour.
LEMMA GptInvHolds == Spec => []GptInv
  <1>1. GptInv /\ [Next]_vars => GptInv'
    BY StepGpt
  <1> QED BY InitGpt, <1>1, PTL DEF Spec

\* On any disk and for any request, the partitions lie between the entry array
\* and the last two blocks and do not overlap.
THEOREM PartitionsLieApart == Spec => []PartitionsFit
  <1>1. ASSUME GptInv
        PROVE  PartitionsFit
    <2>1. volume \in Seq(Nat) /\ nBlock \in Nat /\ ret \in 0..Len(volume)
      BY <1>1 DEF GptInv, Types
    <2>2. /\ Len(volume) \in Nat /\ NArray \in Nat /\ FirstBlock(volume) = 2 + NArray
          /\ Room(nBlock, volume) = nBlock - 4 - NArray
      BY <2>1, ArrayFacts
    <2>3. CASE ret = 0
      <3>1. 1..ret = {}
        BY <2>3, SMT
      <3> QED BY <3>1 DEF PartitionsFit
    <2>4. CASE ret # 0
      <3>1. /\ remains = Room(nBlock, volume) - Taken(volume, ret) /\ remains >= 0
            /\ mbr = SizeInLBA
            /\ \A k \in 1..ret : startLBA[k] = FirstBlock(volume) + Taken(volume, k - 1)
        BY <1>1, <2>4 DEF GptInv, AllocInv, StartOf
      <3>2. ASSUME NEW k \in 1..ret
            PROVE  /\ startLBA[k] = 2 + NArray + Taken(volume, k - 1)
                   /\ startLBA[k] + volume[k] = 2 + NArray + Taken(volume, k)
                   /\ Taken(volume, k - 1) \in Nat /\ Taken(volume, k) \in Nat
                   /\ Taken(volume, k) <= nBlock - 4 - NArray
        <4>1. /\ k - 1 \in 0..Len(volume) - 1 /\ (k - 1) + 1 = k /\ k \in 0..Len(volume)
              /\ ret \in 0..Len(volume) /\ k <= ret /\ k \in 1..Len(volume)
              /\ k - 1 \in 0..Len(volume)
          BY <2>1, <2>2, SMT
        <4>2. /\ Taken(volume, k) = Taken(volume, k - 1) + volume[k]
              /\ Taken(volume, k - 1) \in Nat /\ Taken(volume, k) \in Nat
              /\ Taken(volume, k) <= Taken(volume, ret) /\ Taken(volume, ret) \in Nat
          BY <2>1, <4>1, TakenFacts
        <4>3. volume[k] \in Nat
          BY <2>1, <4>1, SMT
        <4>4. startLBA[k] = 2 + NArray + Taken(volume, k - 1)
          BY <2>2, <3>1
        <4>5. Taken(volume, ret) <= nBlock - 4 - NArray
          BY <2>1, <2>2, <3>1, <4>2, SMT
        <4>6. Taken(volume, k) <= nBlock - 4 - NArray
          BY <2>1, <2>2, <4>2, <4>5, SMT
        <4>7. startLBA[k] + volume[k] = 2 + NArray + Taken(volume, k)
          <5>1. \A n, t, v \in Nat : (2 + n + t) + v = 2 + n + (t + v)
            BY SMT
          <5>2. NArray \in Nat /\ Taken(volume, k - 1) \in Nat
            BY <2>2, <4>2
          <5>3. (2 + NArray + Taken(volume, k - 1)) + volume[k]
                  = 2 + NArray + (Taken(volume, k - 1) + volume[k])
            BY <4>3, <5>1, <5>2
          <5> QED BY <4>2, <4>4, <5>3
        <4> QED BY <4>2, <4>4, <4>6, <4>7
      <3>3. ASSUME NEW k \in 1..ret
            PROVE  /\ 2 + NArray <= startLBA[k]
                   /\ startLBA[k] + volume[k] <= nBlock - 2
                   /\ startLBA[k] + volume[k] <= mbr + 1 \/ mbr = UINT32_MAX
        BY <2>1, <2>2, <3>1, <3>2, GptAssumption, SMTT(60) DEF SizeInLBA
      <3>4. ASSUME NEW j \in 1..ret, NEW k \in 1..ret, j < k
            PROVE  startLBA[j] + volume[j] <= startLBA[k]
        <4>1. j \in 0..Len(volume) /\ k - 1 \in 0..Len(volume) /\ j <= k - 1
          BY <2>1, <2>2, <3>4, SMT
        <4>2. Taken(volume, j) <= Taken(volume, k - 1)
          BY <2>1, <4>1, TakenFacts
        <4>3. /\ startLBA[j] + volume[j] = 2 + NArray + Taken(volume, j) /\ Taken(volume, j) \in Nat
              /\ startLBA[k] = 2 + NArray + Taken(volume, k - 1) /\ Taken(volume, k - 1) \in Nat
          BY <3>2
        <4> QED BY <2>2, <4>2, <4>3, SMT
      <3> QED BY <3>3, <3>4 DEF PartitionsFit
    <2> QED BY <2>3, <2>4
  <1> QED BY GptInvHolds, <1>1, PTL

\* GPTGenerate places the longest prefix of any request that fits on the disk.
THEOREM LongestPrefixPlaced == Spec => []PlacesPrefix
  <1>1. ASSUME GptInv
        PROVE  PlacesPrefix
    <2> SUFFICES ASSUME pc \notin {"call", "alloc"}
                 PROVE  /\ ret = Placed(nBlock, volume)
                        /\ \A k \in 1..ret : startLBA[k] = StartOf(volume, k)
      BY DEF PlacesPrefix
    <2>1. volume \in Seq(Nat) /\ nBlock \in Nat /\ ret \in 0..Len(volume)
      BY <1>1 DEF GptInv, Types
    <2>2. /\ Len(volume) \in Nat /\ TooSmall = Refused(nBlock, volume)
          /\ Room(nBlock, volume) \in Int
      BY <2>1, ArrayFacts
    <2>3. CASE TooSmall
      <3>1. ret = 0
        BY <1>1, <2>3 DEF GptInv, AllocInv, Laid
      <3>2. Placed(nBlock, volume) = 0 /\ 1..ret = {}
        BY <2>2, <2>3, <3>1, SMT DEF Placed
      <3> QED BY <3>1, <3>2
    <2>4. CASE ~ TooSmall
      <3>1. /\ remains = Room(nBlock, volume) - Taken(volume, ret) /\ remains >= 0
            /\ \A k \in 1..ret : startLBA[k] = StartOf(volume, k)
            /\ ~ Fits
        BY <1>1, <2>4 DEF GptInv, AllocInv, Laid
      <3>2. Taken(volume, ret) \in Nat
        BY <2>1, TakenFacts
      <3>3. Taken(volume, ret) <= Room(nBlock, volume)
        BY <2>2, <3>1, <3>2, SMT
      <3>4. ret = Len(volume) \/ Taken(volume, ret + 1) > Room(nBlock, volume)
        <4> SUFFICES ASSUME ret # Len(volume)
                     PROVE  Taken(volume, ret + 1) > Room(nBlock, volume)
          OBVIOUS
        <4>1. ret < Len(volume) /\ ret \in 0..Len(volume) - 1 /\ ret + 1 \in 1..Len(volume)
          BY <2>1, <2>2, SMT
        <4>2. volume[ret + 1] \in Nat /\ ~ (volume[ret + 1] <= remains)
          BY <2>1, <3>1, <4>1, SMT DEF Fits
        <4>3. Taken(volume, ret + 1) = Taken(volume, ret) + volume[ret + 1]
          BY <2>1, <4>1, TakenFacts
        <4> QED BY <2>2, <3>1, <3>2, <4>2, <4>3, SMT
      <3>5. Placed(nBlock, volume) = ret
        BY <2>1, <2>2, <2>4, <3>3, <3>4, PlacedUnique
      <3> QED BY <3>1, <3>5
    <2> QED BY <2>3, <2>4
  <1> QED BY GptInvHolds, <1>1, PTL

\* The memset of each round never wipes an entry already written, and clears
\* behind the array at most one entry less than there are partitions.
THEOREM EntriesStayWritten == Spec => []EntriesKept
  <1>1. GptInv => EntriesKept
    BY DEF GptInv
  <1> QED BY GptInvHolds, <1>1, PTL

\* Both headers check out when GPTGenerate returns.
THEOREM HeadersCheckOut == Spec => []HeadersConsistent
  <1>1. ASSUME GptInv
        PROVE  HeadersConsistent
    <2> SUFFICES ASSUME pc = "returned", ~ TooSmall
                 PROVE  /\ \A h \in {primary, backup} :
                             /\ h.crc = Crc([h EXCEPT !.crc = NoHeader.crc])
                             /\ h.crcArray = Crc([k \in 1..h.numEntries |-> slots[k - 1]])
                        /\ primary.thisLBA = backup.alternateLBA
                        /\ backup.thisLBA = primary.alternateLBA
                        /\ primary.numEntries = backup.numEntries
      BY DEF HeadersConsistent
    <2>1. primary = Sealed(PlainHeader) /\ backup = Sealed(Mirror(PlainHeader))
      BY <1>1 DEF GptInv, HeadInv
    <2> DEFINE h1 == PlainHeader
               h2 == Mirror(PlainHeader)
               g == [h1 EXCEPT !.thisLBA = nBlock - 1]
    <2>2. h1 = [thisLBA |-> 1, alternateLBA |-> nBlock - 1, firstUsableLBA |-> start,
                lastUsableLBA |-> nBlock - 2, numEntries |-> ret,
                crcArray |-> Crc(ArrayNow), crc |-> Crc(<<>>)]
      BY DEF PlainHeader
    <2>3. h2 = [g EXCEPT !.alternateLBA = 1]
      <3> HIDE DEF h1
      <3> QED BY DEF Mirror, h1
    <2>4. g = [thisLBA |-> nBlock - 1, alternateLBA |-> nBlock - 1, firstUsableLBA |-> start,
               lastUsableLBA |-> nBlock - 2, numEntries |-> ret,
               crcArray |-> Crc(ArrayNow), crc |-> Crc(<<>>)]
      <3> HIDE DEF h1
      <3> QED BY <2>2
    <2> HIDE DEF g, h1, h2
    <2>5. h2 = [thisLBA |-> nBlock - 1, alternateLBA |-> 1, firstUsableLBA |-> start,
                lastUsableLBA |-> nBlock - 2, numEntries |-> ret,
                crcArray |-> Crc(ArrayNow), crc |-> Crc(<<>>)]
      BY <2>3, <2>4
    <2>6. ASSUME NEW this, NEW other, NEW h,
                 h = [thisLBA |-> this, alternateLBA |-> other, firstUsableLBA |-> start,
                      lastUsableLBA |-> nBlock - 2, numEntries |-> ret,
                      crcArray |-> Crc(ArrayNow), crc |-> Crc(<<>>)]
          PROVE  /\ Sealed(h).thisLBA = this /\ Sealed(h).alternateLBA = other
                 /\ Sealed(h).numEntries = ret /\ Sealed(h).crcArray = Crc(ArrayNow)
                 /\ Sealed(h).crc = Crc([Sealed(h) EXCEPT !.crc = Crc(<<>>)])
      <3> DEFINE c == Crc(h)
                 z == Sealed(h)
      <3>1. z = [h EXCEPT !.crc = c]
        BY DEF Sealed
      <3> HIDE DEF c, z
      <3>2. z = [thisLBA |-> this, alternateLBA |-> other, firstUsableLBA |-> start,
                 lastUsableLBA |-> nBlock - 2, numEntries |-> ret,
                 crcArray |-> Crc(ArrayNow), crc |-> c]
        BY <2>6, <3>1
      <3>3. [z EXCEPT !.crc = Crc(<<>>)] = h
        BY <2>6, <3>2
      <3>4. z.crc = Crc([z EXCEPT !.crc = Crc(<<>>)])
        BY <3>2, <3>3 DEF c
      <3> QED BY <3>2, <3>4 DEF z
    <2>7. NoHeader.crc = Crc(<<>>)
      BY DEF NoHeader
    <2>8. /\ primary.thisLBA = 1 /\ primary.alternateLBA = nBlock - 1
          /\ primary.numEntries = ret /\ primary.crcArray = Crc(ArrayNow)
          /\ primary.crc = Crc([primary EXCEPT !.crc = NoHeader.crc])
      BY <2>1, <2>2, <2>6, <2>7 DEF h1
    <2>9. /\ backup.thisLBA = nBlock - 1 /\ backup.alternateLBA = 1
          /\ backup.numEntries = ret /\ backup.crcArray = Crc(ArrayNow)
          /\ backup.crc = Crc([backup EXCEPT !.crc = NoHeader.crc])
      BY <2>1, <2>5, <2>6, <2>7 DEF h2
    <2> QED BY <2>8, <2>9 DEF ArrayNow
  <1> QED BY GptInvHolds, <1>1, PTL
=============================================================================
