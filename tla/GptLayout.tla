----------------------------- MODULE GptLayout -----------------------------
(***************************************************************************)
(* What GPTGenerate of gpt/gpt.c promises about the places of partitions,  *)
(* without its loops: the array of entries follows the primary header, the *)
(* partitions follow the array in the order of the request, and the last   *)
(* two blocks are kept free.  Gpt shows that the loops compute this; the   *)
(* image tools of Installer rely on it.                                    *)
(***************************************************************************)
EXTENDS Integers, Sequences

EntriesPerSector == 4
NSectorForArray(n) == (EntriesPerSector - 1 + n) \div EntriesPerSector
FirstBlock(v) == 2 + NSectorForArray(Len(v))

\* Blocks taken by the first k partitions of v.
Taken(v, k) ==
  LET Sum[j \in 0..Len(v)] == IF j = 0 THEN 0 ELSE Sum[j - 1] + v[j]
  IN Sum[k]

Room(n, v) == n - 2 - FirstBlock(v)
Refused(n, v) == Room(n, v) < 0 \/ v = <<>>

\* The longest prefix of the request that fits.
Placed(n, v) ==
  IF Refused(n, v) THEN 0
  ELSE CHOOSE k \in 0..Len(v) :
         /\ Taken(v, k) <= Room(n, v)
         /\ k = Len(v) \/ Taken(v, k + 1) > Room(n, v)

StartOf(v, k) == FirstBlock(v) + Taken(v, k - 1)
=============================================================================
