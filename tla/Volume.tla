------------------------------- MODULE Volume -------------------------------
(***************************************************************************)
(* What a caller of gpt/fat.h may rely on: a volume is a set of files, each *)
(* in one run of consecutive clusters, with the contents of the host file. *)
(* Storing a file is atomic, moves no other file, and uses no cluster of   *)
(* another file; only a new format removes files.                          *)
(***************************************************************************)
EXTENDS Integers

CONSTANTS Word,    \* the range of a file size field
          Files, StSize

VARIABLES unit,    \* bytes in a cluster
          store    \* the files: [file, size, first, contents]

vvars == <<unit, store>>

Clusters(size) == (size + unit - 1) \div unit

\* Even an empty file owns a cluster.
Extent(r) == r.first .. r.first + (IF r.size = 0 THEN 0 ELSE Clusters(r.size) - 1)

Init == store = {}

Format == store' = {}

Store(f) ==
  \E r \in store' :
    /\ store' = store \cup {r} /\ r \notin store
    /\ r.file = f /\ r.size = StSize[f] % Word
    /\ r.contents = [k \in 0..Clusters(r.size) - 1 |-> <<f, k>>]
    /\ \A s \in store : Extent(s) \cap Extent(r) = {}
    /\ unit' = unit

Next == Format \/ \E f \in Files : Store(f)

Spec == Init /\ [][Next]_vvars
=============================================================================
