------------------------------- MODULE MCGpt -------------------------------
(* Disks around the smallest that is accepted, and up to five partitions, so *)
(* that the entry array takes no block, one block and two.                   *)
EXTENDS Gpt

MCDisks == {4, 5, 6, 8, 9}
MCLayouts == UNION {[1..n -> {0, 1, 3}] : n \in 0..5}
=============================================================================
