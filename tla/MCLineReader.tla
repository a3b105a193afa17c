---------------------------- MODULE MCLineReader ----------------------------
(* A queue of three bytes; streams of every byte that cut lines at every place *)
(* and leave a longer line behind in the caller's buffer, and longer ones, of  *)
(* which whole queues are lost at the beginning, in the middle and at the end  *)
(* of lines.                                                                   *)
EXTENDS LineReader

CONSTANTS x, y

MCBytes == {x, y, NUL, NL}
MCStreams == UNION ({[1..n -> MCBytes] : n \in 0..5} \cup {[1..n -> {y, NL}] : n \in 6..8})
=============================================================================
