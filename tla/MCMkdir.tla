------------------------------ MODULE MCMkdir ------------------------------
(* mkdir alone, on one or two arguments, of which the second may be shorter. *)
EXTENDS Mkdir

Paths == {<<"a">>, <<"c">>, <<"a", "b">>, <<"a", "/", "b">>}
MCArgs == {<<p, q>> : p, q \in Paths} \cup {<<p>> : p \in Paths}
Empty == {[dirs |-> {}, files |-> {}]}
=============================================================================
