------------------------------ MODULE MCFormat ------------------------------
(* An int of 5 bits and a long of 7: up to two and three decimal digits, all *)
(* values of both, and formats of up to three characters, or two conversions.*)
EXTENDS Format

Alphabet == {"%", "a"} \cup Directives
Short == UNION {[1..n -> Alphabet] : n \in 1..3}
Double == {<<"%", d, "%", e>> : d, e \in Directives} \cup {<<"%", "%", "d", "%", "%">>}
MCFormats == {f \in Short : f[1] = "%"} \cup Double \cup {<<"a", "%", d>> : d \in Directives}
MCArguments == {<<n, 37>> : n \in 0..127} \cup {<<0, 0>>, <<5>>}
=============================================================================
