------------------------------ MODULE MCShell ------------------------------
(* A first line that leaves something behind, then every line of up to five *)
(* lexemes of the syntax, or a short one with built-ins and blanks.         *)
EXTENDS Shell

Upto(n, S) == UNION {[1..k -> S] : k \in 1..n}
Syntax == {"|", "<", ">", "2>", ";"}
LongLines == Upto(5, Syntax \cup {"ls"})
ShortLines == Upto(3, {"ls", "cd", "pid", "q", "exit", "|", "<", ";", " "})
\* A redirection that is never completed, two jobs with arguments and a redirected
\* descriptor, and a built-in.
FirstLines == {<<"ls", ">">>, <<"ls", "ls", "|", "ls", "ls", "<", "in">>, <<"cd", "ls", " ", ";">>}
MCLines == <<FirstLines, LongLines \cup ShortLines>>
=============================================================================
