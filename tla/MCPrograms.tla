----------------------------- MODULE MCPrograms -----------------------------
(* Inputs of the small programs for TLC.                                     *)
EXTENDS Programs

----------------------------------------------------------------------------
(* eval: a long of 8 bits and a buffer of 13 bytes.                          *)

DigitsOf(n) == IF n < 10 THEN <<n>> ELSE <<n \div 10, n % 10>>
OpText(op) == IF op = "null" THEN <<>> ELSE <<op>>
PlainText(g) ==
  FoldLeft(LAMBDA s, i : s \o OpText(i.op) \o [k \in DOMAIN i.digits |-> DigitBytes[i.digits[k] + 1]],
           <<>>, g)
ItemText(i) ==
  IF IsBracket(i) THEN OpText(i.op) \o <<"(">> \o PlainText(i.group) \o <<")">> ELSE PlainText(<<i>>)
Line(t) == [text |-> Append(FoldLeft(LAMBDA s, i : s \o ItemText(i), <<>>, t), "nl"), term |-> t]
Number(op, n) == [op |-> op, digits |-> DigitsOf(n)]
Plain(op, n) == [op |-> op, digits |-> DigitsOf(n), group |-> <<>>]
Bracket(op, g) == [op |-> op, digits |-> <<>>, group |-> g]

Nums == {0, 3, 12}
Groups == {<<Number("null", n), Number(o, m)>> : n, m \in Nums, o \in OperBytes}
Short == {<<Number("null", n)>> : n \in {0, 2}}
Terms ==
  {<<Plain("null", i), Plain(o, j), Plain(p, k)>> : i, j, k \in Nums, o, p \in OperBytes}
  \cup {<<Plain("null", i), Bracket(o, g)>> : i \in Nums, o \in OperBytes, g \in Groups}
  \cup {<<Bracket("null", g)>> : g \in Groups}
  \* ... and lines that go on behind a bracket.
  \cup {<<Bracket("null", g), Plain(o, 12), Plain(p, 3)>> : g \in Short, o, p \in OperBytes}
  \cup {<<Plain("null", 7), Bracket(o, g), Plain(p, 3)>> : g \in Groups, o, p \in OperBytes}
  \cup {<<Plain("null", 7), Bracket(o, g), Bracket(p, h)>> : g, h \in Short, o, p \in OperBytes}

\* Lines that leave brackets, operators or a fault behind, and all short lines.
Free(s) == [text |-> s, term |-> NoTerm]
Before == {Free(<<"1", "+", "2", "+", "(", "5", ")", "nl">>),
           Free(<<"*", "2", "-", "(", "9", "+", "+", "+", "+", "/", "(", "2">>)}
Texts == UNION {[1..n -> {"1", "+", "/", "(", ")", " ", "nl"}] : n \in 1..4}
EvalLines == {Line(t) : t \in Terms}
  \cup {Free(t) : t \in {u \in Texts : \A k \in 1..Len(u) - 1 : u[k] # "nl"}}
\* q ends the program: the line behind it is not read.
MCEvalSessions == {<<b, l>> : b \in Before, l \in EvalLines}
                  \cup {<<Free(<<"q", "nl">>), b>> : b \in Before}

----------------------------------------------------------------------------
(* wc, mkdir                                                                 *)

MCWcStreams == UNION {[1..n -> {"word", "other", "nl", "high"}] : n \in 0..4}

\* Repeated, nested, trailing and leading slashes, and arguments shorter than others.
Paths == {<<"a">>, <<"b">>, <<"a", "b">>, <<"/", "a">>, <<"a", "/", "b">>, <<"a", "/">>,
          <<"/">>, <<>>, <<"a", "/", "/", "b">>, <<"b", "/", "a", "/", "b">>}
MCMkdirArgs == {<<p, q>> : p, q \in Paths} \cup {<<p>> : p \in Paths}
               \cup {<<>>, <<<<"a", "b", "a", "b", "a", "b", "a">>>>}
MCMkdirTrees == {[dirs |-> {}, files |-> {}], [dirs |-> {<<<<"a">>>>}, files |-> {<<<<"b">>>>}],
                 [dirs |-> {}, files |-> {<<<<"a">>>>}]}
MCMkdirOthers == {<<<<"a">>>>, <<<<"a">>, <<"b">>>>}

----------------------------------------------------------------------------
(* ls, cat, kill, seq, stat and the smaller ones                             *)

KillArg == {[opt |-> "-h", num |-> 0], [opt |-> "-s", num |-> 0],
            [opt |-> "text", num |-> 3], [opt |-> "text", num |-> 7], [opt |-> "text", num |-> -1]}
UpTo(S, n) == UNION {[1..k -> S] : k \in 0..n}
MCJobs ==
  {[prog |-> "ls", names |-> n] : n \in UpTo({1, 4, 5, 12, 13, 14, 20, 21}, 3)}
  \cup {[prog |-> "cat", stdin |-> s, size |-> n] : s \in BOOLEAN, n \in 0..4}
  \cup {[prog |-> "kill", args |-> a] : a \in UpTo(KillArg, 4)}
  \cup {[prog |-> "seq", args |-> a] : a \in UpTo({-8, 0, 1, 2, 6, 7}, 3)}
  \cup {[prog |-> "stat", files |-> f] : f \in UpTo({"ok", "noopen", "nostat"}, 3)}
  \cup {[prog |-> p, lens |-> l] : p \in {"echo", "env"}, l \in UpTo({0, 2, 3, 9}, 3)}
  \cup {[prog |-> p, args |-> a] : p \in {"link", "sleep"}, a \in UpTo({1, 2}, 3)}
  \cup {[prog |-> p] : p \in {"pwd", "crash", "yes", "pause"}}

----------------------------------------------------------------------------
(* ELF files: sectors of 8 bytes, headers of 4.  Headers lie in a sector, end *)
(* with it, or continue in the next with nothing but the unused last field,   *)
(* with their sizes, or with all but their type.                              *)

MCPhdrSize == [c \in {32, 64} |-> IF c = 32 THEN 2 ELSE 4]
MCEhdrSize == [c \in {32, 64} |-> IF c = 32 THEN 1 ELSE 2]
MCFieldEnd ==
  [x \in {"type", "off", "paddr", "filesz", "memsz"} |->
     CASE x = "type" -> 1 [] x \in {"off", "paddr"} -> 2 [] OTHER -> 3]
MCElfMemory == 0..27
Segm(type, exec, off, paddr, filesz, memsz) ==
  [type |-> type, exec |-> exec, off |-> off, paddr |-> paddr, filesz |-> filesz, memsz |-> memsz]
\* Segments inside a sector, up to its end, across one or two, empty, with zeros behind.
Code == {Segm(1, TRUE, o, 0, n, n + z) : o \in {16, 19, 23}, n \in {0, 1, 5, 8, 11}, z \in {0, 2}}
Data == {Segm(t, FALSE, o, p, n, n + 1) : t \in 0..7, o \in {17, 24}, p \in {13, 4}, n \in {0, 6}}
Note == Segm(4, FALSE, 20, 2, 3, 3)
Elf64(phoff, phdrs) == [class |-> 64, size |-> 40, phoff |-> phoff, phdrs |-> phdrs]
\* The sector buffer is at 20; Low reaches into it from below, In lies in it.
Low == Segm(1, TRUE, 17, 17, 5, 9)
In == Segm(1, TRUE, 17, 22, 6, 6)
MCElfKernels == {Elf64(4, <<c, d>>) : c \in Code, d \in Data}
                \cup {Elf64(4, <<Note, c, Note>>) : c \in Code}
                \cup {Elf64(p, <<c, Note>>) : p \in 5..7, c \in Code \cup {Note, Low, In}}
MCElfPrograms ==
  {[class |-> k, size |-> s, phoff |-> MCEhdrSize[k], phdrs |-> <<c, d, c>>] :
     k \in {32, 64}, s \in {1, 4, 25, 40}, c \in {e \in Code : e.filesz = e.memsz},
     d \in {e \in Data : e.paddr = 4 /\ e.type \in {0, 1, 3, 4}}}
=============================================================================
