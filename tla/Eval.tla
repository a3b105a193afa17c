-------------------------------- MODULE Eval --------------------------------
(***************************************************************************)
(* The calculator tlibc/eval.c: main reads lines into one static buffer    *)
(* and eval_recur walks over the bytes of the buffer, calling itself at an *)
(* opening bracket.  Its frames are the stack efrm; one step is one byte.  *)
(* The walk ends at a zero byte and not at the end of the line: what an    *)
(* earlier line left behind that byte is part of the state.                *)
(*                                                                         *)
(* A byte is a one-character string, "nl" or "nul".  A line as fdgets      *)
(* returns it ends in "nl", or has none if the read was cut short or the   *)
(* input ends without one.                                                 *)
(***************************************************************************)
EXTENDS Integers, Sequences, SequencesExt

CONSTANTS
  EvalSessions,  \* sequences of [text, term]: a line, and the expression it spells, if any
  EvalBuf,       \* sizeof(buf)
  EvalHalf       \* 2^63 in the code: the values of a long are -EvalHalf..EvalHalf-1

VARIABLES
  esess, eline,  \* lines to come, and the current one
  ebuf,          \* buf, from index 0
  epos,          \* expr of the innermost call, as an index of buf
  efrm,          \* frames of eval_recur, innermost last: [ret, cur, op]
  evalue,        \* what eval returned
  epc

evalVars == <<esess, eline, ebuf, epos, efrm, evalue, epc>>

DigitBytes == <<"0", "1", "2", "3", "4", "5", "6", "7", "8", "9">>
DigitValue(c) == CHOOSE n \in 0..9 : DigitBytes[n + 1] = c
OperBytes == {"+", "-", "*", "/"}
FreshFrame == [ret |-> 0, cur |-> 0, op |-> "null"]

\* long arithmetic: two's complement, and division that truncates.
ToLong(v) ==
  LET u == v % (2 * EvalHalf) IN IF u >= EvalHalf THEN u - 2 * EvalHalf ELSE u
Magnitude(v) == IF v < 0 THEN -v ELSE v
Quotient(a, b) ==
  LET q == Magnitude(a) \div Magnitude(b) IN IF (a < 0) = (b < 0) THEN q ELSE -q

OperKeepsLeft(op, a, b) ==    \* mutant: OP_NULL does nothing
  CASE op = "null" -> a
    [] op = "+" -> ToLong(a + b) [] op = "-" -> ToLong(a - b)
    [] op = "*" -> ToLong(a * b) [] op = "/" -> ToLong(Quotient(a, b))
Oper(op, a, b) ==
  CASE op = "null" -> b
    [] op = "+" -> ToLong(a + b) [] op = "-" -> ToLong(a - b)
    [] op = "*" -> ToLong(a * b) [] op = "/" -> ToLong(Quotient(a, b))

\* The processor faults on a zero divisor, and on the one quotient that has no long.
Faults(op, a, b) == op = "/" /\ (b = 0 \/ (b = -1 /\ a = -EvalHalf))

\* eval_simple on a frame that does not fault.
EvalSimple(f) == [f EXCEPT !.ret = Oper(f.op, f.ret, f.cur), !.cur = 0]
FrameFaults(f) == Faults(f.op, f.ret, f.cur)

Top == efrm[Len(efrm)]
Nested == Len(efrm) > 1
Byte == ebuf[epos]
SetTop(f) == [efrm EXCEPT ![Len(efrm)] = f]

\* The frame below the innermost one, with v as the value of the bracket.
Caller(v) == [efrm[Len(efrm) - 1] EXCEPT !.cur = v]
PopTo(f) == Append(SubSeq(efrm, 1, Len(efrm) - 2), f)

\* eval_recur applies the pending operation at a closing bracket, not at a zero byte.
ResultFrame == IF Byte = ")" THEN EvalSimple(Top) ELSE Top

----------------------------------------------------------------------------
(* Expressions: numbers, and brackets around numbers (group is not empty),  *)
(* each with the operator in front of it.  Brackets do not nest.  A value is *)
(* [ok, v].                                                                  *)

Operand == [op : STRING, digits : Seq(0..9)]
Item == [op : STRING, digits : Seq(0..9), group : Seq(Operand)]
EvalTerm == Seq(Item)
NoTerm == <<>>
IsBracket(i) == i.group # <<>>

\* The numbers that the first digits of d stand for.
Numbers(d) == LET n[k \in 0..Len(d)] == IF k = 0 THEN 0 ELSE 10 * n[k - 1] + d[k] IN n
NumberOf(d) == Numbers(d)[Len(d)]

Exact(op, a, b) ==
  CASE op = "null" -> b [] op = "+" -> a + b [] op = "-" -> a - b [] op = "*" -> a * b
    [] op = "/" -> IF (a < 0) = (b < 0) THEN Magnitude(a) \div Magnitude(b)
                                        ELSE -(Magnitude(a) \div Magnitude(b))
Step(r, op, b) ==
  IF ~ r.ok \/ Faults(op, r.v, b) THEN [ok |-> FALSE, v |-> 0]
  ELSE [ok |-> TRUE, v |-> ToLong(Exact(op, r.v, b))]
Nothing == [ok |-> TRUE, v |-> 0]

\* The values of the beginnings of g.
Values(g) ==
  LET r[k \in 0..Len(g)] ==
        IF k = 0 THEN Nothing ELSE Step(r[k - 1], g[k].op, NumberOf(g[k].digits))
  IN r
PlainValue(g) == Values(g)[Len(g)]

\* The operator that counts in front of each item: behind a bracket it is not the one
\* that is written there, but once more the one that counts in front of the bracket.
Applied(t) ==
  LET a[k \in 0..Len(t)] == IF k = 0 THEN "null"
                            ELSE IF k > 1 /\ IsBracket(t[k - 1]) THEN a[k - 1] ELSE t[k].op
  IN a
ItemValue(i) == IF IsBracket(i) THEN PlainValue(i.group) ELSE [ok |-> TRUE, v |-> NumberOf(i.digits)]
ItemStep(r, op, w) == IF w.ok THEN Step(r, op, w.v) ELSE w
ItemValues(t) ==
  LET r[k \in 0..Len(t)] ==
        IF k = 0 THEN Nothing ELSE ItemStep(r[k - 1], Applied(t)[k], ItemValue(t[k]))
  IN r
ValueOf(t) == ItemValues(t)[Len(t)]

\* A line and the expression it spells.  The operands of g stand in the line behind its
\* first from bytes; Ends says where each of them ends, ItemEnds where each item does.
OpSize(op) == IF op = "null" THEN 0 ELSE 1
Ends(from, g) ==
  LET e[k \in 0..Len(g)] ==
        IF k = 0 THEN from ELSE e[k - 1] + OpSize(g[k].op) + Len(g[k].digits)
  IN e
GroupEnd(from, g) == Ends(from, g)[Len(g)]
ItemEnd(from, i) ==
  IF IsBracket(i) THEN GroupEnd(from + OpSize(i.op) + 1, i.group) + 1
  ELSE from + OpSize(i.op) + Len(i.digits)
ItemEnds(t) == LET e[k \in 0..Len(t)] == IF k = 0 THEN 0 ELSE ItemEnd(e[k - 1], t[k]) IN e
\* Where item k begins, behind its operator.
ItemAt(t, k) == ItemEnds(t)[k - 1] + OpSize(t[k].op)

SpellsNumber(text, end, d) ==
  \A j \in 1..Len(d) : text[end - Len(d) + j] = DigitBytes[d[j] + 1]
Spells(text, from, g) ==
  \A k \in 1..Len(g) :
    /\ g[k].op # "null" => text[Ends(from, g)[k - 1] + 1] = g[k].op
    /\ SpellsNumber(text, Ends(from, g)[k], g[k].digits)
IsNumber(d) == d # <<>> /\ NumberOf(d) < EvalHalf
WellFormed(g) ==
  \A k \in 1..Len(g) :
    IsNumber(g[k].digits) /\ IF k = 1 THEN g[k].op = "null" ELSE g[k].op \in OperBytes

SpellsItem(text, t, k) ==
  /\ IF k = 1 THEN t[k].op = "null"
     ELSE t[k].op \in OperBytes /\ text[ItemEnds(t)[k - 1] + 1] = t[k].op
  /\ IF IsBracket(t[k])
     THEN /\ WellFormed(t[k].group) /\ Spells(text, ItemAt(t, k) + 1, t[k].group)
          /\ text[ItemAt(t, k) + 1] = "(" /\ text[ItemEnds(t)[k]] = ")"
     ELSE IsNumber(t[k].digits) /\ SpellsNumber(text, ItemEnds(t)[k], t[k].digits)
WrittenFrom(text, t) ==
  /\ \A k \in 1..Len(t) : SpellsItem(text, t, k)
  /\ Len(text) = ItemEnds(t)[Len(t)] + 1 /\ text[Len(text)] = "nl"

EvalInput ==
  {l \in [text : Seq(STRING), term : EvalTerm] : l.term # NoTerm => WrittenFrom(l.text, l.term)}

ASSUME EvalAssumption ==
  EvalBuf \in Nat \ {0} /\ EvalHalf \in Nat \ {0} /\ EvalSessions \subseteq Seq(EvalInput)

----------------------------------------------------------------------------
EvalInit ==
  /\ esess \in EvalSessions /\ eline = [text |-> <<>>, term |-> NoTerm]
  /\ ebuf = [k \in 0..EvalBuf - 1 |-> "nul"]
  /\ epos = 0 /\ efrm = <<>> /\ evalue = 0 /\ epc = "read"

EvalIdle ==
  /\ esess = <<>> /\ eline = [text |-> <<>>, term |-> NoTerm] /\ ebuf = <<>>
  /\ epos = 0 /\ efrm = <<>> /\ evalue = 0 /\ epc = "none"

\* fdgets ends a line with a zero byte, and a piece of one where it finds such a byte.
EvalRead ==
  /\ epc = "read" /\ esess # <<>>
  /\ LET text == Head(esess).text IN
       /\ Len(text) < EvalBuf
       /\ Last(text) = "nl" \/ ebuf[Len(text)] = "nul"
       /\ ebuf' = [k \in DOMAIN ebuf |-> IF k < Len(text) THEN text[k + 1]
                                         ELSE IF k = Len(text) THEN "nul" ELSE ebuf[k]]
  /\ eline' = Head(esess) /\ esess' = Tail(esess)
  /\ epos' = 0 /\ efrm' = <<FreshFrame>> /\ epc' = "scan"
  /\ UNCHANGED evalue

EvalEof ==
  /\ epc = "read"
  /\ epc' = "ended"
  /\ UNCHANGED <<esess, eline, ebuf, epos, efrm, evalue>>

EvalDigit ==
  /\ epc = "scan" /\ epos < EvalBuf /\ Byte \in ToSet(DigitBytes)
  /\ efrm' = SetTop([Top EXCEPT !.cur = ToLong(ToLong(10 * @) + DigitValue(Byte))])
  /\ epos' = epos + 1
  /\ UNCHANGED <<esess, eline, ebuf, evalue, epc>>

\* An operator applies the one before it; so does any other byte, without taking the
\* pending operator away.
EvalOther ==
  /\ epc = "scan" /\ epos < EvalBuf
  /\ Byte \notin ToSet(DigitBytes) \cup {"(", ")", "nul"} /\ ~ FrameFaults(Top)
  /\ efrm' = SetTop([EvalSimple(Top) EXCEPT !.op = IF Byte \in OperBytes THEN Byte ELSE @])
  /\ epos' = epos + 1
  /\ UNCHANGED <<esess, eline, ebuf, evalue, epc>>

EvalOpen ==
  /\ epc = "scan" /\ epos < EvalBuf /\ Byte = "("
  /\ efrm' = Append(efrm, FreshFrame) /\ epos' = epos + 1
  /\ UNCHANGED <<esess, eline, ebuf, evalue, epc>>

AfterBracketAndMore ==    \* mutant: the call returns the byte after next
  epos + (IF Byte = ")" THEN 3 ELSE 1)
\* A bracketed call returns the address behind its ')', or of the zero byte it met;
\* the loop of the caller goes on one byte further.
AfterBracket == epos + (IF Byte = ")" THEN 2 ELSE 1)

EvalReturn ==
  /\ epc = "scan" /\ epos < EvalBuf /\ Byte \in {")", "nul"} /\ Nested
  /\ Byte = ")" => ~ FrameFaults(Top)
  /\ LET f == Caller(ResultFrame.ret) IN ~ FrameFaults(f) /\ efrm' = PopTo(EvalSimple(f))
  /\ epos' = AfterBracket
  /\ UNCHANGED <<esess, eline, ebuf, evalue, epc>>

EvalFinish ==
  /\ epc = "scan" /\ epos < EvalBuf /\ Byte \in {")", "nul"} /\ ~ Nested
  /\ Byte = ")" => ~ FrameFaults(Top)
  /\ evalue' = ResultFrame.ret /\ efrm' = <<>> /\ epc' = "print"
  /\ UNCHANGED <<esess, eline, ebuf, epos>>

EvalFault ==
  /\ epc = "scan" /\ epos < EvalBuf
  /\ \/ Byte \notin ToSet(DigitBytes) \cup {"(", "nul"} /\ FrameFaults(Top)
     \/ /\ Byte \in {")", "nul"} /\ Nested /\ (Byte = ")" => ~ FrameFaults(Top))
        /\ FrameFaults(Caller(ResultFrame.ret))
  /\ epc' = "fault"
  /\ UNCHANGED <<esess, eline, ebuf, epos, efrm, evalue>>

\* The walk has left the buffer.
EvalWild ==
  /\ epc = "scan" /\ epos >= EvalBuf
  /\ epc' = "wild"
  /\ UNCHANGED <<esess, eline, ebuf, epos, efrm, evalue>>

\* The value is printed, and then a line that begins with q ends the program.
EvalPrint ==
  /\ epc = "print"
  /\ epc' = IF ebuf[0] = "q" THEN "ended" ELSE "read"
  /\ UNCHANGED <<esess, eline, ebuf, epos, efrm, evalue>>

EvalNext == \/ EvalRead \/ EvalEof \/ EvalDigit \/ EvalOther \/ EvalOpen \/ EvalReturn
            \/ EvalFinish \/ EvalFault \/ EvalWild \/ EvalPrint
EvalEnded == epc \in {"none", "ended", "fault", "wild"}

----------------------------------------------------------------------------
(* Properties.                                                             *)

\* eval_recur and eval_simple together compute an expression from left to right, without
\* precedence, whatever earlier lines left in the buffer, and the program faults only
\* where that value does not exist.  It is not what the line says if anything stands
\* behind a bracket: the loop steps over the byte there, and the operator in front of
\* the bracket counts again (Applied), so that (3)+12 is 12 and 1+(2)*3 is 6.
LeftToRight ==
  eline.term # NoTerm =>
    /\ epc = "print" => ValueOf(eline.term) = [ok |-> TRUE, v |-> evalue]
    /\ epc = "fault" => ~ ValueOf(eline.term).ok
    /\ epc # "wild"

\* Every bracket is closed before another one opens, and the line ends in a newline.
Simple(t) ==
  /\ t # <<>> /\ Last(t) = "nl"
  /\ \A k \in DOMAIN t : t[k] \in {"(", ")"} =>
       LET before == {j \in 1..k - 1 : t[j] \in {"(", ")"}}
       IN IF before = {} THEN t[k] = "("
          ELSE t[k] # t[CHOOSE j \in before : \A i \in before : i <= j]
  /\ \A k \in DOMAIN t : t[k] = "(" => \E j \in DOMAIN t : j > k /\ t[j] = ")"

\* The loop steps over a byte after each bracket, so that a bracket that is still
\* open, or that closes on the last byte, makes it step over the zero byte and go on
\* in what an earlier line left there.  A newline-terminated line whose brackets are
\* closed one by one is safe, whatever else it holds.
StaysInLine ==
  epc = "scan" /\ Simple(eline.text) => epos <= Len(eline.text)
=============================================================================
