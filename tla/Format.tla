------------------------------- MODULE Format -------------------------------
(***************************************************************************)
(* Formatted output: Sprintf of tlibc/stdio.c (Printf is the same loop     *)
(* followed by a write), its conversions, and atoi of tlibc/atoi.c.        *)
(*                                                                         *)
(* A character is a one-character string.  An argument is an unsigned      *)
(* long; an int is its low bits.  The buffer dst is as the caller left it: *)
(* Garbage where nothing has been written.                                 *)
(***************************************************************************)
EXTENDS Integers, Sequences

CONSTANTS
  Formats,      \* format strings: sequences of characters
  Arguments,    \* argument lists: sequences of unsigned longs
  IntHalf,      \* 2^31 in the code: the values of an int are -IntHalf..IntHalf-1
  LongHalf,     \* 2^63 in the code
  DstLen        \* size of the caller's buffer

Garbage == "?"
Nul == "\\0"

ASSUME FormatAssumption ==
  /\ IntHalf \in Nat \ {0} /\ LongHalf \in Nat \ {0} /\ DstLen \in Nat
  /\ Formats \subseteq Seq(STRING)
  /\ \A f \in Formats : \A k \in 1..Len(f) : f[k] # Nul
  /\ Arguments \subseteq Seq(0..2 * LongHalf - 1)

VARIABLES
  fmt, arg, fi,  \* the format string, the arguments left, and the next character
  fdst, ret,     \* the buffer dst, and the number of characters put there
  spans,         \* history: [dir, val, at, from, to] for each conversion
  fpc

formatVars == <<fmt, arg, fi, fdst, ret, spans, fpc>>

DigitChars == <<"0", "1", "2", "3", "4", "5", "6", "7", "8", "9", "a", "b", "c", "d", "e", "f">>

Unsigned(v, half) == v % (2 * half)
Signed(v, half) ==
  LET u == v % (2 * half) IN IF u >= half THEN u - 2 * half ELSE u

\* The loop that fills buf with digits, and the loop that copies them backwards;
\* nothing for 0.
Digits(v, base) ==
  LET D[n \in 0..v] == IF n = 0 THEN <<>> ELSE Append(D[n \div base], DigitChars[(n % base) + 1])
  IN D[v]

Zero == <<"0">>

\* v = -val, in an unsigned type as wide as val.
NegatedNaive(val, half) ==    \* mutant: the magnitude is kept in the signed type
  -val % half
Negated(val, half) == Unsigned(-val, half)

PutSigned(val, half) ==
  IF val < 0 THEN <<"-">> \o Digits(Negated(val, half), 10) ELSE Digits(val, 10)

putint(v) == IF Signed(v, IntHalf) = 0 THEN Zero ELSE PutSigned(Signed(v, IntHalf), IntHalf)
putuint(v) == IF Unsigned(v, IntHalf) = 0 THEN Zero ELSE Digits(Unsigned(v, IntHalf), 10)
puthex(v) == <<"0", "x">> \o Digits(Unsigned(v, IntHalf), 16)
\* For 0 the digit goes to buf instead of dst.
putptr(v) == <<"0", "x">> \o (IF v = 0 THEN <<Garbage>> ELSE Digits(v, 16))
putl(v) == PutSigned(Signed(v, LongHalf), LongHalf)
putul(v) == IF v = 0 THEN Zero ELSE Digits(v, 10)
\* A pointer is a string of its own, or null.
putstr(v) == IF v = 0 THEN <<"(", "n", "u", "l", "l", ")">> ELSE <<"s">>

Directives == {"d", "u", "x", "p", "l", "s", "L"}
Put(d, v) ==
  CASE d = "d" -> putint(v) [] d = "u" -> putuint(v) [] d = "x" -> puthex(v)
    [] d = "p" -> putptr(v) [] d = "l" -> putl(v)    [] d = "s" -> putstr(v)
    [] d = "L" -> putul(v)

FormatInit ==
  /\ fmt \in Formats /\ arg \in Arguments /\ fi = 1
  /\ fdst = [k \in 1..DstLen |-> Garbage] /\ ret = 0 /\ spans = <<>> /\ fpc = "loop"

At(k) == IF k <= Len(fmt) THEN fmt[k] ELSE Nul
IsConversion(k) == At(k) = "%" /\ At(k + 1) \in Directives

\* Store s in the buffer from position ret on.
Fits(s) == ret + Len(s) <= DstLen
Written(s) ==
  fdst' = [k \in 1..DstLen |-> IF k \in ret + 1..ret + Len(s) THEN s[k - ret] ELSE fdst[k]]

Directive ==
  /\ fpc = "loop" /\ IsConversion(fi) /\ arg # <<>>
  /\ LET s == Put(At(fi + 1), Head(arg)) IN
       /\ Fits(s) /\ Written(s) /\ ret' = ret + Len(s)
       /\ spans' = Append(spans, [dir |-> At(fi + 1), val |-> Head(arg), at |-> fi,
                                  from |-> ret + 1, to |-> ret + Len(s)])
  /\ arg' = Tail(arg) /\ fi' = fi + 2
  /\ UNCHANGED <<fmt, fpc>>

PercentSkips ==    \* mutant: the character after the sign is taken with it
  /\ fpc = "loop" /\ At(fi) = "%" /\ ~ IsConversion(fi) /\ Fits(<<"%">>)
  /\ Written(<<"%">>) /\ ret' = ret + 1 /\ fi' = fi + 2
  /\ UNCHANGED <<fmt, arg, spans, fpc>>

\* No conversion follows: the sign itself is printed and the next character looked at.
Percent ==
  /\ fpc = "loop" /\ At(fi) = "%" /\ ~ IsConversion(fi) /\ Fits(<<"%">>)
  /\ Written(<<"%">>) /\ ret' = ret + 1 /\ fi' = fi + 1
  /\ UNCHANGED <<fmt, arg, spans, fpc>>

Plain ==
  /\ fpc = "loop" /\ At(fi) \notin {"%", Nul} /\ Fits(<<At(fi)>>)
  /\ Written(<<At(fi)>>) /\ ret' = ret + 1 /\ fi' = fi + 1
  /\ UNCHANGED <<fmt, arg, spans, fpc>>

Finish ==
  /\ fpc = "loop" /\ At(fi) = Nul /\ Fits(<<Nul>>)
  /\ Written(<<Nul>>) /\ fpc' = "returned"
  /\ UNCHANGED <<fmt, arg, fi, ret, spans>>

\* The next store goes behind the caller's buffer, or va_arg finds no argument.
Undefined ==
  /\ fpc = "loop"
  /\ IF IsConversion(fi) THEN arg # <<>> => ~ Fits(Put(At(fi + 1), Head(arg)))
     ELSE ~ Fits(<<At(fi)>>)
  /\ fpc' = "undefined"
  /\ UNCHANGED <<fmt, arg, fi, fdst, ret, spans>>

FormatDone == fpc \in {"returned", "undefined"} /\ UNCHANGED formatVars

FormatNext == Directive \/ Percent \/ Plain \/ Finish \/ Undefined \/ FormatDone
FormatSpec == FormatInit /\ [][FormatNext]_formatVars

----------------------------------------------------------------------------
(* Reading output back.                                                    *)

DigitOf(c) == CHOOSE n \in 0..15 : DigitChars[n + 1] = c
IsDigit(c) == \E n \in 0..9 : DigitChars[n + 1] = c

\* tlibc/atoi.c: characters that are no digits, signs included, are skipped.
atoi(s) ==
  LET n[k \in 0..Len(s)] ==
        IF k = 0 THEN 0
        ELSE IF IsDigit(s[k]) THEN Signed(10 * n[k - 1] + DigitOf(s[k]), IntHalf) ELSE n[k - 1]
  IN n[Len(s)]

\* s is the numeral of n: at least one digit and no leading zero.
Value(s, base) ==
  LET n[k \in 0..Len(s)] == IF k = 0 THEN 0 ELSE n[k - 1] * base + DigitOf(s[k]) IN n[Len(s)]
Numeral(s, n, base) ==
  /\ s # <<>> /\ (s[1] = "0" => Len(s) = 1)
  /\ \A k \in 1..Len(s) : \E m \in 0..base - 1 : s[k] = DigitChars[m + 1]
  /\ n = Value(s, base)

ShowsSigned(s, n) == IF n < 0 THEN s # <<>> /\ s[1] = "-" /\ Numeral(Tail(s), -n, 10)
                              ELSE Numeral(s, n, 10)
ShowsHex(s, n) == /\ Len(s) > 2 /\ SubSeq(s, 1, 2) = <<"0", "x">>
                  /\ Numeral(SubSeq(s, 3, Len(s)), n, 16)

Shows(s, d, v) ==
  CASE d = "d" -> ShowsSigned(s, Signed(v, IntHalf))
    [] d = "l" -> ShowsSigned(s, Signed(v, LongHalf))
    [] d = "u" -> Numeral(s, Unsigned(v, IntHalf), 10)
    [] d = "L" -> Numeral(s, v, 10)
    [] d = "x" -> ShowsHex(s, Unsigned(v, IntHalf))
    [] d = "p" -> ShowsHex(s, v)
    [] d = "s" -> s = putstr(v)

\* putl, puthex and putptr have no case for zero that works.
ZeroCase(d, v) == \/ d \in {"l", "p"} /\ v = 0
                  \/ d = "x" /\ Unsigned(v, IntHalf) = 0

----------------------------------------------------------------------------
(* Properties.                                                             *)

\* Every conversion prints the numeral of its argument, in its own type and the most
\* negative value included, and nothing printed later damages it.  The only values
\* that are not shown are zeros of %l, %x and %p.  What %d prints is also read back by
\* the repository's own atoi, up to the sign it skips.
ConversionsReadBack ==
  \A k \in 1..Len(spans) :
    LET s == SubSeq(fdst, spans[k].from, spans[k].to)
        n == Signed(spans[k].val, IntHalf)
    IN /\ Shows(s, spans[k].dir, spans[k].val) <=> ~ ZeroCase(spans[k].dir, spans[k].val)
       /\ spans[k].dir = "d" => Unsigned(atoi(s), IntHalf) = (IF n < 0 THEN -n ELSE n)

\* The text behind conversion n: where it begins in the format string and in the
\* buffer, and where the next conversion begins.
FmtFrom(n) == IF n = 0 THEN 1 ELSE spans[n].at + 2
DstFrom(n) == IF n = 0 THEN 1 ELSE spans[n].to + 1
FmtTo(n, stop) == IF n = Len(spans) THEN stop ELSE spans[n + 1].at
DstTo(n) == IF n = Len(spans) THEN ret + 1 ELSE spans[n + 1].from
SameText(n, stop) ==
  /\ FmtTo(n, stop) - FmtFrom(n) = DstTo(n) - DstFrom(n) /\ FmtFrom(n) <= FmtTo(n, stop)
  /\ \A k \in 0..FmtTo(n, stop) - FmtFrom(n) - 1 :
       fdst[DstFrom(n) + k] = fmt[FmtFrom(n) + k] /\ ~ IsConversion(FmtFrom(n) + k)

\* Sprintf ends its output with a zero byte right behind the characters it counts,
\* and between the conversions it has printed the format string, no character lost
\* and none doubled, single and repeated percent signs included.
TextKept ==
  fpc = "returned" =>
    /\ fdst[ret + 1] = Nul
    /\ \A n \in 0..Len(spans) : SameText(n, Len(fmt) + 1)
=============================================================================
