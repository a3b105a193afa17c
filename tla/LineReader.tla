----------------------------- MODULE LineReader -----------------------------
(***************************************************************************)
(* The line reader of tlibc/stdio.c (fill_buf, copy_buf, fdgets) under the *)
(* loop of its callers, sh.c and eval.c: read a line into a static buffer, *)
(* use it, read the next one into the same buffer.  The descriptor is a    *)
(* terminal, a pipe or a file: a read delivers any non-empty part of what  *)
(* is left, at most the size of the queue.                                 *)
(***************************************************************************)
EXTENDS Integers, Sequences

CONSTANTS
  Size,      \* sizeof(br->buf)
  DstSize,   \* size of the caller's line buffer
  Bytes,     \* the bytes there are
  Streams,   \* the byte sequences the descriptor may deliver
  NUL, NL    \* the bytes '\0' and '\n'

ASSUME ReaderAssumption ==
  /\ Size \in Nat \ {0} /\ DstSize \in Nat \ {0}
  /\ NUL \in Bytes /\ NL \in Bytes /\ NUL # NL
  /\ Streams \subseteq Seq(Bytes)

VARIABLES
  input,             \* bytes not yet read from the descriptor
  queue, start, end, \* struct buffered_reader
  dst,               \* the caller's buffer, kept between calls
  pos,               \* fdgets's dst, as an index
  pc,
  last,              \* history: the string the last call returned
  delivered,         \* history: all returned strings, concatenated
  fetched,           \* history: bytes read into a queue that was then used
  arrived,           \* history: all bytes read, those of a full queue too
  gap                \* history: the running call lost bytes behind its first one

history == <<last, delivered, fetched, arrived, gap>>

vars == <<input, queue, start, end, dst, pos, pc, history>>

\* The bytes of s that copy_buf copies: do not copy \0.
NonNul(s) ==
  LET copied[n \in 0..Len(s)] ==
        IF n = 0 THEN <<>>
        ELSE IF s[n] = NUL THEN copied[n - 1] ELSE Append(copied[n - 1], s[n])
  IN copied[Len(s)]

\* The string at the beginning of the caller's buffer, as C code reads it.
CString(d) ==
  LET n == CHOOSE k \in 0..DstSize :
             /\ \A j \in 0..k - 1 : d[j] # NUL
             /\ k = DstSize \/ d[k] = NUL
  IN [k \in 1..n |-> d[k - 1]]

\* Bytes of the queue not yet copied.
Pending == SubSeq(queue, start + 1, end)

WholeQueue(q) == q    \* mutant: copy_buf does not stop at a newline
\* copy_buf takes bytes up to and including the first newline.
UpToNewline(q) ==
  LET ends == {k \in 1..Len(q) : q[k] = NL}
  IN IF ends = {} THEN q ELSE SubSeq(q, 1, CHOOSE k \in ends : \A j \in ends : k <= j)

Store(d, at, s) ==
  [k \in DOMAIN d |-> IF k \in at..at + Len(s) - 1 THEN s[k - at + 1] ELSE d[k]]

----------------------------------------------------------------------------
Init ==
  /\ input \in Streams
  /\ queue = <<>> /\ start = 0 /\ end = 0
  /\ dst = [k \in 0..DstSize - 1 |-> NUL]       \* static storage
  /\ pos = 0 /\ pc = "caller"
  /\ last = <<>> /\ delivered = <<>> /\ fetched = <<>> /\ arrived = <<>> /\ gap = FALSE

CallAppends ==    \* mutant: a line is put after the one before it
  /\ pc = "caller"
  /\ pc' = "fill" /\ gap' = FALSE
  /\ UNCHANGED <<input, queue, start, end, pos, dst, last, delivered, fetched, arrived>>

Call ==
  /\ pc = "caller"
  /\ pos' = 0 /\ pc' = "fill" /\ gap' = FALSE
  /\ UNCHANGED <<input, queue, start, end, dst, last, delivered, fetched, arrived>>

\* fill_buf finds bytes left in the queue.
FillSkips ==
  /\ pc = "fill" /\ start # end
  /\ pc' = "copy"
  /\ UNCHANGED <<input, queue, start, end, dst, pos, history>>

EndAfterRead(ret) == ret % Size

\* read returns ret bytes; a read that fills the queue leaves it empty.
FillReads ==
  /\ pc = "fill" /\ start = end
  /\ \E ret \in 1..Size :
       /\ ret <= Len(input)
       /\ queue' = SubSeq(input, 1, ret) /\ input' = SubSeq(input, ret + 1, Len(input))
       /\ start' = 0 /\ end' = EndAfterRead(ret)
       /\ fetched' = fetched \o (IF ret < Size THEN queue' ELSE <<>>)
       /\ arrived' = arrived \o queue'
       /\ gap' = (gap \/ (ret = Size /\ pos > 0))
  /\ pc' = "copy"
  /\ UNCHANGED <<dst, pos, last, delivered>>

FillIgnoresEof ==    \* mutant: the result of read is not looked at
  /\ pc = "fill" /\ start = end
  /\ start' = 0 /\ end' = 0 /\ pc' = "copy"
  /\ UNCHANGED <<input, queue, dst, pos, history>>

\* End of file, or a failing read: fdgets returns false and the caller stops.
FillEnds ==
  /\ pc = "fill" /\ start = end
  /\ start' = 0 /\ end' = 0 /\ pc' = "eof"
  /\ UNCHANGED <<input, queue, dst, pos, history>>

\* copy_buf; a line that does not fit overruns the caller's buffer.
Copy ==
  LET taken == UpToNewline(Pending)
      bytes == NonNul(taken)
      line == Len(taken) > 0 /\ taken[Len(taken)] = NL
      new == Store(dst, pos, IF line THEN Append(bytes, NUL) ELSE bytes)
  IN /\ pc = "copy"
     /\ start' = (start + Len(taken)) % Size
     /\ pos' = pos + Len(bytes)
     /\ dst' = new
     /\ pc' = IF pos' < DstSize THEN "test" ELSE "overrun"
     /\ UNCHANGED <<input, queue, end, history>>

\* fdgets: if (*dst == 0) return true;
Return ==
  /\ pc = "test" /\ dst[pos] = NUL
  /\ last' = CString(dst) /\ delivered' = delivered \o CString(dst)
  /\ pc' = "caller"
  /\ UNCHANGED <<input, queue, start, end, dst, pos, fetched, arrived, gap>>

Again ==
  /\ pc = "test" /\ dst[pos] # NUL
  /\ pc' = "fill"
  /\ UNCHANGED <<input, queue, start, end, dst, pos, history>>

Done == pc \in {"eof", "overrun"} /\ UNCHANGED vars

Next == \/ Call \/ FillSkips \/ FillReads \/ FillEnds \/ Copy \/ Return \/ Again
        \/ Done

Spec == Init /\ [][Next]_vars /\ WF_vars(Next)

----------------------------------------------------------------------------
(* Properties.                                                             *)

\* What fdgets has copied in the call that is running, or that met the end of input.
Current ==
  IF pc \in {"fill", "copy", "test", "eof"} THEN [k \in 1..pos |-> dst[k - 1]] ELSE <<>>

\* all is some bytes, then s, then rest.
Between(s, all, rest) == \E k \in 0..Len(all) : all = SubSeq(all, 1, k) \o s \o rest

\* The bytes of s stand together in the stream, just before those in the queue.
Piece(s) == Between(s, NonNul(arrived), NonNul(Pending))

\* fdgets decides that a line is complete by looking at a byte of the caller's
\* buffer that this call may not have written.  Whatever earlier lines left there,
\* the bytes of the reads that did not fill the queue are, each once and in order,
\* in the lines returned, in the caller's buffer or in the queue; what the loop has
\* read and not returned when it ends is a last line without a newline, and what
\* never gets as far as a line is whole queues: a read of sizeof(buf) bytes is lost.
StreamPreserved ==
  /\ pc # "overrun" => delivered \o Current \o NonNul(Pending) = NonNul(fetched)
  /\ pc = "eof" => \A k \in 1..pos : Current[k] # NL
  /\ fetched # arrived => Len(arrived) >= Len(fetched) + Size

\* However reads cut the stream, a returned line holds at most one newline, at its
\* end, and its bytes stand together in the stream of all that was read, unless a
\* read that filled the queue was lost in the middle of the call: then the two ends,
\* of two lines perhaps, are run together.  A single line, under the same condition,
\* is what overruns the caller's buffer, whose size copy_buf does not know.
LinesKeptApart ==
  /\ \A k \in 1..Len(last) : last[k] = NL => k = Len(last)
  /\ pc = "caller" /\ ~gap => Piece(last)
  /\ pc = "overrun" =>
       LET line == SubSeq(NonNul(fetched), Len(delivered) + 1, Len(delivered) + pos)
       IN /\ Len(line) = pos /\ pos >= DstSize /\ \A k \in 1..pos - 1 : line[k] # NL
          /\ ~gap => Piece(line)

\* The callers' loop over a finite stream ends.
ReadsToEof == <>(pc \in {"eof", "overrun"})
=============================================================================
