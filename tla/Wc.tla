--------------------------------- MODULE Wc ---------------------------------
(***************************************************************************)
(* tlibc/wc.c: bytes, words and lines of a file, pipe or terminal.  Reads  *)
(* cut the stream anywhere; a word or a line may lie across a cut.         *)
(*                                                                         *)
(* A byte is "word" (a character marked in chtype), "other" (any character *)
(* that is not, such as a blank, ';' or '='), "nl", or "high": 0x80 and up *)
(* is a negative char, an index in front of chtype, where any value may be.*)
(***************************************************************************)
EXTENDS Integers, Sequences, FiniteSets

CONSTANTS
  WcStreams,   \* what the descriptor may deliver
  WcPool,      \* BUFSZ
  WcWord       \* 2^32: the counters are uint32_t

ASSUME WcAssumption ==
  WcPool \in Nat \ {0} /\ WcWord \in Nat \ {0}
  /\ WcStreams \subseteq Seq({"word", "other", "nl", "high"})

VARIABLES
  wleft,                 \* bytes not read yet
  wpool,                 \* bytes of the last read not looked at yet
  wread,                 \* history: all bytes read
  nbyte, nword, nline,
  white, wend,           \* is the last byte no word character; was a line ended
  wpc

wcVars == <<wleft, wpool, wread, nbyte, nword, nline, white, wend, wpc>>

WcInit ==
  /\ wleft \in WcStreams /\ wpool = <<>> /\ wread = <<>>
  /\ nbyte = 0 /\ nword = 0 /\ nline = 0 /\ white = TRUE /\ wend = FALSE /\ wpc = "open"

WcIdle ==
  /\ wleft = <<>> /\ wpool = <<>> /\ wread = <<>>
  /\ nbyte = 0 /\ nword = 0 /\ nline = 0 /\ white = TRUE /\ wend = FALSE /\ wpc = "none"

\* Standard input, or the file of the first argument.
WcOpen ==
  /\ wpc = "open"
  /\ wpc' \in {"first", "exit1"}
  /\ UNCHANGED <<wleft, wpool, wread, nbyte, nword, nline, white, wend>>

WcReadForgets(n) ==    \* mutant: every read starts between words
  /\ wpc \in {"first", "next"} /\ n <= Len(wleft)
  /\ wpool' = SubSeq(wleft, 1, n) /\ wleft' = SubSeq(wleft, n + 1, Len(wleft))
  /\ wread' = wread \o wpool' /\ nbyte' = (nbyte + n) % WcWord /\ wpc' = "count" /\ white' = TRUE
  /\ UNCHANGED <<nword, nline, wend>>

\* nbyte grows after the bytes were looked at, and nothing reads it in between.
WcRead(n) ==
  /\ wpc \in {"first", "next"} /\ n <= Len(wleft)
  /\ wpool' = SubSeq(wleft, 1, n) /\ wleft' = SubSeq(wleft, n + 1, Len(wleft))
  /\ wread' = wread \o wpool' /\ nbyte' = (nbyte + n) % WcWord /\ wpc' = "count"
  /\ UNCHANGED <<nword, nline, white, wend>>

\* Only the first read is checked for an error; a later one that fails looks like the
\* end of the stream.
WcReadFails ==
  /\ wpc \in {"first", "next"}
  /\ wpc' = IF wpc = "first" THEN "exit1" ELSE "report"
  /\ UNCHANGED <<wleft, wpool, wread, nbyte, nword, nline, white, wend>>

WcReadEof ==
  /\ wpc \in {"first", "next"} /\ wleft = <<>>
  /\ wend' = (wend \/ wpc = "first") /\ wpc' = "report"
  /\ UNCHANGED <<wleft, wpool, wread, nbyte, nword, nline, white>>

\* One round of the loop over the bytes of a read.
WcByte ==
  /\ wpc = "count" /\ wpool # <<>>
  /\ LET c == Head(wpool) IN
       /\ nline' = IF c = "nl" THEN (nline + 1) % WcWord ELSE nline
       /\ wend' = (wend \/ c = "nl")
       /\ \E mark \in BOOLEAN :
            /\ c # "high" => mark = (c = "word")
            /\ nword' = IF white /\ mark THEN (nword + 1) % WcWord ELSE nword
            /\ white' = ~ mark
  /\ wpool' = Tail(wpool)
  /\ UNCHANGED <<wleft, wread, nbyte, wpc>>

WcPoolDone ==
  /\ wpc = "count" /\ wpool = <<>>
  /\ wpc' = "next"
  /\ UNCHANGED <<wleft, wpool, wread, nbyte, nword, nline, white, wend>>

WcReport ==
  /\ wpc = "report"
  /\ nline' = IF wend THEN nline ELSE (nline + 1) % WcWord
  /\ wpc' = "exit0"
  /\ UNCHANGED <<wleft, wpool, wread, nbyte, nword, white, wend>>

WcNext == \/ WcOpen \/ (\E n \in 1..WcPool : WcRead(n)) \/ WcReadFails \/ WcReadEof
          \/ WcByte \/ WcPoolDone \/ WcReport
WcEnded == wpc \in {"none", "exit0", "exit1"}

----------------------------------------------------------------------------
(* Properties.                                                             *)

IsWord(k) == k \in DOMAIN wread /\ wread[k] = "word"
WordStarts == Cardinality({k \in DOMAIN wread : IsWord(k) /\ ~ IsWord(k - 1)})

\* What wc reports depends on the bytes it read and not on where reads cut them: all
\* bytes, every maximal run of word characters once, and every newline.  A last line
\* without a newline counts if it is the only one, and not otherwise.  The counters
\* are 32 bits wide, so that each count is right up to multiples of 2^32.
WcCounts ==
  wpc = "exit0" =>
    /\ nbyte = Len(wread) % WcWord
    /\ (\A k \in DOMAIN wread : wread[k] # "high")
         => nword = WordStarts % WcWord
    /\ LET ends == Cardinality({k \in DOMAIN wread : wread[k] = "nl"})
       IN nline = (IF ends = 0 /\ wread # <<>> THEN 1 ELSE ends) % WcWord
=============================================================================
