----------------------------- MODULE Utilities -----------------------------
(***************************************************************************)
(* The programs of tlibc/ that are a loop around system calls: ls, cat,    *)
(* kill, seq, stat, echo and env, and those that make one call.  One of    *)
(* them runs, on the arguments and files of its job; what the kernel       *)
(* answers is part of the job or chosen when the call is made.  A job is   *)
(*   [prog |-> "yes"], or "pause", "crash", "pwd", or one of               *)
(*   [prog |-> "ls", names]        lengths of the names in the directory   *)
(*   [prog |-> "cat", stdin, size] standard input, or a file, of size bytes *)
(*   [prog |-> "kill", args]       arguments: "-h", "-s" or a text, by the  *)
(*                                 number atoi makes of it, as [opt, num]  *)
(*   [prog |-> "seq", args]        arguments, by what atoi makes of them   *)
(*   [prog |-> "stat", files]      "ok", "noopen" or "nostat" for each     *)
(*   [prog |-> "echo", lens], "env"  lengths of the strings to print       *)
(*   [prog |-> "link", args], "sleep"  arguments                           *)
(***************************************************************************)
EXTENDS Integers, Sequences, SequencesExt, FiniteSets

CONSTANTS
  Jobs,          \* what is run
  IntMax,        \* INT_MAX
  CatBuf,        \* sizeof(buf) of cat.c
  PrintfBuf      \* sizeof(buf) of Printf

\* atoi skips what is no digit, and overflows: it may return every int.
Ints == -IntMax - 1..IntMax
KillArgument == [opt : {"-h", "-s", "text"}, num : Ints]

ASSUME UtilitiesAssumption ==
  /\ IntMax \in Nat \ {0} /\ CatBuf \in Nat \ {0} /\ PrintfBuf \in Nat \ {0}
  /\ \A b \in Jobs :
       /\ b.prog = "ls" => b.names \in Seq(Nat)
       /\ b.prog = "cat" => b.stdin \in BOOLEAN /\ b.size \in Nat
       /\ b.prog = "kill" => b.args \in Seq(KillArgument)
       /\ b.prog = "seq" => b.args \in Seq(Ints)
       /\ b.prog = "stat" => b.files \in Seq({"ok", "noopen", "nostat"})
       /\ b.prog \in {"echo", "env"} => b.lens \in Seq(Nat)

VARIABLES
  job, ui,       \* the job, and how far its loop is
  uout,          \* what was written to standard output
  ufile,         \* cat: size of the file now, and what lseek said
  ukill,         \* kill: pid, signo and h
  usent,         \* kill, link: the arguments of the call that was made
  ufds,          \* descriptors open
  ucode, upc

utilVars == <<job, ui, uout, ufile, ukill, usent, ufds, ucode, upc>>

SIGKILL == 9
NoJobRuns == [prog |-> "none"]
UtilRest ==
  /\ ui = 1 /\ uout = <<>> /\ usent = <<>> /\ ufds = 0 /\ ucode = 0
  /\ ukill = [pid |-> -1, signo |-> SIGKILL, h |-> FALSE]
UtilInit ==
  /\ job \in Jobs /\ upc = "start" /\ UtilRest
  /\ ufile = [now |-> IF job.prog = "cat" THEN job.size ELSE 0, seen |-> 0]
UtilIdle == job = NoJobRuns /\ upc = "none" /\ UtilRest /\ ufile = [now |-> 0, seen |-> 0]

Runs(p, c) == job.prog = p /\ upc = c
Exit(code) == upc' = "exit" /\ ucode' = code

----------------------------------------------------------------------------
(* ls                                                                      *)

LsBuf == 32              \* sizeof(buf)
GetdentsCount == 24 + 16 \* sizeof(struct linux_dirent) + 16
\* The name starts at byte 18; a zero byte and the type follow it.
RecLen(n) == 8 * ((18 + n + 2 + 7) \div 8)

LsOpen ==
  /\ Runs("ls", "start")
  /\ \/ upc' = "loop" /\ ufds' = 1 /\ UNCHANGED ucode
     \/ Exit(1) /\ UNCHANGED ufds
  /\ UNCHANGED <<job, ui, uout, ufile, ukill, usent>>

\* One call returns one record: two do not fit in GetdentsCount bytes.
LsEntry ==
  /\ Runs("ls", "loop") /\ ui \in DOMAIN job.names /\ RecLen(job.names[ui]) <= GetdentsCount
  /\ uout' = Append(uout, ui) /\ ui' = ui + 1
  /\ upc' = IF RecLen(job.names[ui]) > LsBuf THEN "overrun" ELSE "loop"
  /\ UNCHANGED <<job, ufile, ukill, usent, ufds, ucode>>

\* What a buffer is overrun into is not known to be used: the program goes on.
GoesOn ==
  /\ upc = "overrun"
  /\ upc' = IF job.prog = "ls" THEN "loop" ELSE "start"
  /\ UNCHANGED <<job, ui, uout, ufile, ukill, usent, ufds, ucode>>

\* getdents fails at a name of more than 20 characters, whose record does not fit,
\* and may fail at any other call.
LsFails ==
  /\ Runs("ls", "loop")
  /\ Exit(1)
  /\ UNCHANGED <<job, ui, uout, ufile, ukill, usent, ufds>>

LsDone ==
  /\ Runs("ls", "loop") /\ ui \notin DOMAIN job.names
  /\ Exit(0)
  /\ UNCHANGED <<job, ui, uout, ufile, ukill, usent, ufds>>

----------------------------------------------------------------------------
(* cat: the byte at offset k of its input is k; 0 stands for what a page    *)
(* holds behind the end of the file.                                       *)

Bytes(from, n) == [k \in 1..n |-> from + k - 1]

\* Standard input: what is read is written, and a short write is not noticed.
CatRead ==
  /\ Runs("cat", "start") /\ job.stdin /\ ui <= job.size
  /\ \E n \in 1..CatBuf : \E w \in 0..n :
       /\ ui + n - 1 <= job.size
       /\ uout' = uout \o Bytes(ui, w) /\ ui' = ui + n
  /\ UNCHANGED <<job, ufile, ukill, usent, ufds, ucode, upc>>

CatEof ==
  /\ Runs("cat", "start") /\ job.stdin
  /\ Exit(0)
  /\ UNCHANGED <<job, ui, uout, ufile, ukill, usent, ufds>>

CatOpen ==
  /\ Runs("cat", "start") /\ ~ job.stdin
  /\ \/ upc' = "size" /\ ufds' = 1 /\ UNCHANGED ucode
     \/ Exit(1) /\ UNCHANGED ufds
  /\ UNCHANGED <<job, ui, uout, ufile, ukill, usent>>

CatSize ==
  /\ Runs("cat", "size")
  /\ ufile' = [ufile EXCEPT !.seen = ufile.now] /\ upc' = "map"
  /\ UNCHANGED <<job, ui, uout, ukill, usent, ufds, ucode>>

\* mmap refuses a length of 0, and may fail anyway; the value returned then is no
\* page address.
CatMap ==
  /\ Runs("cat", "map")
  /\ \/ ufile.seen > 0 /\ upc' = "write" /\ UNCHANGED ucode
     \/ Exit(1)
  /\ UNCHANGED <<job, ui, uout, ufile, ukill, usent, ufds>>

\* One write of all of it, whose result is not looked at.
CatWrite ==
  /\ Runs("cat", "write")
  /\ \E w \in 0..ufile.seen :
       uout' = [k \in 1..w |-> IF k <= ufile.now THEN k ELSE 0]
  /\ ufds' = 0 /\ Exit(0)
  /\ UNCHANGED <<job, ui, ufile, ukill, usent>>

\* Another process cuts the file short or makes it longer.
FileChanges ==
  /\ job.prog = "cat" /\ ~ job.stdin /\ upc \in {"size", "map", "write"}
  /\ ufile.now = job.size /\ \E n \in {0, job.size + 1} : ufile' = [ufile EXCEPT !.now = n]
  /\ UNCHANGED <<job, ui, uout, ukill, usent, ufds, ucode, upc>>

----------------------------------------------------------------------------
(* kill                                                                    *)

KillUsage ==
  /\ Runs("kill", "start") /\ job.args = <<>>
  /\ Exit(1)
  /\ UNCHANGED <<job, ui, uout, ufile, ukill, usent, ufds>>

KillHelpArgAgain ==    \* mutant: continue skips the increment
  /\ Runs("kill", "start") /\ ui \in DOMAIN job.args /\ job.args[ui].opt = "-h"
  /\ ukill' = [ukill EXCEPT !.h = TRUE]
  /\ UNCHANGED <<job, ui, uout, ufile, usent, ufds, ucode, upc>>

KillHelpArg ==
  /\ Runs("kill", "start") /\ ui \in DOMAIN job.args /\ job.args[ui].opt = "-h"
  /\ ukill' = [ukill EXCEPT !.h = TRUE] /\ ui' = ui + 1
  /\ UNCHANGED <<job, uout, ufile, usent, ufds, ucode, upc>>

KillSignalKeeps ==    \* mutant: i++ is missing, the signal number is a pid, too
  /\ Runs("kill", "start") /\ ui \in DOMAIN job.args /\ job.args[ui].opt = "-s"
  /\ ui + 1 \in DOMAIN job.args
  /\ ukill' = [ukill EXCEPT !.signo = job.args[ui + 1].num] /\ ui' = ui + 1
  /\ UNCHANGED <<job, uout, ufile, usent, ufds, ucode, upc>>

\* Whatever follows -s is the signal number.
KillSignal ==
  /\ Runs("kill", "start") /\ ui \in DOMAIN job.args /\ job.args[ui].opt = "-s"
  /\ ui + 1 \in DOMAIN job.args
  /\ ukill' = [ukill EXCEPT !.signo = job.args[ui + 1].num] /\ ui' = ui + 2
  /\ UNCHANGED <<job, uout, ufile, usent, ufds, ucode, upc>>

\* atoi(NULL)
KillNull ==
  /\ Runs("kill", "start") /\ ui = Len(job.args) /\ ui > 0 /\ job.args[ui].opt = "-s"
  /\ upc' = "crashed"
  /\ UNCHANGED <<job, ui, uout, ufile, ukill, usent, ufds, ucode>>

KillPid ==
  /\ Runs("kill", "start") /\ ui \in DOMAIN job.args /\ job.args[ui].opt = "text"
  /\ ukill' = [ukill EXCEPT !.pid = job.args[ui].num] /\ ui' = ui + 1
  /\ UNCHANGED <<job, uout, ufile, usent, ufds, ucode, upc>>

\* The exit code is what sys_kill returned, unless help was asked for.
KillSends ==
  /\ Runs("kill", "start") /\ job.args # <<>> /\ ui > Len(job.args)
  /\ IF ukill.h THEN Exit(0) /\ UNCHANGED usent
     ELSE usent' = <<ukill.pid, ukill.signo>> /\ \E r \in {0, 1} : Exit(r)
  /\ UNCHANGED <<job, ui, uout, ufile, ukill, ufds>>

----------------------------------------------------------------------------
(* seq                                                                     *)

SeqUsage ==
  /\ Runs("seq", "start") /\ Len(job.args) \notin {1, 2}
  /\ Exit(1)
  /\ UNCHANGED <<job, ui, uout, ufile, ukill, usent, ufds>>

SeqFirst == IF Len(job.args) = 1 THEN 1 ELSE job.args[1]
SeqLast == Last(job.args)

SeqStart ==
  /\ Runs("seq", "start") /\ Len(job.args) \in {1, 2}
  /\ ui' = SeqFirst /\ upc' = "loop"
  /\ UNCHANGED <<job, uout, ufile, ukill, usent, ufds, ucode>>

\* i++ on INT_MAX wraps; the output is kept to one lap.
SeqPrint ==
  /\ Runs("seq", "loop") /\ ui <= SeqLast
  /\ uout' = IF Len(uout) <= 2 * IntMax + 1 THEN Append(uout, ui) ELSE uout
  /\ ui' = IF ui = IntMax THEN -IntMax - 1 ELSE ui + 1
  /\ UNCHANGED <<job, ufile, ukill, usent, ufds, ucode, upc>>

SeqEnd ==
  /\ Runs("seq", "loop") /\ ui > SeqLast
  /\ Exit(0)
  /\ UNCHANGED <<job, ui, uout, ufile, ukill, usent, ufds>>

----------------------------------------------------------------------------
(* stat                                                                    *)

StatUsage ==
  /\ Runs("stat", "start") /\ job.files = <<>>
  /\ Exit(1)
  /\ UNCHANGED <<job, ui, uout, ufile, ukill, usent, ufds>>

\* A descriptor whose fstat failed is not closed.
StatFile ==
  /\ Runs("stat", "start") /\ ui \in DOMAIN job.files
  /\ LET f == job.files[ui] IN
       /\ uout' = IF f = "ok" THEN Append(uout, ui) ELSE uout
       /\ ucode' = IF f = "ok" THEN ucode ELSE 1
       /\ ufds' = IF f = "nostat" THEN ufds + 1 ELSE ufds
  /\ ui' = ui + 1
  /\ UNCHANGED <<job, ufile, ukill, usent, upc>>

StatDone ==
  /\ Runs("stat", "start") /\ job.files # <<>> /\ ui > Len(job.files)
  /\ Exit(ucode)
  /\ UNCHANGED <<job, ui, uout, ufile, ukill, usent, ufds>>

----------------------------------------------------------------------------
(* echo and env: one Printf for each string, which goes with a separator    *)
(* and a zero byte into a static buffer.                                   *)

PrintString ==
  /\ job.prog \in {"echo", "env"} /\ upc = "start" /\ ui \in DOMAIN job.lens
  /\ uout' = Append(uout, ui) /\ ui' = ui + 1
  /\ upc' = IF job.lens[ui] + 2 > PrintfBuf THEN "overrun" ELSE "start"
  /\ UNCHANGED <<job, ufile, ukill, usent, ufds, ucode>>

PrintDone ==
  /\ job.prog \in {"echo", "env"} /\ upc = "start" /\ ui \notin DOMAIN job.lens
  /\ Exit(0)
  /\ UNCHANGED <<job, ui, uout, ufile, ukill, usent, ufds>>

----------------------------------------------------------------------------
(* Programs that make one call.                                            *)

Link ==
  /\ Runs("link", "start")
  /\ \/ Len(job.args) < 2 /\ Exit(1) /\ UNCHANGED usent
     \/ Len(job.args) >= 2 /\ Exit(1) /\ UNCHANGED usent
     \/ Len(job.args) >= 2 /\ Exit(0) /\ usent' = SubSeq(job.args, 1, 2)
  /\ UNCHANGED <<job, ui, uout, ufile, ukill, ufds>>

\* nanosleep may refuse the time or be interrupted; its result is not looked at.
Sleep ==
  /\ Runs("sleep", "start")
  /\ Exit(IF job.args = <<>> THEN 1 ELSE 0)
  /\ UNCHANGED <<job, ui, uout, ufile, ukill, usent, ufds>>

\* A getcwd that fails leaves the empty string in the buffer.
Pwd ==
  /\ Runs("pwd", "start")
  /\ uout' \in {<<>>, <<1>>} /\ Exit(0)
  /\ UNCHANGED <<job, ui, ufile, ukill, usent, ufds>>

Crash ==
  /\ Runs("crash", "start")
  /\ upc' = "crashed"
  /\ UNCHANGED <<job, ui, uout, ufile, ukill, usent, ufds, ucode>>

\* yes writes the same line for ever, and looks at no result.
Yes == Runs("yes", "start") /\ UNCHANGED utilVars

\* pause returns when a signal was handled, if ever.
Pause ==
  /\ Runs("pause", "start")
  /\ Exit(0)
  /\ UNCHANGED <<job, ui, uout, ufile, ukill, usent, ufds>>

----------------------------------------------------------------------------
UtilStep ==
  \/ LsOpen \/ LsEntry \/ GoesOn \/ LsFails \/ LsDone
  \/ CatRead \/ CatEof \/ CatOpen \/ CatSize \/ CatMap \/ CatWrite
  \/ KillUsage \/ KillHelpArg \/ KillSignal \/ KillNull \/ KillPid \/ KillSends
  \/ SeqUsage \/ SeqStart \/ SeqPrint \/ SeqEnd \/ StatUsage \/ StatFile \/ StatDone
  \/ PrintString \/ PrintDone \/ Link \/ Sleep \/ Pwd \/ Crash \/ Yes
UtilNext == UtilStep \/ FileChanges \/ Pause
UtilEnded == upc \in {"none", "exit", "crashed"}

----------------------------------------------------------------------------
(* Properties.                                                             *)

\* ls prints the entries in order and once, and exits with 0 only when it printed all
\* of them.  Nothing is said of its buffer: a name of 13 to 20 characters is written
\* past its end, although ls.c:3 assumes that names of 14 are all right.
LsLists ==
  job.prog = "ls" =>
    /\ uout = [k \in 1..Len(uout) |-> k]
    /\ upc = "exit" /\ ucode = 0 => Len(uout) = Len(job.names)

\* When cat exits with 0, a file that did not change is printed from its beginning,
\* and to its end unless the one write was short; an empty file makes it exit with 1.
\* If the file is cut after its size was taken, zeros may be printed but nothing of
\* another file.  Standard input is printed as far as it was read while no write is
\* short; after a short one, no byte is printed twice or out of order.
CatCopies ==
  job.prog = "cat" =>
    /\ \A j, k \in DOMAIN uout : j < k /\ uout[k] # 0 => uout[j] # 0 /\ uout[j] < uout[k]
    /\ ~ job.stdin /\ upc = "exit" /\ ucode = 0 /\ ufile.now = job.size =>
         /\ uout = Bytes(1, Len(uout)) /\ job.size > 0
         /\ Len(uout) = ufile.seen => uout = Bytes(1, job.size)
    /\ job.stdin /\ Len(uout) = ui - 1 => uout = Bytes(1, ui - 1)

\* Argument k is the value of an option: an odd number of "-s" stands right in front.
Consumed(k) ==
  \E m \in 1..k - 1 :
    /\ (k - m) % 2 = 1 /\ \A j \in m..k - 1 : job.args[j].opt = "-s"
    /\ m > 1 => job.args[m - 1].opt # "-s"

\* v is the number of the last argument among K, or none if there is no such argument.
IsLast(v, K, none) ==
  \/ K = {} /\ v = none
  \/ \E k \in K : v = job.args[k].num /\ \A j \in K : j <= k

\* However options and pids are mixed, kill sends to the last argument that is neither
\* an option nor the value of one, the last value behind -s, and sends nothing if help
\* was asked for.  Without a pid it sends to -1, which is every process; without a
\* signal it sends SIGKILL.
KillTarget ==
  job.prog = "kill" /\ usent # <<>> =>
    /\ IsLast(usent[1], {k \in DOMAIN job.args : job.args[k].opt = "text" /\ ~ Consumed(k)}, -1)
    /\ IsLast(usent[2], {k \in DOMAIN job.args : Consumed(k)}, SIGKILL)
    /\ \A k \in DOMAIN job.args : job.args[k].opt = "-h" => Consumed(k)

\* seq prints the numbers from first to last when it ends.
SeqCounts ==
  job.prog = "seq" /\ upc = "exit" /\ ucode = 0 =>
    uout = [k \in 1..Len(uout) |-> SeqFirst + k - 1]
    /\ (IF SeqFirst > SeqLast THEN uout = <<>> ELSE Len(uout) = SeqLast - SeqFirst + 1)

\* stat goes on after a failure and reports it in the end: every file that can be
\* opened and looked at is printed, once and in order; each failed fstat leaves a
\* descriptor open.
StatReports ==
  job.prog = "stat" /\ upc = "exit" /\ job.files # <<>> =>
    /\ ucode = 0 <=> \A k \in DOMAIN job.files : job.files[k] = "ok"
    /\ \A j, k \in DOMAIN uout : j < k => uout[j] < uout[k]
    /\ {uout[j] : j \in DOMAIN uout} = {k \in DOMAIN job.files : job.files[k] = "ok"}
    /\ ufds = Cardinality({k \in DOMAIN job.files : job.files[k] = "nostat"})

\* echo and env print every string, in order and once.  Nothing is said of the buffer of
\* Printf, which a string that leaves less than two bytes of it is written past.
StringsPrinted ==
  job.prog \in {"echo", "env"} =>
    /\ uout = [k \in 1..Len(uout) |-> k]
    /\ upc = "exit" => Len(uout) = Len(job.lens)

\* Each of the programs does what its part says; link, sleep, pwd, yes, pause and crash
\* have none.
UtilitiesAsTold ==
  LsLists /\ CatCopies /\ KillTarget /\ SeqCounts /\ StatReports /\ StringsPrinted
=============================================================================
