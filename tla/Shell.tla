------------------------------- MODULE Shell -------------------------------
(***************************************************************************)
(* The shell of tlibc/sh.c: read a line, cut it into commands (system),    *)
(* cut a command into jobs, arguments and redirections (system_single),    *)
(* run a built-in or hand the jobs to exec_job.                            *)
(*                                                                         *)
(* A line is a sequence of lexemes: blank-free tokens, ";" for any         *)
(* character that ends a command (newline, ';', '&'), and " " for blanks,  *)
(* which matter only where nothing else is left.  Running the jobs is the  *)
(* business of Pipeline; reading lines that of LineReader.                 *)
(***************************************************************************)
EXTENDS Integers, Sequences, FiniteSets

CONSTANTS
  Lines,      \* bound: for each call of fdgets, the lines it can deliver
  MaxJobs,    \* size of the array jobs (4 in the code)
  MaxArgv     \* size of job_t.argv (64 in the code)

Null == "NULL"    \* a null pointer

\* fdgets returns no empty line, and no token is a null pointer.
ASSUME ShellAssumption == /\ Lines \in Seq(SUBSET Seq(STRING))
                          /\ \A n \in 1..Len(Lines) : \A l \in Lines[n] :
                               l # <<>> /\ \A i \in 1..Len(l) : l[i] # Null
                          /\ MaxJobs \in Nat \ {0} /\ MaxArgv \in Nat \ {0}

Redirect == [c \in {"<", ">", "2>"} |-> CASE c = "<" -> 0 [] c = ">" -> 1 [] OTHER -> 2]
NoJob == [fo |-> [d \in 0..2 |-> Null], argv |-> <<>>]

VARIABLES
  pc,
  line, it,     \* system: the line, and its next lexeme
  jobs,         \* the static array jobs, from job 1 on
  jobcnt,       \* number of jobs of this command; cur is jobs[jobcnt]
  pre,          \* prein, preout, preerr: descriptors the next token redirects
  ran,          \* history: the commands of this line that were carried out
  reads         \* history: lines read

vars == <<pc, line, it, jobs, jobcnt, pre, ran, reads>>
session == <<line, ran, reads>>

NoJobs == [j \in 1..MaxJobs |-> NoJob]

ExeOfLast ==    \* mutant: cur->exe instead of jobs[0].exe
  IF jobcnt > MaxJobs \/ jobs[jobcnt].argv = <<>> THEN Null ELSE jobs[jobcnt].argv[1]
\* The C string jobs[0].exe, which is set with argv[0].
Exe == IF jobs[1].argv = <<>> THEN Null ELSE jobs[1].argv[1]

\* A command is its first jobcnt jobs; nothing was written behind the array.
Current == [j \in 1..jobcnt |-> IF j <= MaxJobs THEN jobs[j] ELSE NoJob]

EndOfCommand == it <= Len(line) => line[it] = ";"

Init ==
  /\ pc = "prompt" /\ line = <<>> /\ it = 1
  /\ jobs = NoJobs /\ jobcnt = 0 /\ pre = {} /\ ran = <<>> /\ reads = 0

----------------------------------------------------------------------------
(* main and system                                                         *)

ReadLine ==
  /\ pc = "prompt" /\ reads < Len(Lines)
  /\ line' \in Lines[reads + 1] /\ it' = 1 /\ ran' = <<>> /\ reads' = reads + 1
  /\ pc' = "system"
  /\ UNCHANGED <<jobs, jobcnt, pre>>

\* fdgets finds the end of the input.
EndOfInput ==
  /\ pc = "prompt"
  /\ pc' = "ended"
  /\ UNCHANGED <<session, it, jobs, jobcnt, pre>>

StartUncleared ==    \* mutant: no Memset of jobs
  /\ pc = "system" /\ it <= Len(line)
  /\ jobcnt' = 1 /\ pre' = {} /\ pc' = "tokens"
  /\ UNCHANGED <<session, it, jobs>>

\* system_single begins; system never calls it at the end of the string.
Start ==
  /\ pc = "system" /\ it <= Len(line)
  /\ jobs' = NoJobs /\ jobcnt' = 1 /\ pre' = {} /\ pc' = "tokens"
  /\ UNCHANGED <<session, it>>

EndOfLine ==
  /\ pc = "system" /\ it > Len(line)
  /\ pc' = "prompt"
  /\ UNCHANGED <<session, it, jobs, jobcnt, pre>>

----------------------------------------------------------------------------
(* system_single: the loop over tokens                                     *)

SkipBlanksStuck ==    \* mutant: i = next is missing after the search
  /\ pc = "tokens" /\ ~ EndOfCommand /\ line[it] = " "
  /\ UNCHANGED vars

SkipBlanks ==
  /\ pc = "tokens" /\ ~ EndOfCommand /\ line[it] = " "
  /\ it' = it + 1
  /\ UNCHANGED <<session, pc, jobs, jobcnt, pre>>

IsToken == pc = "tokens" /\ ~ EndOfCommand /\ line[it] # " "

\* The token names a file when a redirection is pending, even if it is "|" or
\* another redirection; it is an argument if it is nothing else.
IsArgument(t) == pre = {} /\ t # "|" /\ t \notin DOMAIN Redirect

Pending(t) == IF t \in DOMAIN Redirect THEN {Redirect[t]} ELSE {}

\* Where the token goes: a "|" turns to the next job first.
Target(t) == IF t = "|" THEN jobcnt + 1 ELSE jobcnt

Stored(job, t) ==
  [fo   |-> [d \in 0..2 |-> IF d \in pre THEN t ELSE job.fo[d]],
   argv |-> IF IsArgument(t) THEN Append(job.argv, t) ELSE job.argv]

\* Nothing is written for a bare operator.
Writes(t) == pre # {} \/ IsArgument(t)

InBounds(t) == Writes(t) => /\ Target(t) <= MaxJobs
                            /\ IsArgument(t) => Len(jobs[Target(t)].argv) < MaxArgv

TakeToken ==
  /\ IsToken /\ InBounds(line[it])
  /\ LET t == line[it] IN
       /\ jobs' = IF Writes(t) THEN [jobs EXCEPT ![Target(t)] = Stored(@, t)] ELSE jobs
       /\ jobcnt' = Target(t)
       /\ pre' = Pending(t)
  /\ it' = it + 1
  /\ UNCHANGED <<session, pc>>

\* The store lands behind jobs or behind argv: anything may follow.
Overrun ==
  /\ IsToken /\ ~ InBounds(line[it])
  /\ pc' = "overrun"
  /\ UNCHANGED <<session, it, jobs, jobcnt, pre>>

----------------------------------------------------------------------------
(* system_single: built-ins and exec_job                                   *)

TokensDone == pc = "tokens" /\ EndOfCommand

\* Strcmp("cd", jobs[0].exe) reads through a null pointer.
NullProgram ==
  /\ TokensDone /\ Exe = Null
  /\ pc' = "crashed"
  /\ UNCHANGED <<session, it, jobs, jobcnt, pre>>

\* it = cmd[next] ? next + 1 : next
NextCommand == it' = IF it > Len(line) THEN it ELSE it + 1

Carried(kind) == ran' = Append(ran, [kind |-> kind, jobs |-> Current])

\* cd and pid return at once; chdir failing only prints a message.
BuiltIn ==
  /\ TokensDone /\ Exe \in {"cd", "pid"}
  /\ Carried(Exe) /\ NextCommand /\ pc' = "system"
  /\ UNCHANGED <<line, reads, jobs, jobcnt, pre>>

Exit ==
  /\ TokensDone /\ Exe \in {"exit", "q"}
  /\ Carried("exit") /\ pc' = "ended"
  /\ UNCHANGED <<line, reads, it, jobs, jobcnt, pre>>

External == Exe \notin {Null, "cd", "pid", "exit", "q"}

\* exec_job returns when the pipeline has ended (Pipeline: PipelineEnds).
ExecJob ==
  /\ TokensDone /\ External
  /\ jobcnt <= MaxJobs /\ \A j \in 1..jobcnt : Len(Current[j].argv) < MaxArgv
  /\ Carried("exec") /\ NextCommand /\ pc' = "system"
  /\ UNCHANGED <<line, reads, jobs, jobcnt, pre>>

\* exec_single looks behind jobs, or execve behind an argv with no NULL at its end.
ExecOverrun ==
  /\ TokensDone /\ External
  /\ jobcnt > MaxJobs \/ \E j \in 1..jobcnt : Len(Current[j].argv) = MaxArgv
  /\ pc' = "overrun"
  /\ UNCHANGED <<session, it, jobs, jobcnt, pre>>

Stopped == pc \in {"ended", "crashed", "overrun"} /\ UNCHANGED vars

Work == \/ Start \/ EndOfLine \/ SkipBlanks \/ TakeToken \/ Overrun \/ NullProgram
        \/ BuiltIn \/ Exit \/ ExecJob \/ ExecOverrun
Next == ReadLine \/ EndOfInput \/ Work \/ Stopped

\* main waits for nothing but the next line and the pipelines it runs.
Spec == Init /\ [][Next]_vars /\ WF_vars(Work)

----------------------------------------------------------------------------
(* What a line means, without the parser's loops and flags.                *)

Ends(l) == {i \in 1..Len(l) : l[i] = ";"}
CommandOf(l, i) == 1 + Cardinality({e \in Ends(l) : e < i})
NumCommands(l) == CommandOf(l, Len(l))

\* The numbers from 1 to n that are in S, in order.
Listed(S, n) ==
  LET L[m \in 0..n] == IF m = 0 THEN <<>>
                       ELSE IF m \in S THEN Append(L[m - 1], m) ELSE L[m - 1]
  IN L[n]
\* What stands in s at the places of a list.
Picked(s, at) == [n \in 1..Len(at) |-> s[at[n]]]

\* The tokens of the k-th command of a line.
TokenPlaces(l, k) == {i \in 1..Len(l) : CommandOf(l, i) = k /\ l[i] \notin {";", " "}}
Tokens(l, k) == Picked(l, Listed(TokenPlaces(l, k), Len(l)))

\* Token n names the file of descriptor d.
Names(ts, n, d) ==
  n > 1 /\ ts[n - 1] \in DOMAIN Redirect /\ Redirect[ts[n - 1]] = d
JobOf(ts, n) == 1 + Cardinality({m \in 1..n : ts[m] = "|"})
IsWord(ts, n) == /\ ts[n] \notin {"|"} \cup DOMAIN Redirect
                 /\ \A d \in 0..2 : ~ Names(ts, n, d)

FileOf(ts, j, d) ==
  LET named == {n \in 1..Len(ts) : JobOf(ts, n) = j /\ Names(ts, n, d)}
  IN IF named = {} THEN Null ELSE ts[CHOOSE n \in named : \A m \in named : m <= n]

WordPlaces(ts, j) == {n \in 1..Len(ts) : JobOf(ts, n) = j /\ IsWord(ts, n)}
Words(ts, j) == Picked(ts, Listed(WordPlaces(ts, j), Len(ts)))

AsWritten(ts) == [j \in 1..JobOf(ts, Len(ts)) |->
                    [fo |-> [d \in 0..2 |-> FileOf(ts, j, d)], argv |-> Words(ts, j)]]

----------------------------------------------------------------------------
(* Properties.                                                             *)

\* system and system_single carry out the commands of a line in their order, each
\* with the jobs, arguments and redirections that stand in the line and none left
\* over from an earlier command, and are back at the prompt only after the last.
CommandsAsWritten ==
  /\ \A k \in 1..Len(ran) : ran[k].jobs = AsWritten(Tokens(line, k))
  /\ pc = "prompt" /\ reads > 0 => Len(ran) = NumCommands(line)

\* The shell dies on a null pointer only at a command whose first job has no
\* program, and leaves its arrays only at one with too many jobs or arguments.
FailsOnlyOutOfBounds ==
  LET cmd == AsWritten(Tokens(line, Len(ran) + 1)) IN
  /\ pc = "crashed" => cmd[1].argv = <<>>
  /\ pc = "overrun" => \/ Len(cmd) > MaxJobs
                       \/ \E j \in DOMAIN cmd : Len(cmd[j].argv) >= MaxArgv

\* Every line is worked off, or ends the shell.
LineEnds ==
  pc = "system" ~> pc \in {"prompt", "ended", "crashed", "overrun"}
=============================================================================
