------------------------------ MODULE Pipeline ------------------------------
(***************************************************************************)
(* exec_job of tlibc/system.c: the shell runs "job[0] | ... | job[Cnt-1]". *)
(* It forks one child, which becomes the LAST stage after making a pipe    *)
(* and forking the process for the stages before it, and so on down to     *)
(* stage 0.  Every process sets up its own descriptors, then executes its  *)
(* program; the shell waits for its only child, the last stage.            *)
(*                                                                         *)
(* The kernel (pipes, descriptor tables, SIGPIPE) and the executed         *)
(* programs are external: a program copies its standard input to its       *)
(* standard output, ends at end of file, and may quit at any time.         *)
(***************************************************************************)
EXTENDS Integers, FiniteSets

CONSTANTS
  Cnt,        \* number of jobs in the pipeline
  Cap,        \* capacity of a pipe, in items
  Items,      \* items in each file or terminal a program reads from
  Redirections, \* command lines: sets of <<stage, descriptor>> redirected
  Faults,     \* which calls may fail: subset of {"fork", "pipe", "open", "exec"}
  Depth       \* bound on runaway processes: fork fails after so many

ASSUME PipelineAssumption ==
  /\ Cnt \in Nat \ {0} /\ Cap \in Nat \ {0} /\ Items \in Nat
  /\ Redirections \subseteq SUBSET ((0..Cnt - 1) \X (0..2))
  /\ Depth \in Nat

VARIABLES
  shell,     \* where exec_job is
  pc,        \* where the process of each stage is
  fds,       \* descriptor table of each stage's process
  pip,       \* the local array pip of each stage's process
  pipe,      \* items in the pipe between stages k - 1 and k
  hand,      \* items a program has read and not yet written
  left,      \* items left in the file or terminal a program reads
  out,       \* items the last stage has written
  redir,     \* the redirections of this command line: stdin_fo, stdout_fo, ...
  clean      \* history: no call failed and no program quit early

vars == <<shell, pc, fds, pip, pipe, hand, left, out, redir, clean>>
io == <<pipe, hand, left, out>>

\* Stages below 0 are processes that should not exist: see ExecFails.
Jobs == 0..Cnt - 1
Stages == -Depth..Cnt - 1
Closed == [kind |-> "closed", pipe |-> 0]
R(k) == [kind |-> "r", pipe |-> k]
W(k) == [kind |-> "w", pipe |-> k]
Std == [kind |-> "std", pipe |-> 0]
File == [kind |-> "file", pipe |-> 0]

Fds == 0..8          \* as many as a process ever has open: see ExecFails
NoPip == <<0, 0>>    \* exec_recur_noret has not called pipe
FdTable == [d \in Fds |-> IF d <= 2 THEN Std ELSE Closed]
AllClosed == [d \in Fds |-> Closed]

Dup2(t, old, new) == [t EXCEPT ![new] = t[old]]
Close(t, d) == [t EXCEPT ![d] = Closed]
LowestFree(t) == CHOOSE d \in Fds : t[d] = Closed /\ \A e \in 0..d - 1 : t[e] # Closed
Open(t, what) == [t EXCEPT ![LowestFree(t)] = what]

HasReader(k) == \E p \in Stages, d \in Fds : fds[p][d] = R(k)
HasWriter(k) == \E p \in Stages, d \in Fds : fds[p][d] = W(k)

----------------------------------------------------------------------------
Init ==
  /\ shell = "call" /\ redir \in Redirections
  /\ pc = [k \in Stages |-> "none"] /\ fds = [k \in Stages |-> AllClosed]
  /\ pip = [k \in Stages |-> NoPip]
  /\ pipe = [k \in Stages |-> 0]
  /\ hand = [k \in Stages |-> 0] /\ left = [k \in Stages |-> Items]
  /\ out = 0 /\ clean = TRUE

\* exec_job
ShellForks ==
  /\ shell = "call"
  /\ shell' = "wait"
  /\ pc' = [pc EXCEPT ![Cnt - 1] = "recur"]
  /\ fds' = [fds EXCEPT ![Cnt - 1] = FdTable]
  /\ UNCHANGED <<pip, io, clean, redir>>

ShellForkFails ==
  /\ shell = "call" /\ "fork" \in Faults
  /\ shell' = "returned" /\ clean' = FALSE
  /\ UNCHANGED <<pc, fds, pip, io, redir>>

ShellPolls ==    \* mutant: WNOHANG
  /\ shell = "wait"
  /\ shell' = "returned"
  /\ UNCHANGED <<pc, fds, pip, io, clean, redir>>

ShellWaitsPerJob ==    \* mutant: one process is waited for per job
  /\ shell = "wait" /\ \A k \in Jobs : pc[k] = "dead"
  /\ shell' = "returned"
  /\ UNCHANGED <<pc, fds, pip, io, clean, redir>>

\* sys_waitid(P_ALL): the shell's only child is the last stage.
ShellWaits ==
  /\ shell = "wait" /\ pc[Cnt - 1] = "dead"
  /\ shell' = "returned"
  /\ UNCHANGED <<pc, fds, pip, io, clean, redir>>

----------------------------------------------------------------------------
(* exec_recur_noret(job, k, total, 1) in the process of stage k.           *)

Goto(k, from, to) == pc[k] = from /\ pc' = [pc EXCEPT ![k] = to]
SetFds(k, t) == fds' = [fds EXCEPT ![k] = t]

\* The process ends and the kernel closes its descriptors.
Die(k) == pc' = [pc EXCEPT ![k] = "dead"] /\ SetFds(k, AllClosed)

\* if (cur == 0) exec_single(job);
Recur(k) ==
  /\ Goto(k, "recur", IF k = 0 THEN "redir0" ELSE "pipe")
  /\ UNCHANGED <<shell, fds, pip, io, clean, redir>>

MakePipe(k) ==
  LET r == LowestFree(fds[k])
      w == LowestFree(Open(fds[k], R(k)))
  IN /\ Goto(k, "pipe", "fork")
     /\ SetFds(k, [fds[k] EXCEPT ![r] = R(k), ![w] = W(k)])
     /\ pip' = [pip EXCEPT ![k] = <<r, w>>]
     /\ UNCHANGED <<shell, io, clean, redir>>

PipeFails(k) ==
  /\ pc[k] = "pipe" /\ "pipe" \in Faults
  /\ Die(k) /\ clean' = FALSE
  /\ UNCHANGED <<shell, pip, io, redir>>

Fork(k) ==
  /\ pc[k] = "fork" /\ k > -Depth
  /\ pc' = [pc EXCEPT ![k] = "parent1", ![k - 1] = "child1"]
  /\ SetFds(k - 1, fds[k]) /\ pip' = [pip EXCEPT ![k - 1] = pip[k]]
  /\ UNCHANGED <<shell, io, clean, redir>>

ForkFails(k) ==
  /\ pc[k] = "fork" /\ ("fork" \in Faults \/ k = -Depth)
  /\ Die(k) /\ clean' = FALSE
  /\ UNCHANGED <<shell, pip, io, redir>>

ClosePipe(k) == Close(Close(fds[k], pip[k][1]), pip[k][2])

\* The child: pip[1] becomes its standard output; it goes on as stage k, in a
\* new frame.
ChildDup(k) ==
  /\ Goto(k, "child1", "child2") /\ SetFds(k, Dup2(fds[k], pip[k][2], 1))
  /\ UNCHANGED <<shell, pip, io, clean, redir>>

ChildClose(k) ==
  /\ Goto(k, "child2", "recur") /\ SetFds(k, ClosePipe(k))
  /\ pip' = [pip EXCEPT ![k] = NoPip]
  /\ UNCHANGED <<shell, io, clean, redir>>

\* The parent: pip[0] becomes its standard input; it executes stage k.
ParentDup(k) ==
  /\ Goto(k, "parent1", "parent2") /\ SetFds(k, Dup2(fds[k], pip[k][1], 0))
  /\ UNCHANGED <<shell, pip, io, clean, redir>>

ParentClosesOne(k) ==    \* mutant: pip[1] stays open in the parent
  /\ Goto(k, "parent2", "redir0") /\ SetFds(k, Close(fds[k], pip[k][1]))
  /\ UNCHANGED <<shell, pip, io, clean, redir>>

ParentClose(k) ==
  /\ Goto(k, "parent2", "redir0") /\ SetFds(k, ClosePipe(k))
  /\ UNCHANGED <<shell, pip, io, clean, redir>>

----------------------------------------------------------------------------
(* exec_single in the process of stage k.                                  *)

RedirPc == [d \in 0..2 |-> CASE d = 0 -> "redir0" [] d = 1 -> "redir1" [] d = 2 -> "redir2"]
AfterRedir(d) == IF d = 2 THEN "exec" ELSE RedirPc[d + 1]

\* open and dup2; the opened descriptor stays open.
Redirect(k, d) ==
  /\ Goto(k, RedirPc[d], AfterRedir(d))
  /\ SetFds(k, IF <<k, d>> \in redir
               THEN Dup2(Open(fds[k], File), LowestFree(fds[k]), d) ELSE fds[k])
  /\ UNCHANGED <<shell, pip, io, clean, redir>>

\* open fails, nobody looks at its result, and dup2(-1, d) changes nothing.
RedirectFails(k, d) ==
  /\ Goto(k, RedirPc[d], AfterRedir(d))
  /\ <<k, d>> \in redir /\ "open" \in Faults
  /\ clean' = FALSE
  /\ UNCHANGED <<shell, fds, pip, io, redir>>

\* A stage below 0 has no job: what is before the array is no program.
Exec(k) ==
  /\ k \in Jobs /\ Goto(k, "exec", "run")
  /\ UNCHANGED <<shell, fds, pip, io, clean, redir>>

\* Every path tried by Execve fails, so exec_single returns although it is
\* declared noreturn, which is undefined.  The process reaches sys_exit(1), or
\* (the compiler having dropped that call as unreachable) runs into the code
\* that follows: the end of the function, or, when cur == 0, the call of pipe
\* and the fork of a process with cur == -1.
ExecFails(k) ==
  /\ pc[k] = "exec" /\ ("exec" \in Faults \/ k \notin Jobs)
  /\ clean' = FALSE
  /\ \/ Die(k)
     \/ k = 0 /\ pip[k] = NoPip /\ Goto(k, "exec", "pipe") /\ UNCHANGED fds
  /\ UNCHANGED <<shell, pip, io, redir>>

----------------------------------------------------------------------------
(* The executed programs and the kernel (external).                        *)

In(k) == fds[k][0]
Out(k) == fds[k][1]

ReadPipe(k) ==
  /\ pc[k] = "run" /\ hand[k] = 0
  /\ In(k).kind = "r" /\ pipe[In(k).pipe] > 0
  /\ pipe' = [pipe EXCEPT ![In(k).pipe] = @ - 1] /\ hand' = [hand EXCEPT ![k] = 1]
  /\ UNCHANGED <<shell, pc, fds, pip, left, out, clean, redir>>

ReadFile(k) ==
  /\ pc[k] = "run" /\ hand[k] = 0
  /\ In(k).kind \in {"std", "file"} /\ left[k] > 0
  /\ left' = [left EXCEPT ![k] = @ - 1] /\ hand' = [hand EXCEPT ![k] = 1]
  /\ UNCHANGED <<shell, pc, fds, pip, pipe, out, clean, redir>>

AtEof(k) == IF In(k).kind = "r" THEN pipe[In(k).pipe] = 0 /\ ~ HasWriter(In(k).pipe)
            ELSE left[k] = 0

Eof(k) ==
  /\ pc[k] = "run" /\ hand[k] = 0 /\ AtEof(k)
  /\ Die(k)
  /\ UNCHANGED <<shell, pip, io, clean, redir>>

WritePipe(k) ==
  /\ pc[k] = "run" /\ hand[k] = 1 /\ Out(k).kind = "w"
  /\ HasReader(Out(k).pipe) /\ pipe[Out(k).pipe] < Cap
  /\ pipe' = [pipe EXCEPT ![Out(k).pipe] = @ + 1] /\ hand' = [hand EXCEPT ![k] = 0]
  /\ UNCHANGED <<shell, pc, fds, pip, left, out, clean, redir>>

SigPipe(k) ==
  /\ pc[k] = "run" /\ hand[k] = 1 /\ Out(k).kind = "w" /\ ~ HasReader(Out(k).pipe)
  /\ Die(k) /\ clean' = FALSE
  /\ UNCHANGED <<shell, pip, io, redir>>

WriteFile(k) ==
  /\ pc[k] = "run" /\ hand[k] = 1 /\ Out(k).kind \in {"std", "file"}
  /\ hand' = [hand EXCEPT ![k] = 0]
  /\ out' = IF k = Cnt - 1 THEN out + 1 ELSE out
  /\ UNCHANGED <<shell, pc, fds, pip, pipe, left, clean, redir>>

\* The program ends before end of file (head, kill).
Quit(k) ==
  /\ pc[k] = "run"
  /\ Die(k) /\ clean' = FALSE
  /\ UNCHANGED <<shell, pip, io, redir>>

Finished == shell = "returned" /\ \A k \in Stages : pc[k] \in {"none", "dead"}
Done == Finished /\ UNCHANGED vars

----------------------------------------------------------------------------
Step(k) ==
  \/ Recur(k) \/ MakePipe(k) \/ PipeFails(k) \/ Fork(k) \/ ForkFails(k)
  \/ ChildDup(k) \/ ChildClose(k) \/ ParentDup(k) \/ ParentClose(k)
  \/ \E d \in 0..2 : Redirect(k, d) \/ RedirectFails(k, d)
  \/ Exec(k) \/ ExecFails(k)
  \/ ReadPipe(k) \/ ReadFile(k) \/ Eof(k) \/ WritePipe(k) \/ WriteFile(k) \/ SigPipe(k)

ShellStep == ShellForks \/ ShellForkFails \/ ShellWaits

Next == ShellStep \/ (\E k \in Stages : Step(k) \/ Quit(k)) \/ Done

\* The kernel schedules every process that can run; nothing makes it quit.
Fairness == WF_vars(ShellStep) /\ \A k \in Stages : WF_vars(Step(k))

Spec == Init /\ [][Next]_vars /\ Fairness

----------------------------------------------------------------------------
(* Properties.                                                             *)

\* dup2 and close in both branches of exec_recur_noret: a program starts with
\* its own pipe ends as standard input and output and with no other pipe end
\* open.  An end left open would keep a neighbour from ever seeing end of file
\* or SIGPIPE.
NoLeakedPipeEnd ==
  \A k \in Stages : pc[k] = "run" =>
    /\ \A d \in Fds : fds[k][d].kind = "r" => d = 0 /\ fds[k][d].pipe = k
    /\ \A d \in Fds : fds[k][d].kind = "w" => d = 1 /\ fds[k][d].pipe = k + 1

\* exec_job waits for the last stage only.  When it returns and nothing failed
\* or was redirected, the whole input has gone through all stages to the output.
OutputComplete ==
  shell = "returned" /\ clean /\ redir = {} =>
    out = Items /\ \A k \in Jobs : pc[k] = "dead"

\* Whatever fails, no process of a pipeline waits for ever: exec_job returns
\* and every stage ends, if only by end of file or SIGPIPE.
PipelineEnds == <>[]Finished

\* exec_single and exec_recur_noret are declared noreturn ("do not return"):
\* no process goes on past them and forks a stage that is not a job.
NoRunaway == \A k \in Stages \ Jobs : pc[k] = "none"
=============================================================================
