------------------------------ MODULE Programs ------------------------------
(***************************************************************************)
(* The small programs of the repository side by side: one of them runs, on *)
(* its own inputs and, where its module says so, next to other processes;  *)
(* the others are idle.                                                    *)
(***************************************************************************)
EXTENDS Eval, Wc, Mkdir, Utilities, Devices, Elf

progVars == <<evalVars, wcVars, mkdirVars, utilVars, devVars, kernelVars, gettextVars>>

ProgramsInit ==
  \/ EvalInit /\ WcIdle /\ MkdirIdle /\ UtilIdle /\ DevIdle /\ LoaderIdle /\ GettextIdle
  \/ EvalIdle /\ WcInit /\ MkdirIdle /\ UtilIdle /\ DevIdle /\ LoaderIdle /\ GettextIdle
  \/ EvalIdle /\ WcIdle /\ MkdirInit /\ UtilIdle /\ DevIdle /\ LoaderIdle /\ GettextIdle
  \/ EvalIdle /\ WcIdle /\ MkdirIdle /\ UtilInit /\ DevIdle /\ LoaderIdle /\ GettextIdle
  \/ EvalIdle /\ WcIdle /\ MkdirIdle /\ UtilIdle /\ DevInit /\ LoaderIdle /\ GettextIdle
  \/ EvalIdle /\ WcIdle /\ MkdirIdle /\ UtilIdle /\ DevIdle /\ LoaderInit /\ GettextIdle
  \/ EvalIdle /\ WcIdle /\ MkdirIdle /\ UtilIdle /\ DevIdle /\ LoaderIdle /\ GettextInit

NotEval == UNCHANGED <<wcVars, mkdirVars, utilVars, devVars, kernelVars, gettextVars>>
NotWc == UNCHANGED <<evalVars, mkdirVars, utilVars, devVars, kernelVars, gettextVars>>
NotMkdir == UNCHANGED <<evalVars, wcVars, utilVars, devVars, kernelVars, gettextVars>>
NotUtil == UNCHANGED <<evalVars, wcVars, mkdirVars, devVars, kernelVars, gettextVars>>
NotDev == UNCHANGED <<evalVars, wcVars, mkdirVars, utilVars, kernelVars, gettextVars>>
NotLoader == UNCHANGED <<evalVars, wcVars, mkdirVars, utilVars, devVars, gettextVars>>
NotGettext == UNCHANGED <<evalVars, wcVars, mkdirVars, utilVars, devVars, kernelVars>>

\* A step of the program that runs; what other processes and users do is not.
ProgramStep ==
  \/ EvalNext /\ NotEval
  \/ WcNext /\ NotWc
  \/ MkdirStep /\ NotMkdir
  \/ UtilStep /\ NotUtil
  \/ LoaderNext /\ NotLoader
  \/ GettextNext /\ NotGettext
OthersStep ==
  \/ OtherMakes /\ NotMkdir
  \/ FileChanges /\ NotUtil
  \/ Pause /\ NotUtil
  \/ DevNext /\ NotDev

Ended ==
  EvalEnded /\ WcEnded /\ MkdirEnded /\ UtilEnded /\ LoaderEnded /\ GettextEnded
Rest == Ended /\ UNCHANGED progVars

\* A program that is not waiting for a system call runs on; none of them but pause
\* waits for another process.
ProgramsSpec ==
  ProgramsInit /\ [][ProgramStep \/ OthersStep \/ Rest]_progVars /\ WF_progVars(ProgramStep)

----------------------------------------------------------------------------
(* Properties.                                                             *)

\* Every program ends on finite input, whatever fails and wherever reads are cut, but
\* for yes, for pause, which waits for a signal, and for seq up to INT_MAX, which
\* never finds i > last.
ProgramsEnd ==
  <>(\/ Ended
     \/ job.prog \in {"yes", "pause"}
     \/ job.prog = "seq" /\ upc = "loop" /\ SeqLast = IntMax)
=============================================================================
