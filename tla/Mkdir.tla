------------------------------- MODULE Mkdir -------------------------------
(***************************************************************************)
(* tlibc/mkdir.c: for each argument, every directory on the path is opened *)
(* and, if that fails, made.  The path is built in a static buffer, which  *)
(* the next argument finds as this one left it.  Other processes make      *)
(* directories at the same time.                                           *)
(*                                                                         *)
(* A path is a sequence of bytes, one-character strings or "nul"; a name   *)
(* in the file system is a non-empty sequence of bytes without a slash, a  *)
(* place in it a sequence of names.  The working directory is the root.    *)
(***************************************************************************)
EXTENDS Integers, Sequences, SequencesExt

CONSTANTS
  MkdirArgs,    \* argument lists: sequences of paths
  MkdirBuf,     \* sizeof(buf)
  MkdirTrees,   \* file systems to begin with: [dirs, files], sets of places
  MkdirOthers   \* places another process may make a directory at

\* Arguments are C strings, and the directory of every directory or file is there.
ASSUME MkdirAssumption ==
  /\ MkdirBuf \in Nat \ {0}
  /\ \A as \in MkdirArgs :
       as \in Seq(Seq(STRING)) /\ \A k \in 1..Len(as) : \A i \in 1..Len(as[k]) : as[k][i] # "nul"
  /\ \A t \in MkdirTrees : \A d \in t.dirs \cup t.files :
       /\ d \in Seq(Seq(STRING)) /\ d # <<>>
       /\ SubSeq(d, 1, Len(d) - 1) \in {<<>>} \cup t.dirs
  /\ \A d \in MkdirOthers : d \in Seq(Seq(STRING)) /\ d # <<>>

VARIABLES
  margs,        \* argv
  marg, mi,     \* the current argument, and the index in it
  mbuf,         \* buf, from index 0
  mend,         \* is_end
  mret, mcode,  \* ret of mkdir and of main
  mdirs, mfiles,  \* the file system
  mpc

mkdirVars == <<margs, marg, mi, mbuf, mend, mret, mcode, mdirs, mfiles, mpc>>

\* argv[marg][k], with the zero byte at its end.
ArgByte(k) == LET p == margs[marg] IN IF k < Len(p) THEN p[k + 1] ELSE "nul"

\* The C string at the beginning of some bytes.
CString(bytes) ==
  LET n == CHOOSE k \in 0..Len(bytes) : /\ k < Len(bytes) => bytes[k + 1] = "nul"
                                        /\ \A j \in 1..k : bytes[j] # "nul"
  IN [j \in 1..n |-> bytes[j]]
BufString == CString([k \in 1..MkdirBuf |-> mbuf[k - 1]])

----------------------------------------------------------------------------
(* The kernel's view of a path.                                            *)

\* Its names, the maximal runs of bytes other than a slash, along the path: those that
\* have ended, and the one that has not.
NamesOf(w) == IF w.run = <<>> THEN w.names ELSE Append(w.names, w.run)
Place(path) ==
  LET walk[n \in 0..Len(path)] ==
        IF n = 0 THEN [names |-> <<>>, run |-> <<>>]
        ELSE IF path[n] = "/" THEN [names |-> NamesOf(walk[n - 1]), run |-> <<>>]
        ELSE [names |-> walk[n - 1].names, run |-> Append(walk[n - 1].run, path[n])]
  IN NamesOf(walk[Len(path)])

IsDir(place) == place = <<>> \/ place \in mdirs
ParentIsDir(place) == IsDir(SubSeq(place, 1, Len(place) - 1))

\* open for reading: a file needs a path that does not end in a slash.
Opens(path) ==
  /\ path # <<>>
  /\ \/ IsDir(Place(path))
     \/ Place(path) \in mfiles /\ Last(path) # "/"
CanMake(path) ==
  /\ path # <<>> /\ Place(path) # <<>> /\ ParentIsDir(Place(path))
  /\ ~ IsDir(Place(path)) /\ Place(path) \notin mfiles

----------------------------------------------------------------------------
MkdirInit ==
  /\ margs \in MkdirArgs /\ marg = 1 /\ mi = 0
  /\ mbuf = [k \in 0..MkdirBuf - 1 |-> "nul"]
  /\ mend = TRUE /\ mret = 0 /\ mcode = 0 /\ mpc = "main"
  /\ \E t \in MkdirTrees : mdirs = t.dirs /\ mfiles = t.files

MkdirIdle ==
  /\ margs = <<>> /\ marg = 1 /\ mi = 0 /\ mbuf = <<>>
  /\ mend = TRUE /\ mret = 0 /\ mcode = 0 /\ mpc = "none" /\ mdirs = {} /\ mfiles = {}

MkdirUsage ==
  /\ mpc = "main" /\ margs = <<>>
  /\ mcode' = 1 /\ mpc' = "exit"
  /\ UNCHANGED <<margs, marg, mi, mbuf, mend, mret, mdirs, mfiles>>

\* A leading slash is copied before the loop.
MkdirCall ==
  /\ mpc = "main" /\ marg \in DOMAIN margs
  /\ mi' = IF ArgByte(0) = "/" THEN 1 ELSE 0
  /\ mbuf' = IF ArgByte(0) = "/" THEN [mbuf EXCEPT ![0] = "/"] ELSE mbuf
  /\ mend' = TRUE /\ mret' = 0 /\ mpc' = "loop"
  /\ UNCHANGED <<margs, marg, mcode, mdirs, mfiles>>

MkdirChar ==
  /\ mpc = "loop" /\ mi < MkdirBuf /\ ArgByte(mi) \notin {"nul", "/"}
  /\ mbuf' = [mbuf EXCEPT ![mi] = ArgByte(mi)] /\ mend' = FALSE /\ mi' = mi + 1
  /\ UNCHANGED <<margs, marg, mret, mcode, mdirs, mfiles, mpc>>

MkdirSlash ==
  /\ mpc = "loop" /\ mi < MkdirBuf /\ ArgByte(mi) = "/"
  /\ mbuf' = [mbuf EXCEPT ![mi] = "nul"] /\ mpc' = "level"
  /\ UNCHANGED <<margs, marg, mi, mend, mret, mcode, mdirs, mfiles>>

\* An argument that does not fit is written behind the buffer.
MkdirOverrun ==
  /\ mpc = "loop" /\ mi >= MkdirBuf /\ ArgByte(mi) # "nul"
  /\ mpc' = "overrun"
  /\ UNCHANGED <<margs, marg, mi, mbuf, mend, mret, mcode, mdirs, mfiles>>

LastLevelEnded ==    \* mutant: the last level is made only after a slash
  /\ mpc = "loop" /\ ArgByte(mi) = "nul"
  /\ mpc' = IF mend THEN "last" ELSE "return"
  /\ UNCHANGED <<margs, marg, mi, mbuf, mend, mret, mcode, mdirs, mfiles>>

\* The last level; buf is used without a zero byte behind the copy.
LastLevel ==
  /\ mpc = "loop" /\ ArgByte(mi) = "nul"
  /\ mpc' = IF mend THEN "return" ELSE "last"
  /\ UNCHANGED <<margs, marg, mi, mbuf, mend, mret, mcode, mdirs, mfiles>>

\* sys_open of the path so far.
MkdirOpens ==
  /\ mpc \in {"level", "last"} /\ Opens(BufString)
  /\ mpc' = IF mpc = "level" THEN "slash" ELSE "return"
  /\ UNCHANGED <<margs, marg, mi, mbuf, mend, mret, mcode, mdirs, mfiles>>

\* It may fail where there is something, too: no permission, no descriptor left.
MkdirCannotOpen ==
  /\ mpc \in {"level", "last"}
  /\ mpc' = IF mpc = "level" THEN "makelevel" ELSE "makelast"
  /\ UNCHANGED <<margs, marg, mi, mbuf, mend, mret, mcode, mdirs, mfiles>>

\* sys_mkdir: it may fail for other reasons than those of CanMake, too.
MkdirMakes ==
  /\ mpc \in {"makelevel", "makelast"} /\ CanMake(BufString)
  /\ mdirs' = mdirs \cup {Place(BufString)}
  /\ mpc' = IF mpc = "makelevel" THEN "slash" ELSE "return"
  /\ UNCHANGED <<margs, marg, mi, mbuf, mend, mret, mcode, mfiles>>

MkdirCannotMake ==
  /\ mpc \in {"makelevel", "makelast"}
  /\ mret' = 1 /\ mpc' = IF mpc = "makelevel" THEN "slash" ELSE "return"
  /\ UNCHANGED <<margs, marg, mi, mbuf, mend, mcode, mdirs, mfiles>>

MkdirNextByte ==
  /\ mpc = "slash"
  /\ mbuf' = [mbuf EXCEPT ![mi] = "/"] /\ mend' = TRUE /\ mi' = mi + 1 /\ mpc' = "loop"
  /\ UNCHANGED <<margs, marg, mret, mcode, mdirs, mfiles>>

MkdirReturn ==
  /\ mpc = "return"
  /\ mcode' = IF mret # 0 THEN 1 ELSE mcode
  /\ marg' = marg + 1 /\ mpc' = IF marg = Len(margs) THEN "exit" ELSE "main"
  /\ UNCHANGED <<margs, mi, mbuf, mend, mret, mdirs, mfiles>>

\* Another process makes a directory where one can be made.
OtherMakes ==
  /\ mpc \notin {"none", "exit", "overrun"}
  /\ \E d \in MkdirOthers :
       /\ ParentIsDir(d) /\ d \notin mdirs \cup mfiles
       /\ mdirs' = mdirs \cup {d}
  /\ UNCHANGED <<margs, marg, mi, mbuf, mend, mret, mcode, mfiles, mpc>>

MkdirStep == \/ MkdirUsage \/ MkdirCall \/ MkdirChar \/ MkdirSlash \/ MkdirOverrun \/ LastLevel
             \/ MkdirOpens \/ MkdirCannotOpen \/ MkdirMakes \/ MkdirCannotMake
             \/ MkdirNextByte \/ MkdirReturn
MkdirNext == MkdirStep \/ OtherMakes
MkdirEnded == mpc \in {"none", "exit", "overrun"}
MkdirSpec == MkdirInit /\ [][MkdirNext \/ (MkdirEnded /\ UNCHANGED mkdirVars)]_mkdirVars

----------------------------------------------------------------------------
(* Properties.                                                             *)

\* Byte i of the buffer when argument k has been copied: it comes from the last argument
\* that is so long.
Left(k, i) ==
  LET long == {j \in 1..k : Len(margs[j]) >= i}
  IN IF long = {} THEN "nul" ELSE margs[CHOOSE j \in long : \A h \in long : h <= j][i]

\* What the last level of argument k is taken to be: the argument, and behind it the
\* bytes an earlier, longer argument left in the buffer.
Meant(k) ==
  IF margs[k] = <<>> \/ Last(margs[k]) = "/" THEN margs[k]
  ELSE [i \in 1..MkdirBuf |-> Left(k, i)]

\* Exit code 0 means that every directory on each path mkdir worked on exists when it
\* ends, whatever other processes made in between; only at the last level a regular file
\* passes for a directory.  The path is the one in the buffer, Meant, which need not be
\* the argument: what mkdir.c promises of that is MkdirMakesArguments.
MkdirDelivers ==
  mpc = "exit" /\ mcode = 0 =>
    \A k \in DOMAIN margs :
      LET place == Place(CString(Meant(k))) IN
      \A p \in Prefixes(place) \ {<<>>} : p \in mdirs \/ (p = place /\ p \in mfiles)

\* mkdir.c:5: "Make directory recursively.", for each argument.
MkdirMakesArguments ==
  mpc = "exit" /\ mcode = 0 =>
    \A k \in DOMAIN margs : Place(margs[k]) \in {<<>>} \cup mdirs \cup mfiles
=============================================================================
