--------------------------- MODULE ProgramsProofs ---------------------------
(***************************************************************************)
(* Proofs about the small programs: the devices, wc, the ELF loader,       *)
(* gettext, the utilities, eval and mkdir, for inputs of every length and  *)
(* every size of their buffers.                                            *)
(*                                                                         *)
(* One program runs at a time, so a step of the composition is a step of   *)
(* the program or leaves its variables alone.                              *)
(***************************************************************************)
EXTENDS Programs, Induction, FiniteSetTheorems, SequenceTheorems, TLAPS

PNext == ProgramStep \/ OthersStep \/ Rest

----------------------------------------------------------------------------
(* The devices.                                                            *)

\* A step of the composition, seen by the devices.
LEMMA DevStepIs ==
  ASSUME [PNext]_progVars
  PROVE  [DevNext]_devVars
BY DEF PNext, ProgramStep, OthersStep, Rest, progVars, NotEval, NotWc, NotMkdir, NotUtil,
   NotDev, NotLoader, NotGettext

DevStates ==
  /\ dloaded \in [Devs -> BOOLEAN] /\ dgen \in [Devs -> Nat]
  /\ dpc \in {"none", "user", "read", "done", "stale"}
  /\ dreg \subseteq [dev : Devs, gen : Nat]

\* A device whose code is not there has lost it to rmmod.
RegInv ==
  /\ \A r \in dreg : r \in dgone \/ (dloaded[r.dev] /\ r.gen = dgen[r.dev])
  /\ dpc = "stale" => dreg \cap dgone # {}

FileInv ==
  \/ dfile = NoDevFile
  \/ /\ dfile \in [dev : Devs, gen : Nat, pos : Nat]
     /\ dloaded[dfile.dev] /\ dfile.gen = dgen[dfile.dev]

ReadInv ==
  /\ dpc \in {"none", "user", "stale"} => dcall = NoCall /\ dzero = {}
  /\ dpc \in {"read", "done"} =>
       /\ dfile \in [dev : Devs, gen : Nat, pos : Nat]
       /\ dcall \in [count : Nat, done : Nat, size : Nat, start : Nat]
  /\ dpc = "read" => /\ dcall.done <= dcall.count /\ dcall.done <= dcall.size
                     /\ dzero = 0..dcall.done - 1 /\ dfile.pos = dcall.start
  /\ dpc = "done" =>
       IF dcall.count <= dcall.size
       THEN dret = dcall.count /\ dzero = 0..dcall.count - 1
            /\ dfile.pos = dcall.start + dcall.count
       ELSE dret = -EFAULT /\ dzero = 0..dcall.size - 1 /\ dfile.pos = dcall.start

DevInv == DevStates /\ RegInv /\ FileInv /\ ReadInv

\* No device is there at first.
LEMMA DevBegins == ProgramsInit => DevInv
<1> SUFFICES ASSUME ProgramsInit PROVE DevInv
  OBVIOUS
<1>1. DevRest /\ dpc \in {"none", "user"}
  BY DEF ProgramsInit, DevInit, DevIdle
<1> QED BY <1>1 DEF DevRest, DevInv, DevStates, RegInv, FileInv, ReadInv

\* Inserting and removing modules.
LEMMA ModulesKeep ==
  ASSUME DevInv, InsmodNull \/ InsmodZero \/ \E d \in Devs : Rmmod(d)
  PROVE  DevInv'
<1>1. DevStates /\ RegInv /\ FileInv /\ ReadInv
  BY DEF DevInv
<1>2. PICK d \in Devs :
        \/ \E b \in BOOLEAN : Inserts(d, b) /\ ((b = TRUE /\ Registers(d)) \/ dreg' = dreg)
        \/ Rmmod(d)
  BY DEF InsmodNull, InsmodZero, Devs
<1>3. /\ dfile' = dfile /\ dcall' = dcall /\ dzero' = dzero /\ dpc' = dpc /\ dret' = dret
      /\ dpc = "user"
  BY <1>2 DEF Inserts, Rmmod
<1>4. ReadInv'
  BY <1>1, <1>3 DEF ReadInv
<1>5. DevStates' /\ dfile.dev # d /\ (\A e \in Devs : e # d => dloaded'[e] = dloaded[e] /\ dgen'[e] = dgen[e])
  <2>1. CASE Rmmod(d)
    <3>1. dloaded' = [dloaded EXCEPT ![d] = FALSE] /\ dgen' = dgen /\ dreg' = dreg /\ dfile.dev # d
      BY <2>1 DEF Rmmod
    <3> QED BY <1>1, <1>3, <3>1 DEF DevStates
  <2>2. ASSUME NEW b \in BOOLEAN, Inserts(d, b), (b = TRUE /\ Registers(d)) \/ dreg' = dreg
        PROVE  DevStates' /\ dfile.dev # d
               /\ (\A e \in Devs : e # d => dloaded'[e] = dloaded[e] /\ dgen'[e] = dgen[e])
    <3>1. /\ dloaded' = [dloaded EXCEPT ![d] = b] /\ dgen' = [dgen EXCEPT ![d] = @ + 1]
          /\ ~ dloaded[d]
      BY <2>2 DEF Inserts
    <3>2. dreg' \subseteq [dev : Devs, gen : Nat]
      BY <1>1, <2>2 DEF Registers, DevStates
    <3>3. dloaded' \in [Devs -> BOOLEAN] /\ dgen' \in [Devs -> Nat]
          /\ (\A e \in Devs : e # d => dloaded'[e] = dloaded[e] /\ dgen'[e] = dgen[e])
      BY <1>1, <3>1 DEF DevStates
    <3>4. dfile.dev # d
      BY <1>1, <3>1 DEF FileInv, NoDevFile, Devs
    <3> QED BY <1>1, <1>3, <3>2, <3>3, <3>4 DEF DevStates
  <2> QED BY <1>2, <2>1, <2>2
<1>6. FileInv'
  <2>1. CASE dfile = NoDevFile
    BY <1>3, <2>1 DEF FileInv
  <2>2. CASE dfile # NoDevFile
    <3>1. /\ dfile \in [dev : Devs, gen : Nat, pos : Nat]
          /\ dloaded[dfile.dev] /\ dfile.gen = dgen[dfile.dev]
      BY <1>1, <2>2 DEF FileInv
    <3>2. dfile.dev \in Devs
      BY <3>1
    <3> QED BY <1>3, <1>5, <3>1, <3>2 DEF FileInv
  <2> QED BY <2>1, <2>2
<1>7. RegInv'
  <2>1. \A r \in dreg : r.dev \in Devs /\ r = [dev |-> r.dev, gen |-> r.gen]
    BY <1>1 DEF DevStates
  <2>2. CASE Rmmod(d)
    <3>1. /\ dloaded' = [dloaded EXCEPT ![d] = FALSE] /\ dgen' = dgen /\ dreg' = dreg
          /\ dgone' = dgone \cup {[dev |-> d, gen |-> dgen[d]]}
      BY <2>2 DEF Rmmod
    <3>2. ASSUME NEW r \in dreg, r \notin dgone'
          PROVE  dloaded'[r.dev] /\ r.gen = dgen[r.dev]
      <4>1. dloaded[r.dev] /\ r.gen = dgen[r.dev]
        BY <1>1, <3>1, <3>2 DEF RegInv
      <4>2. r.dev # d
        BY <2>1, <3>1, <3>2, <4>1
      <4> QED BY <1>5, <2>1, <4>1, <4>2
    <3> QED BY <1>3, <3>1, <3>2 DEF RegInv
  <2>3. ASSUME NEW b \in BOOLEAN, Inserts(d, b), (b = TRUE /\ Registers(d)) \/ dreg' = dreg
        PROVE  RegInv'
    <3>1. /\ dloaded' = [dloaded EXCEPT ![d] = b] /\ dgen' = [dgen EXCEPT ![d] = @ + 1]
          /\ ~ dloaded[d] /\ dgone' = dgone
      BY <2>3 DEF Inserts
    <3>2. ASSUME NEW r \in dreg, r \notin dgone
          PROVE  dloaded'[r.dev] /\ r.gen = dgen'[r.dev]
      <4>1. dloaded[r.dev] /\ r.gen = dgen[r.dev]
        BY <1>1, <3>2 DEF RegInv
      <4>2. r.dev # d
        BY <3>1, <4>1
      <4> QED BY <1>5, <2>1, <4>1, <4>2
    <3>3. CASE dreg' = dreg
      BY <1>3, <3>1, <3>2, <3>3 DEF RegInv
    <3>4. CASE b = TRUE /\ Registers(d)
      <4>1. dreg' = dreg \cup {[dev |-> d, gen |-> dgen[d] + 1]}
        BY <3>4 DEF Registers
      <4>2. dloaded'[d] /\ dgen'[d] = dgen[d] + 1
        BY <1>1, <3>1, <3>4 DEF DevStates
      <4> QED BY <1>3, <3>1, <3>2, <4>1, <4>2 DEF RegInv
    <3> QED BY <2>3, <3>3, <3>4
  <2> QED BY <1>2, <2>2, <2>3
<1> QED BY <1>4, <1>5, <1>6, <1>7 DEF DevInv

\* Opening and closing, and the calls that are one step.
LEMMA FilesKeep ==
  ASSUME DevInv,
         \/ \E r \in dreg : OpenDev(r)
         \/ \E n \in Counts : NullWrite(n) \/ ZeroWrite(n)
         \/ CloseDev \/ NullRead
  PROVE  DevInv'
<1>1. DevStates /\ RegInv /\ FileInv /\ ReadInv
  BY DEF DevInv
<1>2. /\ dloaded' = dloaded /\ dgen' = dgen /\ dreg' = dreg /\ dcall' = dcall /\ dzero' = dzero
      /\ dgone' = dgone /\ dpc = "user" /\ dpc' \in {"user", "stale"}
  BY DEF OpenDev, NullWrite, ZeroWrite, CloseDev, NullRead
<1>3. DevStates' /\ ReadInv'
  BY <1>1, <1>2 DEF DevStates, ReadInv
<1>4. FileInv'
  <2>1. CASE dfile' = dfile
    BY <1>1, <1>2, <2>1 DEF FileInv
  <2>2. ASSUME NEW r \in dreg, OpenDev(r), dfile' # dfile PROVE FileInv'
    <3>1. Current(r) /\ dfile' = [dev |-> r.dev, gen |-> r.gen, pos |-> 0]
      BY <2>2 DEF OpenDev
    <3>2. r.dev \in Devs /\ r.gen \in Nat
      BY <1>1 DEF DevStates
    <3> QED BY <1>2, <3>1, <3>2 DEF FileInv, Current
  <2>3. ASSUME NEW n \in Counts, NullWrite(n) PROVE FileInv'
    <3>1. dfile' = [dfile EXCEPT !.pos = @ + n] /\ dfile.dev = "null"
      BY <2>3 DEF NullWrite
    <3>2. /\ dfile \in [dev : Devs, gen : Nat, pos : Nat]
          /\ dloaded[dfile.dev] /\ dfile.gen = dgen[dfile.dev]
      BY <1>1, <3>1 DEF FileInv, NoDevFile
    <3>3. n \in Nat
      BY DevicesAssumption
    <3> QED BY <1>2, <3>1, <3>2, <3>3 DEF FileInv
  <2>4. CASE CloseDev
    BY <2>4 DEF CloseDev, FileInv
  <2> QED BY <2>1, <2>2, <2>3, <2>4 DEF ZeroWrite, NullRead
<1>5. RegInv'
  <2>1. dpc' = "stale" => dreg \cap dgone # {}
    <3> SUFFICES ASSUME dpc' = "stale" PROVE dreg \cap dgone # {}
      OBVIOUS
    <3>1. PICK r \in dreg : OpenDev(r)
      BY <1>2 DEF NullWrite, ZeroWrite, CloseDev, NullRead
    <3>2. ~ Current(r)
      BY <1>2, <3>1 DEF OpenDev
    <3> QED BY <1>1, <3>2 DEF RegInv, Current
  <2> QED BY <1>1, <1>2, <2>1 DEF RegInv
<1> QED BY <1>3, <1>4, <1>5 DEF DevInv

\* A read of zero, round by round.
LEMMA ReadsKeep ==
  ASSUME DevInv,
         \/ \E n \in Counts : \E s \in Buffers : ZeroCalled(n, s)
         \/ ZeroRound \/ ZeroFaults \/ ZeroReturns \/ UserTakes
  PROVE  DevInv'
<1>1. DevStates /\ RegInv /\ FileInv /\ ReadInv
  BY DEF DevInv
<1>2. /\ dloaded' = dloaded /\ dgen' = dgen /\ dreg' = dreg /\ dgone' = dgone /\ RegInv'
  <2>1. /\ dloaded' = dloaded /\ dgen' = dgen /\ dreg' = dreg /\ dgone' = dgone /\ dpc' # "stale"
    BY DEF ZeroCalled, ZeroRound, ZeroFaults, ZeroReturns, UserTakes
  <2> QED BY <1>1, <2>1 DEF RegInv
<1>3. ASSUME NEW n \in Counts, NEW s \in Buffers, ZeroCalled(n, s) PROVE DevInv'
  <2>1. /\ dfile.dev = "zero" /\ dfile' = dfile /\ dpc' = "read" /\ dzero' = {}
        /\ dcall' = [count |-> n, done |-> 0, size |-> s, start |-> dfile.pos]
    BY <1>3 DEF ZeroCalled
  <2>2. dfile \in [dev : Devs, gen : Nat, pos : Nat] /\ dfile.pos \in Nat
    BY <1>1, <2>1 DEF FileInv, NoDevFile
  <2>3. n \in Nat /\ s \in Nat
    BY DevicesAssumption
  <2>4. 0..0 - 1 = {}
    OBVIOUS
  <2>5. ReadInv'
    BY <2>1, <2>2, <2>3, <2>4 DEF ReadInv
  <2> QED BY <1>1, <1>2, <2>1, <2>5 DEF DevInv, DevStates, FileInv
<1>4. ASSUME dpc = "read"
      PROVE  /\ dfile \in [dev : Devs, gen : Nat, pos : Nat]
             /\ dcall \in [count : Nat, done : Nat, size : Nat, start : Nat]
             /\ dcall.done <= dcall.count /\ dcall.done <= dcall.size
             /\ dzero = 0..dcall.done - 1 /\ dfile.pos = dcall.start
             /\ Bread \in Nat /\ dcall.done + Bread <= dcall.count
  <2>1. /\ dfile \in [dev : Devs, gen : Nat, pos : Nat]
        /\ dcall \in [count : Nat, done : Nat, size : Nat, start : Nat]
        /\ dcall.done <= dcall.count /\ dcall.done <= dcall.size
        /\ dzero = 0..dcall.done - 1 /\ dfile.pos = dcall.start
    BY <1>1, <1>4 DEF ReadInv
  <2>2. Bread \in Nat /\ dcall.done + Bread <= dcall.count
    BY <2>1, DevicesAssumption DEF Bread
  <2> QED BY <2>1, <2>2
<1>5. CASE ZeroRound
  <2>1. /\ dpc = "read" /\ dpc' = "read" /\ dfile' = dfile /\ dcall.done + Bread <= dcall.size
        /\ dzero' = dzero \cup Filled /\ dcall' = [dcall EXCEPT !.done = @ + Bread]
    BY <1>5 DEF ZeroRound
  <2> DEFINE c == dcall.done
             b == Bread
  <2>2. c \in Nat /\ b \in Nat /\ c + b <= dcall.count /\ c + b <= dcall.size
    BY <1>4, <2>1
  <2>3. dzero' = 0..c + b - 1
    <3>1. dzero' = (0..c - 1) \cup (c..c + b - 1)
      BY <1>4, <2>1 DEF Filled
    <3> HIDE DEF c, b
    <3> QED BY <2>2, <3>1
  <2>4. /\ dcall' \in [count : Nat, done : Nat, size : Nat, start : Nat]
        /\ dcall'.done = c + b /\ dcall'.count = dcall.count /\ dcall'.size = dcall.size
        /\ dcall'.start = dcall.start
    BY <1>4, <2>1, <2>2
  <2>5. ReadInv'
    <3>1. /\ dfile' \in [dev : Devs, gen : Nat, pos : Nat] /\ dfile'.pos = dcall'.start
          /\ dpc' = "read"
      BY <1>4, <2>1, <2>4
    <3> HIDE DEF c, b
    <3>2. /\ dcall'.done <= dcall'.count /\ dcall'.done <= dcall'.size
          /\ dzero' = 0..dcall'.done - 1
      BY <2>2, <2>3, <2>4
    <3> QED BY <2>4, <3>1, <3>2 DEF ReadInv
  <2> QED BY <1>1, <1>2, <2>1, <2>5 DEF DevInv, DevStates, FileInv
<1>6. CASE ZeroFaults
  <2>1. /\ dpc = "read" /\ dpc' = "done" /\ dfile' = dfile /\ dcall.done + Bread > dcall.size
        /\ dzero' = dzero \cup dcall.done..dcall.size - 1 /\ dret' = -EFAULT /\ dcall' = dcall
    BY <1>6 DEF ZeroFaults
  <2>2. dcall.done \in Nat /\ dcall.size \in Nat /\ dcall.count \in Nat /\ ~ (dcall.count <= dcall.size)
    BY <1>4, <2>1
  <2>3. dzero' = 0..dcall.size - 1
    <3> DEFINE c == dcall.done
               z == dcall.size
    <3>1. dzero' = (0..c - 1) \cup (c..z - 1) /\ c \in Nat /\ z \in Nat /\ c <= z
      BY <1>4, <2>1
    <3> HIDE DEF c, z
    <3>2. dzero' = 0..z - 1
      BY <3>1
    <3> QED BY <3>2 DEF z
  <2>4. ReadInv'
    BY <1>4, <2>1, <2>2, <2>3 DEF ReadInv
  <2> QED BY <1>1, <1>2, <2>1, <2>4 DEF DevInv, DevStates, FileInv
<1>7. CASE ZeroReturns
  <2>1. /\ dpc = "read" /\ dpc' = "done" /\ dcall.done = dcall.count /\ dcall' = dcall
        /\ dfile' = [dfile EXCEPT !.pos = @ + dcall.count] /\ dret' = dcall.done /\ dzero' = dzero
    BY <1>7 DEF ZeroReturns
  <2>2. /\ dfile' \in [dev : Devs, gen : Nat, pos : Nat] /\ dfile'.dev = dfile.dev
        /\ dfile'.gen = dfile.gen /\ dfile'.pos = dcall.start + dcall.count
    BY <1>4, <2>1
  <2>3. ReadInv'
    BY <1>4, <2>1, <2>2 DEF ReadInv
  <2>4. FileInv'
    <3>1. dfile # NoDevFile
      BY <1>4, <2>1 DEF NoDevFile, Devs
    <3> QED BY <1>1, <1>2, <2>2, <3>1 DEF FileInv
  <2> QED BY <1>1, <1>2, <2>1, <2>3, <2>4 DEF DevInv, DevStates
<1>8. CASE UserTakes
  <2>1. dpc' = "user" /\ dcall' = NoCall /\ dzero' = {} /\ dfile' = dfile
    BY <1>8 DEF UserTakes
  <2> QED BY <1>1, <1>2, <2>1 DEF DevInv, DevStates, FileInv, ReadInv
<1> QED BY <1>3, <1>5, <1>6, <1>7, <1>8

\* Nothing the other programs do matters to the devices.
LEMMA DevStep ==
  ASSUME DevInv, [PNext]_progVars
  PROVE  DevInv'
<1>1. CASE DevNext
  BY <1>1, ModulesKeep, FilesKeep, ReadsKeep DEF DevNext
<1>2. CASE UNCHANGED devVars
  <2>1. /\ dloaded' = dloaded /\ dgen' = dgen /\ dreg' = dreg /\ dgone' = dgone /\ dfile' = dfile
        /\ dcall' = dcall /\ dzero' = dzero /\ dret' = dret /\ dpc' = dpc
    BY <1>2 DEF devVars
  <2> QED BY <2>1 DEF DevInv, DevStates, RegInv, FileInv, ReadInv
<1> QED BY <1>1, <1>2, DevStepIs

\* Only rmmod takes the code from behind a registered device, never while a file of it
\* is open, and a read of zero fills exactly what
\* was asked for or fails, for buffers, counts and positions of every size and modules
\* inserted any number of times.
THEOREM DevicesServeCalls == ProgramsSpec => []DeviceCalls
<1>1. ProgramsInit => DevInv
  BY DevBegins
<1>2. DevInv /\ [ProgramStep \/ OthersStep \/ Rest]_progVars => DevInv'
  BY DevStep DEF PNext
<1>3. DevInv => DeviceCalls
  <2> SUFFICES ASSUME DevInv PROVE DeviceCalls
    OBVIOUS
  <2>1. dfile # NoDevFile => Current(dfile)
    BY DEF DevInv, FileInv, Current
  <2>2. dzero \subseteq 0..dcall.count - 1
    <3>1. CASE dpc \in {"none", "user", "stale"}
      BY <3>1 DEF DevInv, ReadInv
    <3>2. CASE dpc \in {"read", "done"}
      <4>1. dcall.count \in Nat /\ dcall.done \in Nat /\ dcall.size \in Nat
        BY <3>2 DEF DevInv, ReadInv
      <4>2. \E k \in Nat : k <= dcall.count /\ dzero = 0..k - 1
        <5>1. CASE dpc = "read"
          BY <4>1, <5>1 DEF DevInv, ReadInv
        <5>2. CASE dpc = "done" /\ dcall.count <= dcall.size
          BY <4>1, <5>2 DEF DevInv, ReadInv
        <5>3. CASE dpc = "done" /\ ~ (dcall.count <= dcall.size)
          <6>1. dzero = 0..dcall.size - 1
            BY <5>3 DEF DevInv, ReadInv
          <6> QED BY <4>1, <5>3, <6>1
        <5> QED BY <3>2, <5>1, <5>2, <5>3
      <4> QED BY <4>1, <4>2
    <3> QED BY <3>1, <3>2 DEF DevInv, DevStates
  <2>3. dpc = "done" =>
          IF dcall.count <= dcall.size
          THEN dret = dcall.count /\ dzero = 0..dcall.count - 1
               /\ dfile.pos = dcall.start + dcall.count
          ELSE dret = -EFAULT /\ dzero = 0..dcall.size - 1 /\ dfile.pos = dcall.start
    BY DEF DevInv, ReadInv
  <2>4. /\ \A r \in dreg : r \notin dgone => Current(r)
        /\ dpc = "stale" => dreg \cap dgone # {}
    BY DEF DevInv, RegInv, Current
  <2> QED BY <2>1, <2>2, <2>3, <2>4 DEF DeviceCalls
<1> QED BY <1>1, <1>2, <1>3, PTL DEF ProgramsSpec
----------------------------------------------------------------------------
(* wc.                                                                     *)

WcBytes == {"word", "other", "nl", "high"}

\* The newlines and the starts of words in the first n bytes of s.
NlUpTo(s, n) == {k \in 1..n : s[k] = "nl"}
WordAt(s, k) == k >= 1 /\ s[k] = "word"
StartsUpTo(s, n) == {k \in 1..n : WordAt(s, k) /\ ~ WordAt(s, k - 1)}
NoHigh(s, n) == \A k \in 1..n : s[k] # "high"

\* A uint32_t counter that is right up to multiples of the word stays so.
LEMMA CountOn ==
  ASSUME NEW a \in Nat, NEW n \in Nat, NEW w \in Nat \ {0}
  PROVE  ((a % w) + n) % w = (a + n) % w /\ a % w \in Nat /\ 0 % w = 0
<1>1. /\ a \div w \in Nat /\ a % w \in 0..w - 1 /\ a = (a \div w) * w + (a % w)
      /\ 0 % w = 0
  BY SMT
<1> DEFINE q == a \div w
           r == a % w
<1>2. q \in Nat /\ r \in 0..w - 1 /\ a = q * w + r
  BY <1>1
<1> HIDE DEF q, r
<1> DEFINE x == r + n
           d == x \div w
           e == x % w
<1>3. x \in Nat /\ d \in Nat /\ e \in 0..w - 1 /\ x = d * w + e
  <2>1. x \in Nat
    BY <1>2
  <2> HIDE DEF x
  <2> QED BY <2>1, SMT
<1>4. a + n = q * w + x
  <2>1. q * w \in Nat
    BY <1>2, SMT
  <2> DEFINE v == q * w
  <2>2. v \in Nat /\ a = v + r
    BY <1>2, <2>1
  <2> HIDE DEF v
  <2>3. a + n = v + x
    BY <1>2, <2>2
  <2> QED BY <2>3 DEF v
<1> HIDE DEF x, d, e
<1>5. a + n = (q + d) * w + e
  BY <1>2, <1>3, <1>4, SMT
<1>6. (a + n) % w = e
  <2> DEFINE m == a + n
             j == m \div w
             g == m % w
             k == q + d
  <2>1. j \in Nat /\ g \in 0..w - 1 /\ m = j * w + g
    <3>1. m \in Nat
      OBVIOUS
    <3> HIDE DEF m
    <3> QED BY <3>1, SMT
  <2>2. k \in Nat /\ m = k * w + e
    BY <1>2, <1>3, <1>5
  <2> HIDE DEF m, j, g, k
  <2>3. j * w \in Nat /\ k * w \in Nat
    BY <2>1, <2>2, SMT
  <2>4. ASSUME j < k PROVE FALSE
    <3>1. (j + 1) * w <= k * w /\ (j + 1) * w = j * w + w
      BY <2>1, <2>2, <2>4, SMT
    <3> QED BY <1>3, <2>1, <2>2, <2>3, <3>1
  <2>5. ASSUME k < j PROVE FALSE
    <3>1. (k + 1) * w <= j * w /\ (k + 1) * w = k * w + w
      BY <2>1, <2>2, <2>5, SMT
    <3> QED BY <1>3, <2>1, <2>2, <2>3, <3>1
  <2>6. j = k
    BY <2>1, <2>2, <2>4, <2>5
  <2>7. g = e
    BY <1>3, <2>1, <2>2, <2>3, <2>6
  <2> QED BY <2>7 DEF g, m
<1> QED BY <1>1, <1>6 DEF e, x, r

\* One more byte.
LEMMA OneMoreByte ==
  ASSUME NEW s, NEW n \in Nat
  PROVE  /\ Cardinality(NlUpTo(s, n)) \in Nat
         /\ Cardinality(NlUpTo(s, n + 1)) =
              IF s[n + 1] = "nl" THEN Cardinality(NlUpTo(s, n)) + 1 ELSE Cardinality(NlUpTo(s, n))
         /\ (NlUpTo(s, n + 1) # {}) <=> (NlUpTo(s, n) # {} \/ s[n + 1] = "nl")
         /\ Cardinality(StartsUpTo(s, n)) \in Nat
         /\ Cardinality(StartsUpTo(s, n + 1)) =
              IF WordAt(s, n + 1) /\ ~ WordAt(s, n)
              THEN Cardinality(StartsUpTo(s, n)) + 1 ELSE Cardinality(StartsUpTo(s, n))
<1> DEFINE A == NlUpTo(s, n)
           B == StartsUpTo(s, n)
<1>1. IsFiniteSet(1..n)
  BY FS_Interval
<1>2. A \subseteq 1..n /\ B \subseteq 1..n
  BY DEF NlUpTo, StartsUpTo
<1>3. IsFiniteSet(A) /\ IsFiniteSet(B)
  BY <1>1, <1>2, FS_Subset
<1>4. n + 1 \notin A /\ n + 1 \notin B
  BY <1>2
<1>5. 1..n + 1 = (1..n) \cup {n + 1}
  OBVIOUS
<1>6. NlUpTo(s, n + 1) = IF s[n + 1] = "nl" THEN A \cup {n + 1} ELSE A
  BY <1>5 DEF NlUpTo
<1>7. StartsUpTo(s, n + 1) = IF WordAt(s, n + 1) /\ ~ WordAt(s, n) THEN B \cup {n + 1} ELSE B
  <2>1. (n + 1) - 1 = n
    OBVIOUS
  <2> QED BY <1>5, <2>1 DEF StartsUpTo
<1> HIDE DEF A, B
<1>8. /\ Cardinality(A) \in Nat /\ Cardinality(A \cup {n + 1}) = Cardinality(A) + 1
      /\ Cardinality(B) \in Nat /\ Cardinality(B \cup {n + 1}) = Cardinality(B) + 1
  BY <1>3, <1>4, FS_AddElement, FS_CardinalityType
<1> QED BY <1>6, <1>7, <1>8 DEF A, B

\* Bytes that follow do not change what came before.
LEMMA SamePrefix ==
  ASSUME NEW s, NEW t, NEW n \in Nat, \A k \in 1..n : t[k] = s[k]
  PROVE  /\ NlUpTo(t, n) = NlUpTo(s, n) /\ StartsUpTo(t, n) = StartsUpTo(s, n)
         /\ NoHigh(t, n) <=> NoHigh(s, n)
         /\ WordAt(t, n) <=> WordAt(s, n)
<1>1. NlUpTo(t, n) = NlUpTo(s, n) /\ (NoHigh(t, n) <=> NoHigh(s, n))
  BY DEF NlUpTo, NoHigh
<1>2. \A k \in 1..n : WordAt(t, k) <=> WordAt(s, k)
  BY DEF WordAt
<1>3. \A k \in 1..n : WordAt(t, k - 1) <=> WordAt(s, k - 1)
  <2> SUFFICES ASSUME NEW k \in 1..n PROVE WordAt(t, k - 1) <=> WordAt(s, k - 1)
    OBVIOUS
  <2>1. CASE k = 1
    BY <2>1 DEF WordAt
  <2>2. CASE k # 1
    <3>1. k - 1 \in 1..n
      BY <2>2
    <3> QED BY <1>2, <3>1
  <2> QED BY <2>1, <2>2
<1>4. StartsUpTo(t, n) = StartsUpTo(s, n)
  BY <1>2, <1>3 DEF StartsUpTo
<1>5. WordAt(t, n) <=> WordAt(s, n)
  <2>1. CASE n = 0
    BY <2>1 DEF WordAt
  <2>2. CASE n # 0
    BY <1>2, <2>2
  <2> QED BY <2>1, <2>2
<1> QED BY <1>1, <1>4, <1>5

WcTypes ==
  /\ wleft \in Seq(WcBytes) /\ wpool \in Seq(WcBytes) /\ wread \in Seq(WcBytes)
  /\ nbyte \in Nat /\ nword \in Nat /\ nline \in Nat /\ white \in BOOLEAN /\ wend \in BOOLEAN
  /\ wpc \in {"none", "open", "first", "next", "count", "report", "exit0", "exit1"}

\* Looked counts the bytes looked at; the rest of what was read is in the pool.
Looked == Len(wread) - Len(wpool)
PoolInv ==
  /\ Len(wpool) <= Len(wread) /\ \A k \in 1..Len(wpool) : wpool[k] = wread[Looked + k]
  /\ wpc # "count" => wpool = <<>>
  /\ wpc \in {"open", "first"} => wread = <<>>
  /\ wpc \in {"count", "next"} => wread # <<>>

\* The counters agree with the bytes looked at.
TallyInv ==
  /\ nbyte = Len(wread) % WcWord
  /\ NoHigh(wread, Looked) => /\ nword = Cardinality(StartsUpTo(wread, Looked)) % WcWord
                              /\ white = ~ WordAt(wread, Looked)
  /\ wpc # "exit0" => nline = Cardinality(NlUpTo(wread, Looked)) % WcWord
  /\ wpc \in {"open", "first", "count", "next"} => (wend <=> NlUpTo(wread, Looked) # {})
  /\ wpc = "report" => (wend <=> (NlUpTo(wread, Looked) # {} \/ wread = <<>>))
  /\ wpc = "exit0" =>
       nline = (IF NlUpTo(wread, Looked) = {} /\ wread # <<>>
                THEN 1 ELSE Cardinality(NlUpTo(wread, Looked))) % WcWord

WcInv == WcTypes /\ PoolInv /\ TallyInv

\* The empty stream.
LEMMA EmptyBytes == <<>> \in Seq(WcBytes)
OBVIOUS

\* The bytes of two pieces.
LEMMA JoinedBytes ==
  ASSUME NEW a \in Seq(WcBytes), NEW b \in Seq(WcBytes), NEW n, n = Len(b), NEW q, q = a \o b
  PROVE  /\ q \in Seq(WcBytes) /\ Len(q) = Len(a) + n /\ Len(a) \in Nat
         /\ \A k \in 1..Len(a) : q[k] = a[k]
         /\ \A k \in 1..n : q[Len(a) + k] = b[k]
<1>1. /\ q \in Seq(WcBytes) /\ Len(q) = Len(a) + Len(b) /\ Len(a) \in Nat /\ Len(b) \in Nat
      /\ \A k \in 1..Len(a) + Len(b) : q[k] = IF k <= Len(a) THEN a[k] ELSE b[k - Len(a)]
  OBVIOUS
<1>2. ASSUME NEW k \in 1..Len(b) PROVE q[Len(a) + k] = b[k]
  <2>1. Len(a) + k \in 1..Len(a) + Len(b) /\ ~ (Len(a) + k <= Len(a)) /\ (Len(a) + k) - Len(a) = k
    BY <1>1
  <2> QED BY <1>1, <2>1
<1> QED BY <1>1, <1>2

\* A step of the composition, seen by wc.
LEMMA WcStepIs ==
  ASSUME [PNext]_progVars
  PROVE  [WcNext]_wcVars
BY DEF PNext, ProgramStep, OthersStep, Rest, progVars, NotEval, NotWc, NotMkdir, NotUtil,
   NotDev, NotLoader, NotGettext

\* wc begins with nothing counted.
LEMMA WcBegins == ProgramsInit => WcInv
<1> SUFFICES ASSUME ProgramsInit PROVE WcInv
  OBVIOUS
<1>1. WcInit \/ WcIdle
  BY DEF ProgramsInit
<1>2. /\ wleft \in Seq(WcBytes) /\ wpool = <<>> /\ wread = <<>> /\ nbyte = 0 /\ nword = 0
      /\ nline = 0 /\ white = TRUE /\ wend = FALSE /\ wpc \in {"open", "none"}
  <2>1. CASE WcInit
    BY <2>1, WcAssumption DEF WcInit, WcBytes
  <2>2. CASE WcIdle
    BY <2>2, EmptyBytes DEF WcIdle
  <2> QED BY <1>1, <2>1, <2>2
<1>3. Looked = 0 /\ Len(wread) = 0 /\ Len(wpool) = 0
  BY <1>2 DEF Looked
<1>4. NlUpTo(wread, 0) = {} /\ StartsUpTo(wread, 0) = {} /\ ~ WordAt(wread, 0)
  BY DEF NlUpTo, StartsUpTo, WordAt
<1>5. Cardinality({}) = 0
  BY FS_EmptySet
<1>6. WcTypes
  BY <1>2, EmptyBytes DEF WcTypes
<1>7. PoolInv
  BY <1>2, <1>3 DEF PoolInv
<1>8. TallyInv
  <2>1. 0 % WcWord = 0
    BY WcAssumption, CountOn
  <2> QED BY <1>2, <1>3, <1>4, <1>5, <2>1 DEF TallyInv
<1> QED BY <1>6, <1>7, <1>8 DEF WcInv

\* A read adds to what was read; nothing new has been looked at.
LEMMA ReadKeeps ==
  ASSUME WcInv, NEW n \in 1..WcPool, WcRead(n)
  PROVE  WcInv'
<1>1. WcTypes /\ PoolInv /\ TallyInv
  BY DEF WcInv
<1>2. /\ wpc \in {"first", "next"} /\ n <= Len(wleft) /\ wpool' = SubSeq(wleft, 1, n)
      /\ wleft' = SubSeq(wleft, n + 1, Len(wleft)) /\ wread' = wread \o wpool'
      /\ nbyte' = (nbyte + n) % WcWord /\ wpc' = "count" /\ nword' = nword /\ nline' = nline
      /\ white' = white /\ wend' = wend
  BY DEF WcRead
<1>3. n \in Nat /\ n >= 1
  BY WcAssumption
<1>4. wpool' \in Seq(WcBytes) /\ Len(wpool') = n /\ wleft' \in Seq(WcBytes)
  <2>1. wleft \in Seq(WcBytes)
    BY <1>1 DEF WcTypes
  <2> QED BY <1>2, <1>3, <2>1
<1>5. /\ wread' \in Seq(WcBytes) /\ Len(wread') = Len(wread) + n /\ Len(wread) \in Nat
      /\ \A k \in 1..Len(wread) : wread'[k] = wread[k]
      /\ \A k \in 1..n : wread'[Len(wread) + k] = wpool'[k]
  <2> DEFINE p == wpool'
             q == wread'
  <2>1. wread \in Seq(WcBytes) /\ p \in Seq(WcBytes) /\ q = wread \o p /\ n = Len(p)
    BY <1>1, <1>2, <1>4 DEF WcTypes
  <2> HIDE DEF p, q
  <2>2. /\ q \in Seq(WcBytes) /\ Len(q) = Len(wread) + n /\ Len(wread) \in Nat
        /\ \A k \in 1..Len(wread) : q[k] = wread[k]
        /\ \A k \in 1..n : q[Len(wread) + k] = p[k]
    BY <2>1, JoinedBytes
  <2> QED BY <2>2 DEF p, q
<1>6. wpool = <<>> /\ Looked = Len(wread) /\ Looked' = Len(wread)
  <2>1. wpool = <<>> /\ Len(wpool) = 0
    BY <1>1, <1>2 DEF PoolInv
  <2> QED BY <1>3, <1>4, <1>5, <2>1 DEF Looked
<1>7. WcTypes'
  <2>1. nbyte + n \in Nat /\ WcWord \in Nat \ {0}
    BY <1>1, <1>3, WcAssumption DEF WcTypes
  <2>2. nbyte' \in Nat
    BY <1>2, <2>1, CountOn
  <2> QED BY <1>1, <1>2, <1>4, <1>5, <2>2 DEF WcTypes
<1>8. PoolInv'
  <2>1. wread' # <<>>
    BY <1>3, <1>5
  <2>2. Len(wpool') <= Len(wread') /\ Len(wpool') = n
    BY <1>3, <1>4, <1>5
  <2>3. \A k \in 1..Len(wpool') : wpool'[k] = wread'[Looked' + k]
    BY <1>5, <1>6, <2>2
  <2> QED BY <1>2, <2>1, <2>2, <2>3 DEF PoolInv
<1>9. TallyInv'
  <2> DEFINE l == Len(wread)
  <2>1. /\ NlUpTo(wread', l) = NlUpTo(wread, l) /\ StartsUpTo(wread', l) = StartsUpTo(wread, l)
        /\ NoHigh(wread', l) <=> NoHigh(wread, l)
        /\ WordAt(wread', l) <=> WordAt(wread, l)
    BY <1>5, SamePrefix
  <2>2. nbyte' = Len(wread') % WcWord
    <3>1. nbyte = l % WcWord /\ l \in Nat /\ Len(wread') = l + n
      BY <1>1, <1>5 DEF TallyInv
    <3> HIDE DEF l
    <3>2. ((l % WcWord) + n) % WcWord = (l + n) % WcWord
      BY <1>3, <3>1, WcAssumption, CountOn
    <3> QED BY <1>2, <3>1, <3>2
  <2> HIDE DEF l
  <2>3. Looked = l /\ Looked' = l
    BY <1>6 DEF l
  <2> QED BY <1>1, <1>2, <2>1, <2>2, <2>3 DEF TallyInv
<1> QED BY <1>7, <1>8, <1>9 DEF WcInv
\* One byte is looked at.
LEMMA ByteKeeps ==
  ASSUME WcInv, WcByte
  PROVE  WcInv'
<1>1. WcTypes /\ PoolInv /\ TallyInv
  BY DEF WcInv
<1> DEFINE l == Looked
           c == Head(wpool)
<1>2. /\ wpc = "count" /\ wpool # <<>> /\ wpool' = Tail(wpool) /\ wleft' = wleft /\ wread' = wread
      /\ nbyte' = nbyte /\ wpc' = wpc
      /\ nline' = (IF c = "nl" THEN (nline + 1) % WcWord ELSE nline) /\ wend' = (wend \/ c = "nl")
  BY DEF WcByte
<1>3. PICK mark \in BOOLEAN : /\ c # "high" => mark = (c = "word")
                              /\ nword' = IF white /\ mark THEN (nword + 1) % WcWord ELSE nword
                              /\ white' = ~ mark
  BY DEF WcByte
<1>4. /\ Len(wpool) \in Nat /\ Len(wpool) >= 1 /\ Len(wread) \in Nat /\ Len(wpool) <= Len(wread)
      /\ wpool' \in Seq(WcBytes) /\ Len(wpool') = Len(wpool) - 1 /\ c = wpool[1]
      /\ \A k \in 1..Len(wpool') : wpool'[k] = wpool[k + 1]
  <2>1. wpool \in Seq(WcBytes) /\ wread \in Seq(WcBytes) /\ Len(wpool) <= Len(wread)
    BY <1>1 DEF WcTypes, PoolInv
  <2> QED BY <1>2, <2>1
<1>5. l \in Nat /\ l + 1 <= Len(wread) /\ Looked' = l + 1
  BY <1>2, <1>4 DEF Looked
<1>6. c = wread[l + 1]
  <2>1. 1 \in 1..Len(wpool)
    BY <1>4
  <2> QED BY <1>1, <1>4, <2>1 DEF PoolInv
<1>7. WcTypes'
  <2>1. nword \in Nat /\ nline \in Nat /\ nword + 1 \in Nat /\ nline + 1 \in Nat
    BY <1>1 DEF WcTypes
  <2>2. (nword + 1) % WcWord \in Nat /\ (nline + 1) % WcWord \in Nat
    BY <2>1, WcAssumption, CountOn
  <2>3. nword' \in Nat /\ nline' \in Nat
    BY <1>2, <1>3, <2>1, <2>2
  <2>4. white' \in BOOLEAN /\ wend' \in BOOLEAN
    BY <1>1, <1>2, <1>3 DEF WcTypes
  <2> QED BY <1>1, <1>2, <1>4, <2>3, <2>4 DEF WcTypes
<1>8. PoolInv'
  <2>1. ASSUME NEW k \in 1..Len(wpool') PROVE wpool'[k] = wread'[Looked' + k]
    <3>1. k + 1 \in 1..Len(wpool) /\ Looked' + k = l + (k + 1)
      BY <1>4, <1>5
    <3>2. wpool[k + 1] = wread[l + (k + 1)]
      BY <1>1, <3>1 DEF PoolInv
    <3> QED BY <1>2, <1>4, <3>1, <3>2
  <2>2. Len(wpool') <= Len(wread') /\ wread' # <<>>
    BY <1>1, <1>2, <1>4 DEF PoolInv
  <2> QED BY <1>2, <2>1, <2>2 DEF PoolInv
<1> HIDE DEF l, c
<1>9. TallyInv'
  <2>1. /\ nbyte = Len(wread) % WcWord
        /\ NoHigh(wread, l) => /\ nword = Cardinality(StartsUpTo(wread, l)) % WcWord
                               /\ white = ~ WordAt(wread, l)
        /\ nline = Cardinality(NlUpTo(wread, l)) % WcWord /\ (wend <=> NlUpTo(wread, l) # {})
    BY <1>1, <1>2 DEF TallyInv, l
  <2>2. /\ Cardinality(NlUpTo(wread, l)) \in Nat
        /\ Cardinality(NlUpTo(wread, l + 1)) =
             IF wread[l + 1] = "nl" THEN Cardinality(NlUpTo(wread, l)) + 1
             ELSE Cardinality(NlUpTo(wread, l))
        /\ (NlUpTo(wread, l + 1) # {}) <=> (NlUpTo(wread, l) # {} \/ wread[l + 1] = "nl")
        /\ Cardinality(StartsUpTo(wread, l)) \in Nat
        /\ Cardinality(StartsUpTo(wread, l + 1)) =
             IF WordAt(wread, l + 1) /\ ~ WordAt(wread, l)
             THEN Cardinality(StartsUpTo(wread, l)) + 1 ELSE Cardinality(StartsUpTo(wread, l))
    BY <1>5, OneMoreByte
  <2> DEFINE A == Cardinality(NlUpTo(wread, l))
             B == Cardinality(StartsUpTo(wread, l))
  <2>5. ((A % WcWord) + 1) % WcWord = (A + 1) % WcWord /\ ((B % WcWord) + 1) % WcWord = (B + 1) % WcWord
    <3>1. A \in Nat /\ B \in Nat /\ WcWord \in Nat \ {0} /\ 1 \in Nat
      BY <2>2, WcAssumption
    <3> HIDE DEF A, B
    <3> QED BY <3>1, CountOn
  <2>3. nline' = Cardinality(NlUpTo(wread, l + 1)) % WcWord /\ (wend' <=> NlUpTo(wread, l + 1) # {})
    <3>1. CASE c = "nl"
      BY <1>2, <1>6, <2>1, <2>2, <2>5, <3>1
    <3>2. CASE c # "nl"
      BY <1>2, <1>6, <2>1, <2>2, <3>2
    <3> QED BY <3>1, <3>2
  <2>4. ASSUME NoHigh(wread, l + 1)
        PROVE  nword' = Cardinality(StartsUpTo(wread, l + 1)) % WcWord /\ white' = ~ WordAt(wread, l + 1)
    <3>1. l + 1 \in 1..l + 1 /\ l + 1 >= 1 /\ \A k \in 1..l : k \in 1..l + 1
      BY <1>5
    <3>2. NoHigh(wread, l) /\ wread[l + 1] # "high"
      BY <2>4, <3>1 DEF NoHigh
    <3>3. mark = WordAt(wread, l + 1)
      BY <1>3, <1>6, <3>1, <3>2 DEF WordAt
    <3>4. white = ~ WordAt(wread, l)
      BY <2>1, <3>2
    <3>5. CASE mark
      BY <1>3, <2>1, <2>2, <2>5, <3>2, <3>3, <3>4, <3>5
    <3>6. CASE ~ mark
      BY <1>3, <2>1, <2>2, <3>2, <3>3, <3>4, <3>6
    <3> QED BY <3>5, <3>6
  <2> QED BY <1>2, <1>5, <2>1, <2>3, <2>4 DEF TallyInv
<1> QED BY <1>7, <1>8, <1>9 DEF WcInv

\* The steps that look at no byte.
LEMMA RestKeeps ==
  ASSUME WcInv, WcOpen \/ WcReadFails \/ WcReadEof \/ WcPoolDone \/ WcReport
  PROVE  WcInv'
<1>1. WcTypes /\ PoolInv /\ TallyInv
  BY DEF WcInv
<1>2. /\ wleft' = wleft /\ wpool' = wpool /\ wread' = wread /\ nbyte' = nbyte /\ nword' = nword
      /\ white' = white
  BY DEF WcOpen, WcReadFails, WcReadEof, WcPoolDone, WcReport
<1>3. Looked' = Looked
  BY <1>2 DEF Looked
<1>4. \/ wpc = "open" /\ wpc' = "first" /\ wend' = wend /\ nline' = nline
      \/ wpc \in {"open", "first"} /\ wpc' = "exit1" /\ wend' = wend /\ nline' = nline
      \/ wpc = "next" /\ wpc' = "report" /\ wend' = wend /\ nline' = nline
      \/ wpc = "first" /\ wpc' = "report" /\ wend' = TRUE /\ nline' = nline
      \/ wpc = "count" /\ wpool = <<>> /\ wpc' = "next" /\ wend' = wend /\ nline' = nline
      \/ wpc = "report" /\ wpc' = "exit0" /\ wend' = wend
         /\ nline' = IF wend THEN nline ELSE (nline + 1) % WcWord
  <2>1. wend \in BOOLEAN
    BY <1>1 DEF WcTypes
  <2>2. CASE WcOpen
    BY <2>2 DEF WcOpen
  <2>3. CASE WcReadFails
    BY <2>3 DEF WcReadFails
  <2>4. CASE WcReadEof
    BY <2>1, <2>4 DEF WcReadEof
  <2>5. CASE WcPoolDone
    BY <2>5 DEF WcPoolDone
  <2>6. CASE WcReport
    BY <2>6 DEF WcReport
  <2> QED BY <2>2, <2>3, <2>4, <2>5, <2>6
<1>5. WcTypes'
  <2>1. nline \in Nat /\ wend \in BOOLEAN
    BY <1>1 DEF WcTypes
  <2>2. nline' \in {nline, (nline + 1) % WcWord} /\ wend' \in {wend, TRUE}
    BY <1>4
  <2>3. nline' \in Nat
    <3>1. nline + 1 \in Nat /\ WcWord \in Nat \ {0}
      BY <2>1, WcAssumption
    <3>2. (nline + 1) % WcWord \in Nat
      BY <3>1, CountOn
    <3> QED BY <2>1, <2>2, <3>2
  <2>4. wend' \in BOOLEAN
    BY <2>1, <2>2
  <2>5. wpc' \in {"first", "exit1", "report", "next", "exit0"}
    BY <1>4
  <2> QED BY <1>1, <1>2, <2>3, <2>4, <2>5 DEF WcTypes
<1>6. PoolInv'
  <2>1. wpc' # "count" /\ wpool = <<>>
    BY <1>1, <1>4 DEF PoolInv
  <2>2. (wpc' = "first" => wread = <<>>) /\ (wpc' = "next" => wread # <<>>) /\ wpc' # "open"
    BY <1>1, <1>4 DEF PoolInv
  <2> QED BY <1>1, <1>2, <1>3, <2>1, <2>2 DEF PoolInv
<1>7. TallyInv'
  <2> DEFINE E == NlUpTo(wread, Looked)
  <2>1. wpc = "first" => wread = <<>>
    BY <1>1 DEF PoolInv
  <2>2. wpc = "next" => wread # <<>>
    BY <1>1 DEF PoolInv
  <2>3. /\ wpc # "exit0" => nline = Cardinality(E) % WcWord
        /\ wpc \in {"open", "first", "count", "next"} => (wend <=> E # {})
        /\ wpc = "report" => (wend <=> (E # {} \/ wread = <<>>))
    BY <1>1 DEF TallyInv
  <2>4. Cardinality({}) = 0
    BY FS_EmptySet
  <2> HIDE DEF E
  <2>5. /\ wpc' # "exit0" => nline' = Cardinality(E) % WcWord
        /\ wpc' \in {"open", "first", "count", "next"} => (wend' <=> E # {})
        /\ wpc' = "report" => (wend' <=> (E # {} \/ wread = <<>>))
    BY <1>4, <2>1, <2>2, <2>3
  <2>6. wpc' = "exit0" => nline' = (IF E = {} /\ wread # <<>> THEN 1 ELSE Cardinality(E)) % WcWord
    <3> SUFFICES ASSUME wpc' = "exit0"
                 PROVE  nline' = (IF E = {} /\ wread # <<>> THEN 1 ELSE Cardinality(E)) % WcWord
      OBVIOUS
    <3>1. wpc = "report" /\ nline' = IF wend THEN nline ELSE (nline + 1) % WcWord
      BY <1>4
    <3>2. nline = Cardinality(E) % WcWord /\ (wend <=> (E # {} \/ wread = <<>>))
      BY <2>3, <3>1
    <3>3. CASE wend
      BY <3>1, <3>2, <3>3
    <3>4. CASE ~ wend
      <4>1. E = {} /\ wread # <<>> /\ nline = 0
        <5>1. 0 % WcWord = 0
          BY WcAssumption, CountOn
        <5> QED BY <2>4, <3>2, <3>4, <5>1
      <4>2. nline' = 1 % WcWord
        BY <3>1, <3>4, <4>1
      <4> QED BY <4>1, <4>2
    <3> QED BY <3>3, <3>4
  <2>7. NlUpTo(wread', Looked') = E
    BY <1>2, <1>3 DEF E
  <2>8. /\ nbyte' = Len(wread') % WcWord
        /\ NoHigh(wread', Looked') => /\ nword' = Cardinality(StartsUpTo(wread', Looked')) % WcWord
                                      /\ white' = ~ WordAt(wread', Looked')
    BY <1>1, <1>2, <1>3 DEF TallyInv
  <2> QED BY <1>2, <2>5, <2>6, <2>7, <2>8 DEF TallyInv
<1> QED BY <1>5, <1>6, <1>7 DEF WcInv

\* Nothing the other programs do matters to wc.
LEMMA WcStep ==
  ASSUME WcInv, [PNext]_progVars
  PROVE  WcInv'
<1>1. CASE WcNext
  BY <1>1, ReadKeeps, ByteKeeps, RestKeeps DEF WcNext
<1>2. CASE UNCHANGED wcVars
  <2>1. /\ wleft' = wleft /\ wpool' = wpool /\ wread' = wread /\ nbyte' = nbyte /\ nword' = nword
        /\ nline' = nline /\ white' = white /\ wend' = wend /\ wpc' = wpc
    BY <1>2 DEF wcVars
  <2>2. Looked' = Looked
    BY <2>1 DEF Looked
  <2>3. WcTypes' /\ PoolInv'
    BY <2>1, <2>2 DEF WcInv, WcTypes, PoolInv
  <2>4. TallyInv'
    BY <2>1, <2>2 DEF WcInv, TallyInv
  <2> QED BY <2>3, <2>4 DEF WcInv
<1> QED BY <1>1, <1>2, WcStepIs

\* wc counts bytes, words and lines of streams of every length, up to multiples of the
\* range of its counters, however reads cut them.
THEOREM WcCountsStream == ProgramsSpec => []WcCounts
<1>1. ProgramsInit => WcInv
  BY WcBegins
<1>2. WcInv /\ [ProgramStep \/ OthersStep \/ Rest]_progVars => WcInv'
  BY WcStep DEF PNext
<1>3. WcInv => WcCounts
  <2> SUFFICES ASSUME WcInv, wpc = "exit0"
               PROVE  /\ nbyte = Len(wread) % WcWord
                      /\ (\A k \in DOMAIN wread : wread[k] # "high") => nword = WordStarts % WcWord
                      /\ nline = (IF Cardinality({k \in DOMAIN wread : wread[k] = "nl"}) = 0
                                     /\ wread # <<>>
                                  THEN 1 ELSE Cardinality({k \in DOMAIN wread : wread[k] = "nl"}))
                                 % WcWord
    BY DEF WcCounts
  <2> DEFINE l == Len(wread)
  <2>1. l \in Nat /\ DOMAIN wread = 1..l
    BY DEF WcInv, WcTypes
  <2>2. Looked = l
    <3>1. Len(wpool) = 0
      BY DEF WcInv, PoolInv
    <3> QED BY <2>1, <3>1 DEF Looked
  <2>3. {k \in DOMAIN wread : wread[k] = "nl"} = NlUpTo(wread, l)
    BY <2>1 DEF NlUpTo
  <2>4. {k \in DOMAIN wread : IsWord(k) /\ ~ IsWord(k - 1)} = StartsUpTo(wread, l)
    <3>1. \A k \in DOMAIN wread : /\ IsWord(k) <=> WordAt(wread, k)
                                  /\ IsWord(k - 1) <=> WordAt(wread, k - 1)
      <4> SUFFICES ASSUME NEW k \in 1..l
                   PROVE  /\ IsWord(k) <=> WordAt(wread, k)
                          /\ IsWord(k - 1) <=> WordAt(wread, k - 1)
        BY <2>1
      <4>1. k \in DOMAIN wread /\ k >= 1 /\ (k - 1 \in DOMAIN wread <=> k - 1 >= 1)
        BY <2>1
      <4> QED BY <4>1 DEF IsWord, WordAt
    <3> QED BY <2>1, <3>1 DEF StartsUpTo
  <2>5. (\A k \in DOMAIN wread : wread[k] # "high") => NoHigh(wread, l)
    BY <2>1 DEF NoHigh
  <2>6. NlUpTo(wread, l) = {} <=> Cardinality(NlUpTo(wread, l)) = 0
    <3>1. NlUpTo(wread, l) \subseteq 1..l /\ IsFiniteSet(1..l)
      BY <2>1, FS_Interval DEF NlUpTo
    <3>2. IsFiniteSet(NlUpTo(wread, l))
      BY <3>1, FS_Subset
    <3> QED BY <3>2, FS_EmptySet
  <2>7. /\ nbyte = l % WcWord
        /\ NoHigh(wread, l) => nword = Cardinality(StartsUpTo(wread, l)) % WcWord
        /\ nline = (IF NlUpTo(wread, l) = {} /\ wread # <<>>
                    THEN 1 ELSE Cardinality(NlUpTo(wread, l))) % WcWord
    BY <2>2 DEF WcInv, TallyInv
  <2>8. WordStarts = Cardinality(StartsUpTo(wread, l))
    BY <2>4 DEF WordStarts
  <2> HIDE DEF l
  <2>9. /\ (\A k \in DOMAIN wread : wread[k] # "high") => nword = WordStarts % WcWord
        /\ nline = (IF Cardinality({k \in DOMAIN wread : wread[k] = "nl"}) = 0 /\ wread # <<>>
                    THEN 1 ELSE Cardinality({k \in DOMAIN wread : wread[k] = "nl"})) % WcWord
    BY <2>3, <2>5, <2>6, <2>7, <2>8
  <2> QED BY <2>7, <2>9 DEF l
<1> QED BY <1>1, <1>2, <1>3, PTL DEF ProgramsSpec
----------------------------------------------------------------------------
(* The loader of vmlinux.c.                                                *)

PhdrRec == [type : Nat, exec : BOOLEAN, off : Nat, paddr : Nat, filesz : Nat, memsz : Nat]
Elfs == [class : {32, 64}, size : Nat, phoff : Nat, phdrs : Seq(PhdrRec)]

\* The loaded headers in front of the n-th whose segments hold a.
Over(a, n) ==
  {i \in 1..n - 1 : /\ i \in DOMAIN kfile.phdrs /\ LoadedType(kfile.phdrs[i].type)
                    /\ a \in SegmentRange(kfile.phdrs[i])}

\* a is as the headers in front of the n-th want it, where they do not overlap.
AsLinked(a, n) ==
  /\ Over(a, n) = {} => kmem[a] = Untouched
  /\ \A i \in Over(a, n) : Over(a, n) = {i} => kmem[a] = Linked(kfile.phdrs[i], a)

LoaderTypes ==
  /\ kfile \in Elfs
  /\ ki \in 1..Len(kfile.phdrs) + 1
  /\ kpc \in {"none", "header", "read", "kernel"}
  /\ kpc = "read" => ki \in DOMAIN kfile.phdrs
  /\ kpc = "kernel" => ki = Len(kfile.phdrs) + 1

AllSound == \A i \in DOMAIN kfile.phdrs : Sound(kfile, i)

\* The n bytes of the segment read so far are in place.
Placed(p) == \A a \in ElfMemory : a \in p.paddr..kdst - 1 => kmem[a] = p.off + (a - p.paddr)

Phdr == kfile.phdrs[ki]
SegmentInv ==
  kpc = "read" =>
    /\ LoadedType(Phdr.type)
    /\ kseg.paddr = Phdr.paddr /\ kseg.filesz = Phdr.filesz /\ kseg.memsz = Phdr.memsz
    /\ kfoff \in Nat /\ kleft \in Nat /\ kdst \in Nat /\ kdst >= Phdr.paddr
    /\ kdst + kleft = Phdr.paddr + Phdr.filesz /\ kfoff - Phdr.off = kdst - Phdr.paddr
    /\ Placed(Phdr)

MemoryInv ==
  \A a \in ElfMemory \ SectorBuffer :
    (kpc = "read" /\ a \in SegmentRange(Phdr)) \/ AsLinked(a, ki)

LoaderInv == LoaderTypes /\ (AllSound => SegmentInv /\ MemoryInv)

\* A step of the composition, seen by the loader.
LEMMA LoaderStepIs ==
  ASSUME [PNext]_progVars
  PROVE  [LoaderNext]_kernelVars
BY DEF PNext, ProgramStep, OthersStep, Rest, progVars, NotEval, NotWc, NotMkdir, NotUtil,
   NotDev, NotLoader, NotGettext

\* No header has been looked at, and memory is untouched.
LEMMA LoaderBegins == ProgramsInit => LoaderInv
<1> SUFFICES ASSUME ProgramsInit PROVE LoaderInv
  OBVIOUS
<1>1. LoaderInit \/ LoaderIdle
  BY DEF ProgramsInit
<1>2. kfile \in Elfs
  <2>1. CASE LoaderInit
    <3>1. kfile \in ElfKernels
      BY <2>1 DEF LoaderInit
    <3> QED BY <3>1, ElfAssumption DEF Elfs, PhdrRec
  <2>2. CASE LoaderIdle
    <3>1. kfile = NoElf
      BY <2>2 DEF LoaderIdle
    <3>2. <<>> \in Seq(PhdrRec)
      OBVIOUS
    <3>3. NoElf \in Elfs
      BY <3>2 DEF NoElf, Elfs
    <3> QED BY <3>1, <3>2, <3>3
  <2> QED BY <1>1, <2>1, <2>2
<1>3. ki = 1 /\ kmem = [a \in ElfMemory |-> Untouched] /\ kpc \in {"header", "none"}
  BY <1>1 DEF LoaderInit, LoaderIdle
<1>4. LoaderTypes
  <2>1. Len(kfile.phdrs) \in Nat
    BY <1>2 DEF Elfs
  <2> QED BY <1>2, <1>3, <2>1 DEF LoaderTypes
<1>5. \A a \in ElfMemory : Over(a, 1) = {}
  BY DEF Over
<1> QED BY <1>3, <1>4, <1>5 DEF LoaderInv, SegmentInv, MemoryInv, AsLinked

\* Passing over a header adds it to those in front, if it is loaded and holds a.
LEMMA OneMoreHeader ==
  ASSUME NEW a, LoaderTypes, ki \in DOMAIN kfile.phdrs
  PROVE  Over(a, ki + 1) = Over(a, ki) \cup
           IF LoadedType(Phdr.type) /\ a \in SegmentRange(Phdr) THEN {ki} ELSE {}
<1>1. ki \in Nat /\ ki >= 1
  <2>1. Len(kfile.phdrs) \in Nat
    BY DEF LoaderTypes, Elfs
  <2> QED BY <2>1 DEF LoaderTypes
<1>2. 1..(ki + 1) - 1 = (1..ki - 1) \cup {ki}
  BY <1>1
<1> QED BY <1>2 DEF Over, Phdr

\* The types of a header.
LEMMA HeaderTypes ==
  ASSUME LoaderTypes, AllSound, NEW i \in DOMAIN kfile.phdrs, NEW p, p = kfile.phdrs[i],
         LoadedType(p.type)
  PROVE  /\ p.off \in Nat /\ p.paddr \in Nat /\ p.filesz \in Nat /\ p.memsz \in Nat
         /\ p.filesz <= p.memsz /\ \A a \in SegmentRange(p) : a \notin SectorBuffer
<1>1. kfile.phdrs \in Seq(PhdrRec)
  BY DEF LoaderTypes, Elfs
<1>2. p \in PhdrRec
  BY <1>1
<1>3. p.filesz <= p.memsz /\ \A a \in SegmentRange(p) : a \notin SectorBuffer
  BY DEF AllSound, Sound
<1> QED BY <1>2, <1>3 DEF PhdrRec

\* Of a sound header the loader sees what the file says, if it loads it, and otherwise
\* that it need not.
LEMMA SoundSeen ==
  ASSUME LoaderTypes, AllSound, NEW i \in DOMAIN kfile.phdrs
  PROVE  /\ Seen(kfile, i, "type") = {kfile.phdrs[i].type}
         /\ LoadedType(kfile.phdrs[i].type) =>
              /\ Seen(kfile, i, "off") = {kfile.phdrs[i].off}
              /\ Seen(kfile, i, "paddr") = {kfile.phdrs[i].paddr}
              /\ Seen(kfile, i, "filesz") = {kfile.phdrs[i].filesz}
              /\ Seen(kfile, i, "memsz") = {kfile.phdrs[i].memsz}
<1> DEFINE h == HeaderOffset(kfile, i) % SECTSIZE
<1>1. InSector(kfile, i, "type")
  BY DEF AllSound, Sound
<1>2. ASSUME LoadedType(kfile.phdrs[i].type)
      PROVE  \A x \in {"off", "paddr", "filesz", "memsz"} : InSector(kfile, i, x)
  <2>1. h + FieldEnd["memsz"] <= SECTSIZE
    BY <1>2 DEF AllSound, Sound, InSector
  <2>2. /\ FieldEnd["off"] \in Nat /\ FieldEnd["paddr"] \in Nat /\ FieldEnd["filesz"] \in Nat
        /\ FieldEnd["memsz"] \in Nat /\ SECTSIZE \in Nat
        /\ FieldEnd["off"] <= FieldEnd["paddr"] /\ FieldEnd["paddr"] <= FieldEnd["filesz"]
        /\ FieldEnd["filesz"] <= FieldEnd["memsz"]
    BY ElfAssumption
  <2>3. h \in Int
    <3>1. HeaderOffset(kfile, i) \in Int
      <4>1. kfile.class \in {32, 64} /\ kfile.phoff \in Nat /\ Len(kfile.phdrs) \in Nat
        BY DEF LoaderTypes, Elfs
      <4>2. i \in Nat
        BY <4>1 DEF LoaderTypes, Elfs
      <4>3. PhdrSize[kfile.class] \in Int
        BY <4>1, ElfAssumption
      <4> DEFINE z == PhdrSize[kfile.class]
                 y == (i - 1) * z
      <4>4. y \in Int
        <5> HIDE DEF z
        <5> QED BY <4>2, <4>3, SMT DEF z
      <4>5. HeaderOffset(kfile, i) = kfile.phoff + y
        BY DEF HeaderOffset
      <4> HIDE DEF y
      <4> QED BY <4>1, <4>4, <4>5
    <3> QED BY <3>1, ElfAssumption
  <2> HIDE DEF h
  <2>4. \A x \in {"off", "paddr", "filesz", "memsz"} : h + FieldEnd[x] <= SECTSIZE
    <3>1. h + FieldEnd["off"] <= SECTSIZE
      BY <2>1, <2>2, <2>3
    <3>2. h + FieldEnd["paddr"] <= SECTSIZE
      BY <2>1, <2>2, <2>3
    <3>3. h + FieldEnd["filesz"] <= SECTSIZE
      BY <2>1, <2>2, <2>3
    <3> QED BY <2>1, <3>1, <3>2, <3>3
  <2> QED BY <2>4 DEF InSector, h
<1> QED BY <1>1, <1>2 DEF Seen

\* A round reads no further than the sector and the segment go.
LEMMA RoundFits ==
  ASSUME kfoff \in Nat, kleft \in Nat
  PROVE  /\ ReadCount \in Nat /\ ReadCount <= kleft /\ kfoff % SECTSIZE \in Nat
         /\ (kfoff % SECTSIZE) + ReadCount <= SECTSIZE
<1>1. SECTSIZE \in Nat /\ SECTSIZE > 0
  BY ElfAssumption
<1>2. kfoff % SECTSIZE \in 0..SECTSIZE - 1
  BY <1>1
<1> QED BY <1>1, <1>2 DEF ReadCount, Lesser

\* A header of another type is passed over; a loaded one starts its segment.
LEMMA LoadHeaderKeeps ==
  ASSUME LoaderInv, LoadHeader
  PROVE  LoaderInv'
<1>1. LoaderTypes /\ kpc = "header" /\ ki \in DOMAIN kfile.phdrs /\ kfile' = kfile /\ kmem' = kmem
  BY DEF LoaderInv, LoadHeader
<1>2. Len(kfile.phdrs) \in Nat /\ DOMAIN kfile.phdrs = 1..Len(kfile.phdrs)
  BY <1>1 DEF LoaderTypes, Elfs
<1>3. PICK t \in Seen(kfile, ki, "type"), o \in Seen(kfile, ki, "off"),
           a \in Seen(kfile, ki, "paddr"), n \in Seen(kfile, ki, "filesz"),
           m \in Seen(kfile, ki, "memsz") :
        /\ kseg' = [type |-> t, off |-> o, paddr |-> a, filesz |-> n, memsz |-> m]
        /\ IF LoadedType(t)
             THEN kfoff' = o /\ kleft' = n /\ kdst' = a /\ kpc' = "read" /\ UNCHANGED ki
             ELSE ki' = ki + 1 /\ UNCHANGED <<kfoff, kleft, kdst, kpc>>
  BY DEF LoadHeader
<1>4. LoaderTypes'
  <2>1. (kpc' = "read" /\ ki' = ki) \/ (kpc' = "header" /\ ki' = ki + 1)
    BY <1>1, <1>3
  <2> QED BY <1>1, <1>2, <2>1 DEF LoaderTypes
<1> SUFFICES ASSUME AllSound PROVE SegmentInv' /\ MemoryInv'
  <2>1. AllSound' <=> AllSound
    BY <1>1 DEF AllSound, Sound, InSector, HeaderOffset
  <2> QED BY <1>4, <2>1 DEF LoaderInv
<1>5. t = Phdr.type
  BY <1>1, SoundSeen DEF Phdr
<1>6. \A b \in ElfMemory \ SectorBuffer : AsLinked(b, ki)
  BY <1>1 DEF LoaderInv, MemoryInv
<1>7. CASE LoadedType(t)
  <2>1. kfoff' = o /\ kleft' = n /\ kdst' = a /\ kpc' = "read" /\ ki' = ki
    BY <1>3, <1>7
  <2>2. Phdr' = Phdr
    BY <1>1, <2>1 DEF Phdr
  <2>3. o = Phdr.off /\ a = Phdr.paddr /\ n = Phdr.filesz /\ m = Phdr.memsz
    BY <1>1, <1>5, <1>7, SoundSeen DEF Phdr
  <2>4. Phdr.off \in Nat /\ Phdr.paddr \in Nat /\ Phdr.filesz \in Nat
    BY <1>1, <1>5, <1>7, HeaderTypes DEF Phdr
  <2>5. SegmentInv'
    <3>1. Placed(Phdr)'
      BY <2>1, <2>2, <2>3, <2>4 DEF Placed
    <3>2. kseg'.paddr = a /\ kseg'.filesz = n /\ kseg'.memsz = m
      BY <1>3
    <3> QED BY <1>1, <1>5, <1>7, <2>1, <2>2, <2>3, <2>4, <3>1, <3>2 DEF SegmentInv
  <2>6. \A b \in ElfMemory \ SectorBuffer : AsLinked(b, ki)'
    BY <1>1, <1>6, <2>1 DEF AsLinked, Over
  <2> QED BY <2>5, <2>6 DEF MemoryInv, SectorBuffer
<1>8. CASE ~ LoadedType(t)
  <2>1. ki' = ki + 1 /\ kpc' = kpc
    BY <1>3, <1>8
  <2>2. ASSUME NEW b \in ElfMemory \ SectorBuffer PROVE AsLinked(b, ki)'
    <3>1. Over(b, ki + 1) = Over(b, ki)
      BY <1>1, <1>5, <1>8, OneMoreHeader
    <3>2. Over(b, ki)' = Over(b, ki + 1)
      BY <1>1, <2>1 DEF Over
    <3> QED BY <1>1, <1>6, <3>1, <3>2 DEF AsLinked
  <2> QED BY <1>1, <2>1, <2>2 DEF SegmentInv, MemoryInv, SectorBuffer
<1> QED BY <1>7, <1>8

\* A segment clear of the sector buffer is not read back from itself.
LEMMA CopiedIs ==
  ASSUME kfoff \in Nat, kdst \in Nat, NEW n \in Nat, (kfoff % SECTSIZE) + n <= SECTSIZE,
         kfoff % SECTSIZE \in Nat, \A a \in kdst..kdst + n - 1 : a \notin SectorBuffer,
         NEW i \in 0..n - 1
  PROVE  Copied(i) = kfoff + i
<1> DEFINE r == kfoff % SECTSIZE
<1>1. SECTSIZE \in Nat /\ SectorStart \in Nat /\ r \in Nat /\ r + n <= SECTSIZE /\ i \in Nat
  BY ElfAssumption
<1>2. (kfoff % SECTSIZE) + i < SECTSIZE
  <2> HIDE DEF r
  <2>1. r + i < SECTSIZE
    BY <1>1
  <2> QED BY <2>1 DEF r
<1>3. ASSUME Shift \in 1..i PROVE FALSE
  <2> DEFINE s == Shift
             x == SectorStart + r + i
  <2>1. s \in 1..i /\ s = kdst - (SectorStart + r)
    BY <1>3 DEF Shift
  <2> HIDE DEF s, r
  <2>2. x \in kdst..kdst + n - 1 /\ x \in SectorStart..SectorStart + SECTSIZE - 1
    BY <1>1, <2>1
  <2> QED BY <2>2 DEF SectorBuffer
<1> QED BY <1>2, <1>3 DEF Copied

\* A round of __k_readfile puts the next bytes of the segment in their place and
\* touches nothing outside it.
LEMMA RoundKeeps ==
  ASSUME LoaderInv, ReadRound
  PROVE  LoaderInv'
<1> DEFINE n == ReadCount
           p == Phdr
<1>0. LoaderTypes /\ kpc = "read" /\ kpc' = "read" /\ ki' = ki /\ kfile' = kfile /\ kseg' = kseg
  BY DEF LoaderInv, ReadRound
<1> SUFFICES ASSUME AllSound PROVE SegmentInv' /\ MemoryInv'
  <2>1. AllSound' <=> AllSound
    BY <1>0 DEF AllSound, Sound, InSector, HeaderOffset
  <2>2. LoaderTypes'
    BY <1>0 DEF LoaderTypes
  <2> QED BY <2>1, <2>2 DEF LoaderInv
<1>1. SegmentInv /\ MemoryInv /\ ki \in DOMAIN kfile.phdrs
  BY <1>0 DEF LoaderInv, LoaderTypes
<1>2. /\ kfoff' = kfoff + n /\ kleft' = kleft - n /\ kdst' = kdst + n
      /\ kmem' = [a \in ElfMemory |->
                    IF a \in kdst..kdst + n - 1 THEN Copied(a - kdst)
                    ELSE IF a \in SectorBuffer THEN kfoff - (kfoff % SECTSIZE) + (a - SectorStart)
                    ELSE kmem[a]]
  BY DEF ReadRound
<1>3. /\ LoadedType(p.type)
      /\ kseg.paddr = p.paddr /\ kseg.filesz = p.filesz /\ kseg.memsz = p.memsz
      /\ kfoff \in Nat /\ kleft \in Nat /\ kdst \in Nat /\ kdst >= p.paddr
      /\ kdst + kleft = p.paddr + p.filesz /\ kfoff - p.off = kdst - p.paddr
      /\ Placed(p)
  BY <1>0, <1>1 DEF SegmentInv
<1>4. n \in Nat /\ n <= kleft /\ kfoff % SECTSIZE \in Nat /\ (kfoff % SECTSIZE) + n <= SECTSIZE
  BY <1>3, RoundFits
<1>5. /\ p.off \in Nat /\ p.paddr \in Nat /\ p.filesz \in Nat /\ p.memsz \in Nat
      /\ p.filesz <= p.memsz /\ \A a \in SegmentRange(p) : a \notin SectorBuffer
  BY <1>0, <1>1, <1>3, HeaderTypes DEF Phdr
<1>6. Phdr' = p
  BY <1>0 DEF Phdr
<1> HIDE DEF n, p
<1>7. \A a \in kdst..kdst + n - 1 : a \notin SectorBuffer
  <2>1. ASSUME NEW a \in kdst..kdst + n - 1 PROVE a \in p.paddr..p.paddr + p.memsz - 1
    <3>1. kdst \in Nat /\ kleft \in Nat /\ kdst >= p.paddr /\ kdst + kleft = p.paddr + p.filesz
      BY <1>3
    <3> QED BY <1>4, <1>5, <2>1, <3>1
  <2> QED BY <1>5, <2>1 DEF SegmentRange
<1>8. ASSUME NEW a \in ElfMemory, a \in p.paddr..kdst' - 1
      PROVE  kmem'[a] = p.off + (a - p.paddr)
  <2>1. a \in Int
    BY <1>8
  <2>2. CASE a < kdst
    <3>1. a \notin kdst..kdst + n - 1 /\ a \in p.paddr..kdst - 1
      BY <1>3, <1>4, <1>5, <1>8, <2>1, <2>2
    <3>2. a \notin SectorBuffer
      <4>1. kdst \in Nat /\ kleft \in Nat /\ kdst + kleft = p.paddr + p.filesz
        BY <1>3
      <4>2. a \in p.paddr..p.paddr + p.memsz - 1
        BY <1>5, <2>1, <3>1, <4>1
      <4> QED BY <1>5, <4>2 DEF SegmentRange
    <3>3. kmem'[a] = kmem[a]
      BY <1>2, <3>1, <3>2
    <3> QED BY <1>3, <3>1, <3>3 DEF Placed
  <2>3. CASE ~ (a < kdst)
    <3>1. a \in kdst..kdst + n - 1 /\ a - kdst \in 0..n - 1
      BY <1>2, <1>3, <1>4, <1>5, <1>8, <2>1, <2>3
    <3>2. kmem'[a] = Copied(a - kdst)
      BY <1>2, <3>1
    <3>3. kfoff \in Nat /\ kdst \in Nat /\ kfoff - p.off = kdst - p.paddr
      BY <1>3
    <3>4. \A i \in 0..n - 1 : Copied(i) = kfoff + i
      BY <1>4, <1>7, <3>3, CopiedIs
    <3>5. kmem'[a] = kfoff + (a - kdst)
      BY <3>1, <3>2, <3>4
    <3> QED BY <1>5, <2>1, <3>3, <3>5
  <2> QED BY <2>2, <2>3
<1>9. SegmentInv'
  <2>1. Placed(Phdr)'
    BY <1>6, <1>8 DEF Placed
  <2>2. /\ kfoff \in Nat /\ kleft \in Nat /\ kdst \in Nat /\ kdst >= p.paddr
        /\ kdst + kleft = p.paddr + p.filesz /\ kfoff - p.off = kdst - p.paddr
    BY <1>3
  <2>3. kfoff' = kfoff + n /\ kleft' = kleft - n /\ kdst' = kdst + n
    BY <1>2
  <2>4. /\ kfoff' \in Nat /\ kleft' \in Nat /\ kdst' \in Nat /\ kdst' >= p.paddr
        /\ kdst' + kleft' = p.paddr + p.filesz /\ kfoff' - p.off = kdst' - p.paddr
    BY <1>4, <1>5, <2>2, <2>3
  <2>5. /\ LoadedType(p.type) /\ kseg'.paddr = p.paddr /\ kseg'.filesz = p.filesz
        /\ kseg'.memsz = p.memsz
    BY <1>0, <1>3
  <2> QED BY <1>6, <2>1, <2>4, <2>5 DEF SegmentInv
<1>11. ASSUME NEW a \in ElfMemory \ SectorBuffer, a \notin SegmentRange(p) PROVE AsLinked(a, ki)'
  <2>1. a \notin kdst..kdst + n - 1
    BY <1>3, <1>4, <1>5, <1>11 DEF SegmentRange
  <2>2. kmem'[a] = kmem[a]
    BY <1>2, <2>1
  <2>3. AsLinked(a, ki)
    BY <1>1, <1>11 DEF MemoryInv, p
  <2>4. Over(a, ki)' = Over(a, ki)
    BY <1>0 DEF Over
  <2> QED BY <1>0, <2>2, <2>3, <2>4 DEF AsLinked
<1> QED BY <1>0, <1>6, <1>9, <1>11 DEF MemoryInv, SectorBuffer

\* The rest of the segment is cleared, and it is complete.
LEMMA ZeroKeeps ==
  ASSUME LoaderInv, ZeroRest
  PROVE  LoaderInv'
<1> DEFINE p == Phdr
<1>0. LoaderTypes /\ kpc = "read" /\ kpc' = "header" /\ ki' = ki + 1 /\ kfile' = kfile /\ kleft = 0
      /\ ki \in DOMAIN kfile.phdrs
  BY DEF LoaderInv, LoaderTypes, ZeroRest
<1> SUFFICES ASSUME AllSound PROVE SegmentInv' /\ MemoryInv'
  <2>1. AllSound' <=> AllSound
    BY <1>0 DEF AllSound, Sound, InSector, HeaderOffset
  <2>2. Len(kfile.phdrs) \in Nat /\ DOMAIN kfile.phdrs = 1..Len(kfile.phdrs)
    BY <1>0 DEF LoaderTypes, Elfs
  <2>3. LoaderTypes'
    BY <1>0, <2>2 DEF LoaderTypes
  <2> QED BY <2>1, <2>3 DEF LoaderInv
<1>1. SegmentInv /\ MemoryInv
  BY DEF LoaderInv
<1>2. kmem' = [a \in ElfMemory |-> IF Cleared(kseg, a) THEN Zeroed ELSE kmem[a]]
  BY DEF ZeroRest
<1>3. /\ LoadedType(p.type) /\ kdst \in Nat
      /\ kseg.paddr = p.paddr /\ kseg.filesz = p.filesz /\ kseg.memsz = p.memsz
      /\ kdst = p.paddr + p.filesz /\ Placed(p)
  <2>1. /\ kdst + kleft = p.paddr + p.filesz /\ kdst \in Nat /\ p.paddr + p.filesz \in Nat
    <3>1. /\ kdst + kleft = p.paddr + p.filesz /\ kdst \in Nat
      BY <1>0, <1>1 DEF SegmentInv
    <3> QED BY <1>0, <3>1
  <2> QED BY <1>0, <1>1, <2>1 DEF SegmentInv
<1>4. p.off \in Nat /\ p.paddr \in Nat /\ p.filesz \in Nat /\ p.memsz \in Nat /\ p.filesz <= p.memsz
  BY <1>0, <1>3, HeaderTypes DEF Phdr
<1>5. \A a : Cleared(kseg, a) <=> a \in p.paddr + p.filesz..p.paddr + p.memsz - 1
  BY <1>3, <1>4 DEF Cleared
<1>6. ASSUME NEW a \in ElfMemory \ SectorBuffer PROVE AsLinked(a, ki)'
  <2>1. Over(a, ki)' = Over(a, ki + 1)
    BY <1>0 DEF Over
  <2>2. Over(a, ki + 1) = Over(a, ki) \cup IF a \in SegmentRange(p) THEN {ki} ELSE {}
    BY <1>0, <1>3, OneMoreHeader
  <2> HIDE DEF p
  <2>3. CASE a \in SegmentRange(p)
    <3>1. kmem'[a] = Linked(p, a)
      <4>0. a \in Int
        BY <1>4, <2>3 DEF SegmentRange
      <4>1. CASE a < p.paddr + p.filesz
        <5>1. a \in p.paddr..kdst - 1 /\ a \notin p.paddr + p.filesz..p.paddr + p.memsz - 1
          BY <1>3, <1>4, <2>3, <4>0, <4>1 DEF SegmentRange
        <5>2. kmem'[a] = kmem[a] /\ kmem[a] = p.off + (a - p.paddr)
          BY <1>2, <1>3, <1>5, <5>1 DEF Placed
        <5> QED BY <4>1, <5>2 DEF Linked
      <4>2. CASE ~ (a < p.paddr + p.filesz)
        <5>1. a \in p.paddr + p.filesz..p.paddr + p.memsz - 1
          BY <1>4, <2>3, <4>0, <4>2 DEF SegmentRange
        <5> QED BY <1>2, <1>5, <4>2, <5>1 DEF Linked
      <4> QED BY <4>1, <4>2
    <3>2. ki \in Over(a, ki)'
      BY <2>1, <2>2, <2>3
    <3>3. p = kfile'.phdrs[ki]
      BY <1>0 DEF p, Phdr
    <3> QED BY <3>1, <3>2, <3>3 DEF AsLinked
  <2>4. CASE a \notin SegmentRange(p)
    <3>1. a \notin p.paddr + p.filesz..p.paddr + p.memsz - 1
      BY <1>4, <2>4 DEF SegmentRange
    <3>2. kmem'[a] = kmem[a]
      BY <1>2, <1>5, <3>1
    <3>3. AsLinked(a, ki)
      BY <1>1, <2>4 DEF MemoryInv, p
    <3>4. Over(a, ki)' = Over(a, ki)
      BY <2>1, <2>2, <2>4
    <3> QED BY <1>0, <3>2, <3>3, <3>4 DEF AsLinked
  <2> QED BY <2>3, <2>4
<1> QED BY <1>0, <1>6 DEF SegmentInv, MemoryInv, SectorBuffer

\* The loader jumps to the kernel when no header is left.
LEMMA LeaveKeeps ==
  ASSUME LoaderInv, EnterKernel
  PROVE  LoaderInv'
<1>1. /\ LoaderTypes /\ kpc = "header" /\ kpc' = "kernel" /\ ki' = ki /\ kfile' = kfile
      /\ kmem' = kmem /\ ki \notin DOMAIN kfile.phdrs
  BY DEF LoaderInv, EnterKernel
<1>2. LoaderTypes'
  <2>1. Len(kfile.phdrs) \in Nat /\ DOMAIN kfile.phdrs = 1..Len(kfile.phdrs)
        /\ ki \in 1..Len(kfile.phdrs) + 1
    BY <1>1 DEF LoaderTypes, Elfs
  <2>2. ki = Len(kfile.phdrs) + 1
    BY <1>1, <2>1
  <2> QED BY <1>1, <2>2 DEF LoaderTypes
<1>3. AllSound' <=> AllSound
  BY <1>1 DEF AllSound, Sound, InSector, HeaderOffset
<1>4. AllSound => \A a \in ElfMemory \ SectorBuffer : AsLinked(a, ki)'
  BY <1>1 DEF LoaderInv, AsLinked, Over, MemoryInv
<1> QED BY <1>1, <1>2, <1>3, <1>4 DEF LoaderInv, SegmentInv, MemoryInv, SectorBuffer

\* Nothing the other programs do matters to the loader.
LEMMA LoaderStep ==
  ASSUME LoaderInv, [PNext]_progVars
  PROVE  LoaderInv'
<1>1. CASE LoaderNext
  BY <1>1, LoadHeaderKeeps, RoundKeeps, ZeroKeeps, LeaveKeeps DEF LoaderNext
<1>2. CASE UNCHANGED kernelVars
  <2>1. /\ kfile' = kfile /\ ki' = ki /\ kfoff' = kfoff /\ kleft' = kleft /\ kdst' = kdst
        /\ kmem' = kmem /\ kpc' = kpc /\ kseg' = kseg
    BY <1>2 DEF kernelVars
  <2>2. Phdr' = Phdr
    BY <2>1 DEF Phdr
  <2>3. LoaderTypes' /\ (AllSound' <=> AllSound)
    BY <2>1 DEF LoaderInv, LoaderTypes, AllSound, Sound, InSector, HeaderOffset
  <2>4. SegmentInv => SegmentInv'
    BY <2>1, <2>2 DEF SegmentInv, Placed
  <2>5. MemoryInv => MemoryInv'
    BY <2>1, <2>2 DEF MemoryInv, AsLinked, Over, SectorBuffer
  <2> QED BY <2>3, <2>4, <2>5 DEF LoaderInv
<1> QED BY <1>1, <1>2, LoaderStepIs

\* A kernel whose headers are Sound is loaded as it was linked, for headers of any
\* number, segments of any size and sectors of any size.
THEOREM LoaderLoadsKernel == ProgramsSpec => []KernelLoaded
<1>1. ProgramsInit => LoaderInv
  BY LoaderBegins
<1>2. LoaderInv /\ [ProgramStep \/ OthersStep \/ Rest]_progVars => LoaderInv'
  BY LoaderStep DEF PNext
<1>3. LoaderInv => KernelLoaded
  <2> SUFFICES ASSUME LoaderInv, kpc = "kernel", AllSound PROVE KernelLoaded
    BY DEF KernelLoaded, AllSound
  <2>1. /\ Len(kfile.phdrs) \in Nat /\ DOMAIN kfile.phdrs = 1..Len(kfile.phdrs)
        /\ ki - 1 = Len(kfile.phdrs)
    BY DEF LoaderInv, LoaderTypes, Elfs
  <2>2. ASSUME NEW a \in ElfMemory
        PROVE  Over(a, ki) = {i \in {j \in DOMAIN kfile.phdrs : LoadedType(kfile.phdrs[j].type)} :
                                a \in SegmentRange(kfile.phdrs[i])}
    BY <2>1 DEF Over
  <2>3. \A a \in ElfMemory \ SectorBuffer : AsLinked(a, ki)
    BY DEF LoaderInv, MemoryInv
  <2> QED BY <2>2, <2>3 DEF KernelLoaded, AsLinked
<1> QED BY <1>1, <1>2, <1>3, PTL DEF ProgramsSpec
----------------------------------------------------------------------------
(* gettext.                                                                *)

\* n bytes of the file from offset o on.
Run(o, n) == [k \in 1..n |-> o + k - 1]

\* What the n-th header of f contributes to the image.
Part(f, n) ==
  IF f.phdrs[n].exec /\ f.phdrs[n].type = PT_LOAD THEN Segment(f.phdrs[n]) ELSE <<>>

\* u[n] is what the first n headers of f contribute, by the recursion of Text.
Gathers(u, f) ==
  u = [n \in 0..Len(f.phdrs) |->
         IF n = 0 THEN <<>>
         ELSE IF f.phdrs[n].exec /\ f.phdrs[n].type = PT_LOAD
              THEN u[n - 1] \o Segment(f.phdrs[n]) ELSE u[n - 1]]
Gathered(f) == CHOOSE u : Gathers(u, f)

\* The same, value by value.
GathersParts(u, f) ==
  /\ u[0] = <<>> /\ \A n \in 0..Len(f.phdrs) : u[n] \in Seq(Nat)
  /\ \A n \in 1..Len(f.phdrs) : u[n] = u[n - 1] \o Part(f, n)

\* A run of offsets is a sequence, and two that meet are one.
LEMMA RunIs ==
  ASSUME NEW o \in Nat, NEW n \in Nat
  PROVE  Run(o, n) \in Seq(Nat) /\ Len(Run(o, n)) = n /\ \A k \in 1..n : Run(o, n)[k] = o + k - 1
<1>1. \A k \in 1..n : o + k - 1 \in Nat
  OBVIOUS
<1> QED BY <1>1 DEF Run

\* The elements of two sequences joined.
LEMMA JoinedNats ==
  ASSUME NEW a \in Seq(Nat), NEW b \in Seq(Nat), NEW q, q = a \o b
  PROVE  /\ q \in Seq(Nat) /\ Len(q) = Len(a) + Len(b) /\ Len(a) \in Nat /\ Len(b) \in Nat
         /\ \A k \in 1..Len(a) + Len(b) : q[k] = IF k <= Len(a) THEN a[k] ELSE b[k - Len(a)]
OBVIOUS

\* Copying goes on where it stopped.
LEMMA RunsMeet ==
  ASSUME NEW o \in Nat, NEW d \in Nat, NEW n \in Nat
  PROVE  Run(o, d) \o Run(o + d, n) = Run(o, d + n)
<1> DEFINE s == Run(o, d)
           t == Run(o + d, n)
           w == Run(o, d + n)
           q == s \o t
<1>1. /\ s \in Seq(Nat) /\ Len(s) = d /\ \A k \in 1..d : s[k] = o + k - 1
      /\ t \in Seq(Nat) /\ Len(t) = n /\ \A k \in 1..n : t[k] = (o + d) + k - 1
      /\ w \in Seq(Nat) /\ Len(w) = d + n /\ \A k \in 1..d + n : w[k] = o + k - 1
  <2>1. o + d \in Nat /\ d + n \in Nat
    OBVIOUS
  <2> QED BY <2>1, RunIs
<1> HIDE DEF s, t, w
<1>2. /\ q \in Seq(Nat) /\ Len(q) = d + n
      /\ \A k \in 1..d + n : q[k] = IF k <= d THEN s[k] ELSE t[k - d]
  <2>1. s \in Seq(Nat) /\ t \in Seq(Nat) /\ Len(s) = d /\ Len(t) = n
    BY <1>1
  <2>2. /\ q \in Seq(Nat) /\ Len(q) = Len(s) + Len(t)
        /\ \A k \in 1..Len(s) + Len(t) : q[k] = IF k <= Len(s) THEN s[k] ELSE t[k - Len(s)]
    BY <2>1, JoinedNats
  <2> HIDE DEF q
  <2> QED BY <2>1, <2>2
<1> HIDE DEF q
<1>3. ASSUME NEW k \in 1..d + n PROVE q[k] = w[k]
  <2>1. CASE k <= d
    BY <1>1, <1>2, <2>1
  <2>2. CASE ~ (k <= d)
    <3>1. k - d \in 1..n /\ (o + d) + (k - d) - 1 = o + k - 1
      BY <2>2
    <3> QED BY <1>1, <1>2, <2>2, <3>1
  <2> QED BY <2>1, <2>2
<1>4. q = w
  BY <1>1, <1>2, <1>3, SeqEqual
<1> QED BY <1>4 DEF q, s, t, w

\* What a header contributes is a sequence of offsets.
LEMMA PartIs ==
  ASSUME NEW f \in Elfs, NEW n \in 1..Len(f.phdrs)
  PROVE  /\ Part(f, n) \in Seq(Nat)
         /\ f.phdrs[n].off \in Nat /\ f.phdrs[n].filesz \in Nat
         /\ Segment(f.phdrs[n]) = Run(f.phdrs[n].off, f.phdrs[n].filesz)
<1>1. f.phdrs \in Seq(PhdrRec)
  BY DEF Elfs
<1>2. f.phdrs[n] \in PhdrRec
  BY <1>1
<1>3. f.phdrs[n].off \in Nat /\ f.phdrs[n].filesz \in Nat
  BY <1>2 DEF PhdrRec
<1>4. Segment(f.phdrs[n]) = Run(f.phdrs[n].off, f.phdrs[n].filesz)
  BY DEF Segment, Run
<1>5. Segment(f.phdrs[n]) \in Seq(Nat)
  BY <1>3, <1>4, RunIs
<1>6. <<>> \in Seq(Nat)
  OBVIOUS
<1> QED BY <1>3, <1>4, <1>5, <1>6 DEF Part

\* The recursion of Text defines a function.
LEMMA GatheredExists ==
  ASSUME NEW f \in Elfs
  PROVE  \E u : Gathers(u, f)
<1> DEFINE B == Seq(Nat)
           m == Len(f.phdrs)
           h == [k \in Nat |-> [x \in B |-> IF k \in 1..m THEN x \o Part(f, k) ELSE x]]
<1>0. m \in Nat /\ <<>> \in B
  BY DEF Elfs
<1>1. PICK g : DefinedBy(g, <<>>, h)
  <2> HIDE DEF h
  <2> QED BY RecursionExists
<1>2. g[0] = <<>> /\ \A n \in Nat : g[n + 1] = h[n + 1][g[n]]
  <2> HIDE DEF h
  <2>1. g = [k \in Nat |-> IF k = 0 THEN <<>> ELSE h[k][g[k - 1]]]
    BY <1>1 DEF DefinedBy
  <2>2. \A n \in Nat : n + 1 \in Nat /\ n + 1 # 0 /\ (n + 1) - 1 = n
    OBVIOUS
  <2> QED BY <2>1, <2>2
<1>3. \A n \in Nat : g[n] \in B
  <2> DEFINE T == {n \in Nat : g[n] \in B}
  <2>1. 0 \in T
    BY <1>0, <1>2
  <2>2. ASSUME NEW n \in Nat, n \in T PROVE n + 1 \in T
    <3>1. g[n] \in B /\ n + 1 \in Nat
      BY <2>2
    <3>2. g[n + 1] = IF n + 1 \in 1..m THEN g[n] \o Part(f, n + 1) ELSE g[n]
      BY <1>2, <3>1
    <3>3. n + 1 \in 1..m => Part(f, n + 1) \in B
      BY PartIs
    <3>4. g[n + 1] \in B
      <4> HIDE DEF h
      <4> QED BY <3>1, <3>2, <3>3
    <3> QED BY <3>1, <3>4
  <2> HIDE DEF T
  <2>3. \A n \in Nat : n \in T
    BY <2>1, <2>2, SetInduction
  <2> QED BY <2>3 DEF T
<1> DEFINE u == [n \in 0..m |-> g[n]]
<1>4. ASSUME NEW n \in 0..m
      PROVE  u[n] = IF n = 0 THEN <<>>
                    ELSE IF f.phdrs[n].exec /\ f.phdrs[n].type = PT_LOAD
                         THEN u[n - 1] \o Segment(f.phdrs[n]) ELSE u[n - 1]
  <2>1. CASE n = 0
    BY <1>2, <2>1
  <2>2. CASE n # 0
    <3> DEFINE l == n - 1
    <3>1. l \in Nat /\ l + 1 = n /\ l \in 0..m /\ n \in 1..m /\ n \in Nat
      BY <1>0, <2>2
    <3> HIDE DEF l
    <3>2. g[n] = h[n][g[l]] /\ g[l] \in B
      BY <1>2, <1>3, <3>1
    <3>3. g[n] = g[l] \o Part(f, n)
      BY <3>1, <3>2
    <3>4. g[l] \o <<>> = g[l]
      BY <3>2, ConcatEmptySeq
    <3>5. u[n] = g[n] /\ u[l] = g[l] /\ l = n - 1
      BY <3>1 DEF l
    <3> QED BY <2>2, <3>3, <3>4, <3>5 DEF Part
  <2> QED BY <2>1, <2>2
<1>5. u = [n \in 0..m |-> u[n]]
  OBVIOUS
<1> HIDE DEF u
<1>6. Gathers(u, f)
  BY <1>4, <1>5 DEF Gathers
<1> QED BY <1>6

\* What the recursion gives, value by value.
LEMMA GatheredIs ==
  ASSUME NEW f \in Elfs
  PROVE  GathersParts(Gathered(f), f) /\ Text(f) = Gathered(f)[Len(f.phdrs)]
<1> DEFINE u == Gathered(f)
           m == Len(f.phdrs)
<1>1. Gathers(u, f)
  BY GatheredExists DEF Gathered
<1>2. Text(f) = u[m]
  BY DEF Text, Gathered, Gathers
<1> HIDE DEF u
<1>3. m \in Nat /\ <<>> \in Seq(Nat)
  BY DEF Elfs
<1>4. u[0] = <<>>
  BY <1>1, <1>3 DEF Gathers
<1> DEFINE Good(n) == u[n] \in Seq(Nat) /\ (n # 0 => u[n] = u[n - 1] \o Part(f, n))
           T == {n \in Nat : n <= m => Good(n)}
<1>5. 0 \in T
  BY <1>3, <1>4
<1>6. ASSUME NEW n \in Nat, n \in T PROVE n + 1 \in T
  <2>0. n + 1 \in Nat /\ (n <= m => Good(n))
    BY <1>6
  <2> SUFFICES ASSUME n + 1 <= m PROVE Good(n + 1)
    <3> HIDE DEF Good
    <3> QED BY <2>0
  <2>1. n + 1 \in 0..m /\ n + 1 \in 1..m /\ n + 1 # 0 /\ (n + 1) - 1 = n /\ n <= m
    BY <1>3
  <2>2. u[n] \in Seq(Nat)
    BY <2>0, <2>1
  <2>3. Part(f, n + 1) \in Seq(Nat)
    BY <2>1, PartIs
  <2>4. u[n] \o <<>> = u[n]
    BY <2>2, ConcatEmptySeq
  <2>5. u[n + 1] = IF f.phdrs[n + 1].exec /\ f.phdrs[n + 1].type = PT_LOAD
                   THEN u[n] \o Segment(f.phdrs[n + 1]) ELSE u[n]
    BY <1>1, <2>1 DEF Gathers
  <2>6. u[n + 1] = u[n] \o Part(f, n + 1)
    BY <2>4, <2>5 DEF Part
  <2>7. u[n + 1] \in Seq(Nat)
    BY <2>2, <2>3, <2>6
  <2> QED BY <2>1, <2>6, <2>7
<1>7. \A n \in Nat : n \in T
  <2> HIDE DEF T
  <2> QED BY <1>5, <1>6, SetInduction
<1>8. \A n \in 0..m : Good(n)
  BY <1>3, <1>7
<1>9. \A n \in 1..m : n \in 0..m /\ n # 0
  BY <1>3
<1> QED BY <1>2, <1>4, <1>8, <1>9 DEF GathersParts, u

\* s is a beginning of t.
Begins(s, t) == \E v \in Seq(Nat) : t = s \o v

\* Joining is associative.
LEMMA Regroup ==
  ASSUME NEW s \in Seq(Nat), NEW v \in Seq(Nat), NEW x \in Seq(Nat)
  PROVE  (s \o v) \o x = s \o (v \o x)
<1> DEFINE S == Nat
<1>1. s \in Seq(S) /\ v \in Seq(S) /\ x \in Seq(S)
  OBVIOUS
<1> HIDE DEF S
<1> QED BY <1>1, ConcatAssociative

\* A beginning of a beginning.
LEMMA BeginsTransitive ==
  ASSUME NEW s \in Seq(Nat), NEW t \in Seq(Nat), NEW w, Begins(s, t), Begins(t, w)
  PROVE  Begins(s, w)
<1>1. PICK v \in Seq(Nat) : t = s \o v
  BY DEF Begins
<1>2. PICK x \in Seq(Nat) : w = t \o x
  BY DEF Begins
<1>3. (s \o v) \o x = s \o (v \o x)
  BY Regroup
<1>4. v \o x \in Seq(Nat)
  OBVIOUS
<1> QED BY <1>1, <1>2, <1>3, <1>4 DEF Begins

\* Begins is what IsPrefix says.
LEMMA BeginsIsPrefix ==
  ASSUME NEW s \in Seq(Nat), NEW t, Begins(s, t)
  PROVE  IsPrefix(s, t)
<1>1. PICK v \in Seq(Nat) : t = s \o v
  BY DEF Begins
<1>2. /\ t \in Seq(Nat) /\ Len(s) \in Nat /\ Len(t) \in Nat /\ Len(s) <= Len(t)
      /\ \A k \in 1..Len(s) : t[k] = s[k]
  BY <1>1
<1> DEFINE a == SubSeq(s, 1, Len(s))
           b == SubSeq(t, 1, Len(s))
<1>3. a \in Seq(Nat) /\ Len(a) = Len(s) /\ \A k \in 1..Len(s) : a[k] = s[k]
  OBVIOUS
<1>4. b \in Seq(Nat) /\ Len(b) = Len(s) /\ \A k \in 1..Len(s) : b[k] = t[k]
  BY <1>2
<1> HIDE DEF a, b
<1>5. a = b
  BY <1>2, <1>3, <1>4, SeqEqual
<1> QED BY <1>2, <1>5 DEF IsPrefix, a, b

\* What some headers contribute is a beginning of what all do.
LEMMA GatheredBegins ==
  ASSUME NEW f \in Elfs, NEW n \in 0..Len(f.phdrs)
  PROVE  Gathered(f)[n] \in Seq(Nat) /\ Begins(Gathered(f)[n], Text(f))
<1> DEFINE u == Gathered(f)
           m == Len(f.phdrs)
<1>1. GathersParts(u, f) /\ Text(f) = u[m]
  BY GatheredIs
<1> HIDE DEF u
<1>2. m \in Nat /\ <<>> \in Seq(Nat)
  BY DEF Elfs
<1>3. \A k \in 0..m : u[k] \in Seq(Nat)
  BY <1>1 DEF GathersParts
<1> DEFINE T == {k \in Nat : n + k <= m => Begins(u[n], u[n + k])}
<1>4. 0 \in T
  <2>1. n + 0 = n /\ u[n] \in Seq(Nat)
    BY <1>2, <1>3
  <2>2. u[n] = u[n] \o <<>>
    BY <2>1, ConcatEmptySeq
  <2> QED BY <1>2, <2>1, <2>2 DEF Begins
<1>5. ASSUME NEW k \in Nat, k \in T PROVE k + 1 \in T
  <2> SUFFICES ASSUME n + (k + 1) <= m PROVE Begins(u[n], u[n + (k + 1)])
    OBVIOUS
  <2> DEFINE j == n + k
  <2>1. n + (k + 1) = j + 1 /\ j + 1 \in 1..m /\ (j + 1) - 1 = j /\ j \in 0..m /\ n + k <= m
    BY <1>2
  <2>2. Begins(u[n], u[j])
    BY <1>5, <2>1
  <2> HIDE DEF j
  <2>3. u[j + 1] = u[j] \o Part(f, j + 1) /\ Part(f, j + 1) \in Seq(Nat)
    BY <1>1, <2>1, PartIs DEF GathersParts
  <2>4. Begins(u[j], u[j + 1])
    BY <2>3 DEF Begins
  <2>5. Begins(u[n], u[j + 1])
    BY <1>3, <2>1, <2>2, <2>4, BeginsTransitive
  <2> QED BY <2>1, <2>5
<1>6. \A k \in Nat : k \in T
  <2> HIDE DEF T
  <2> QED BY <1>4, <1>5, SetInduction
<1>7. m - n \in Nat /\ n + (m - n) = m
  BY <1>2
<1>8. Begins(u[n], u[m])
  <2>1. n + (m - n) <= m => Begins(u[n], u[n + (m - n)])
    BY <1>6, <1>7
  <2> QED BY <1>2, <1>7, <2>1
<1> QED BY <1>1, <1>3, <1>8 DEF u

\* What the headers in front of the current one contribute.
Before == Gathered(gfile)[gi - 1]
GPhdr == gfile.phdrs[gi]

GettextTypes ==
  /\ gfile \in Elfs /\ gi \in 1..Len(gfile.phdrs) + 1 /\ gout \in Seq(Nat)
  /\ gpc \in {"none", "open", "header", "copy", "exit0", "exit1"}

CopyInv ==
  gpc = "copy" =>
    /\ gi \in 1..Len(gfile.phdrs) /\ Wanted(GPhdr) /\ gleft \in Nat /\ gleft <= GPhdr.filesz
    /\ goff = GPhdr.off + (GPhdr.filesz - gleft)
    /\ gout = Before \o Run(GPhdr.off, GPhdr.filesz - gleft)

GettextInv ==
  /\ GettextTypes /\ CopyInv
  /\ gpc \in {"none", "open", "header"} => gout = Before
  /\ gpc = "exit0" => gout = Text(gfile)
  /\ Begins(gout, Text(gfile))

\* A step of the composition, seen by gettext.
LEMMA GettextStepIs ==
  ASSUME [PNext]_progVars
  PROVE  [GettextNext]_gettextVars
BY DEF PNext, ProgramStep, OthersStep, Rest, progVars, NotEval, NotWc, NotMkdir, NotUtil,
   NotDev, NotLoader, NotGettext

\* What the parts of the invariant say about the headers in front.
LEMMA BeforeIs ==
  ASSUME GettextTypes
  PROVE  /\ Len(gfile.phdrs) \in Nat /\ gi \in Nat /\ gi - 1 \in 0..Len(gfile.phdrs)
         /\ Before \in Seq(Nat) /\ Begins(Before, Text(gfile))
<1>1. gfile \in Elfs /\ gi \in 1..Len(gfile.phdrs) + 1
  BY DEF GettextTypes
<1>2. Len(gfile.phdrs) \in Nat
  BY <1>1 DEF Elfs
<1>3. gi \in Nat /\ gi - 1 \in 0..Len(gfile.phdrs)
  BY <1>1, <1>2
<1> QED BY <1>1, <1>2, <1>3, GatheredBegins DEF Before

\* Nothing has been copied yet.
LEMMA GettextBegins == ProgramsInit => GettextInv
<1> SUFFICES ASSUME ProgramsInit PROVE GettextInv
  OBVIOUS
<1>1. GettextInit \/ GettextIdle
  BY DEF ProgramsInit
<1>2. gi = 1 /\ gout = <<>> /\ gpc \in {"open", "none"}
  BY <1>1 DEF GettextInit, GettextIdle
<1>3. gfile \in Elfs
  <2>1. CASE GettextInit
    <3>1. gfile \in ElfPrograms
      BY <2>1 DEF GettextInit
    <3> QED BY <3>1, ElfAssumption DEF Elfs, PhdrRec
  <2>2. CASE GettextIdle
    <3>1. <<>> \in Seq(PhdrRec)
      OBVIOUS
    <3>2. NoElf \in Elfs
      BY <3>1 DEF NoElf, Elfs
    <3> QED BY <2>2, <3>2 DEF GettextIdle
  <2> QED BY <1>1, <2>1, <2>2
<1>4. GettextTypes
  <2>1. Len(gfile.phdrs) \in Nat
    BY <1>3 DEF Elfs
  <2>2. <<>> \in Seq(Nat)
    OBVIOUS
  <2> QED BY <1>2, <1>3, <2>1, <2>2 DEF GettextTypes
<1>5. Before = <<>>
  <2>1. gi - 1 = 0
    BY <1>2
  <2>2. GathersParts(Gathered(gfile), gfile)
    BY <1>3, GatheredIs
  <2> QED BY <2>1, <2>2 DEF GathersParts, Before
<1>6. Begins(gout, Text(gfile))
  BY <1>2, <1>4, <1>5, BeforeIs
<1> QED BY <1>2, <1>4, <1>5, <1>6 DEF GettextInv, CopyInv

\* A header is passed over, or its segment starts.
LEMMA GettextHeaderKeeps ==
  ASSUME GettextInv, GettextHeader
  PROVE  GettextInv'
<1>1. /\ GettextTypes /\ gpc = "header" /\ gi \in DOMAIN gfile.phdrs /\ gout = Before
      /\ Begins(gout, Text(gfile)) /\ gfile' = gfile /\ gout' = gout
  BY DEF GettextInv, GettextHeader
<1>2. gfile \in Elfs /\ gi \in 1..Len(gfile.phdrs) /\ gfile.phdrs \in Seq(PhdrRec) /\ gout \in Seq(Nat)
  BY <1>1 DEF GettextTypes, Elfs
<1>3. Len(gfile.phdrs) \in Nat /\ gi \in Nat /\ Before \in Seq(Nat)
  BY <1>1, BeforeIs
<1>4. GPhdr.off \in Nat /\ GPhdr.filesz \in Nat
  BY <1>2, PartIs DEF GPhdr
<1>5. CASE Wanted(GPhdr)
  <2>1. goff' = GPhdr.off /\ gleft' = GPhdr.filesz /\ gpc' = "copy" /\ gi' = gi
    BY <1>5 DEF GettextHeader, GPhdr
  <2>2. GPhdr' = GPhdr /\ Before' = Before
    BY <1>1, <2>1 DEF GPhdr, Before
  <2>3. CopyInv'
    <3>1. GPhdr.filesz - GPhdr.filesz = 0 /\ GPhdr.off + 0 = GPhdr.off
      BY <1>4
    <3>2. Run(GPhdr.off, 0) = <<>>
      <4>1. Run(GPhdr.off, 0) \in Seq(Nat) /\ Len(Run(GPhdr.off, 0)) = 0
        BY <1>4, RunIs
      <4> QED BY <4>1
    <3>3. Before \o <<>> = Before
      BY <1>3, ConcatEmptySeq
    <3>4. GPhdr.filesz <= GPhdr.filesz
      BY <1>4
    <3> QED BY <1>1, <1>2, <1>4, <1>5, <2>1, <2>2, <3>1, <3>2, <3>3, <3>4 DEF CopyInv
  <2>4. GettextTypes'
    BY <1>1, <2>1 DEF GettextTypes
  <2> QED BY <1>1, <2>1, <2>3, <2>4 DEF GettextInv
<1>6. CASE ~ Wanted(GPhdr)
  <2>1. gi' = gi + 1 /\ gpc' = gpc
    BY <1>6 DEF GettextHeader, GPhdr
  <2>2. Before' = Before
    <3>1. gi' - 1 = gi
      BY <1>3, <2>1
    <3>2. Gathered(gfile)[gi] = Gathered(gfile)[gi - 1] \o Part(gfile, gi)
      BY <1>2, GatheredIs DEF GathersParts
    <3>3. Part(gfile, gi) = <<>>
      BY <1>6 DEF Part, Wanted, GPhdr
    <3>4. Before \o <<>> = Before
      BY <1>3, ConcatEmptySeq
    <3> QED BY <1>1, <3>1, <3>2, <3>3, <3>4 DEF Before
  <2>3. gi' \in 1..Len(gfile'.phdrs) + 1
    BY <1>1, <1>2, <1>3, <2>1
  <2>4. GettextTypes'
    BY <1>1, <2>1, <2>3 DEF GettextTypes
  <2> QED BY <1>1, <2>1, <2>2, <2>4 DEF GettextInv, CopyInv
<1> QED BY <1>5, <1>6

\* A run of the current segment, behind what came before, is a beginning of the image.
LEMMA RunBegins ==
  ASSUME GettextTypes, gi \in 1..Len(gfile.phdrs), Wanted(GPhdr),
         NEW d \in Nat, d <= GPhdr.filesz, NEW q, q = Before \o Run(GPhdr.off, d)
  PROVE  /\ q \in Seq(Nat) /\ Begins(q, Text(gfile))
         /\ d = GPhdr.filesz => q = Gathered(gfile)[gi]
<1> DEFINE o == GPhdr.off
           n == GPhdr.filesz
           b == Before
           g == Gathered(gfile)[gi]
<1>1. gfile \in Elfs
  BY DEF GettextTypes
<1>2. o \in Nat /\ n \in Nat /\ Segment(GPhdr) = Run(o, n)
  BY <1>1, PartIs DEF GPhdr
<1>3. b \in Seq(Nat) /\ Len(gfile.phdrs) \in Nat
  BY BeforeIs
<1>4. g = b \o Run(o, n)
  <2>1. GathersParts(Gathered(gfile), gfile)
    BY <1>1, GatheredIs
  <2>2. Part(gfile, gi) = Segment(GPhdr)
    BY DEF Part, Wanted, GPhdr
  <2> QED BY <1>2, <2>1, <2>2 DEF GathersParts, Before
<1>5. g \in Seq(Nat) /\ Begins(g, Text(gfile))
  <2>1. gi \in 0..Len(gfile.phdrs)
    BY <1>3
  <2> QED BY <1>1, <2>1, GatheredBegins
<1>6. n - d \in Nat /\ o + d \in Nat /\ d + (n - d) = n
  BY <1>2
<1> DEFINE r == Run(o, d)
           t == Run(o + d, n - d)
<1>7. r \in Seq(Nat) /\ t \in Seq(Nat) /\ r \o t = Run(o, n)
  <2> DEFINE e == n - d
  <2> HIDE DEF o, n, e
  <2>1. e \in Nat /\ o \in Nat /\ o + d \in Nat /\ d + e = n
    BY <1>2, <1>6 DEF e
  <2>2. Run(o, d) \in Seq(Nat) /\ Run(o + d, e) \in Seq(Nat)
    BY <2>1, RunIs
  <2>3. Run(o, d) \o Run(o + d, e) = Run(o, d + e)
    BY <2>1, RunsMeet
  <2> QED BY <2>1, <2>2, <2>3 DEF e
<1>8. q = b \o r
  OBVIOUS
<1> HIDE DEF o, n, b, g, r, t
<1>9. g = q \o t
  <2>1. (b \o r) \o t = b \o (r \o t)
    BY <1>3, <1>7, Regroup
  <2> QED BY <1>4, <1>7, <1>8, <2>1
<1>10. q \in Seq(Nat)
  BY <1>3, <1>7, <1>8
<1>11. Begins(q, g)
  BY <1>7, <1>9 DEF Begins
<1>12. Begins(q, Text(gfile))
  BY <1>5, <1>10, <1>11, BeginsTransitive
<1>13. d = n => q = g
  BY <1>4, <1>8 DEF r
<1> QED BY <1>10, <1>12, <1>13 DEF g, n

\* A round of xfcopy adds the next bytes of the segment.
LEMMA CopyKeeps ==
  ASSUME GettextInv, CopyRound
  PROVE  GettextInv'
<1> DEFINE nr == Lesser(SECTSIZE, gleft)
           d == GPhdr.filesz - gleft
<1>1. /\ GettextTypes /\ gpc = "copy" /\ gfile' = gfile /\ gi' = gi /\ gpc' = gpc
      /\ goff' = goff + nr /\ gleft' = gleft - nr
      /\ gout' = gout \o [k \in 1..nr |-> goff + k - 1]
  BY DEF GettextInv, CopyRound
<1>2. /\ gi \in 1..Len(gfile.phdrs) /\ Wanted(GPhdr) /\ gleft \in Nat /\ gleft <= GPhdr.filesz
      /\ goff = GPhdr.off + d /\ gout = Before \o Run(GPhdr.off, d)
  BY <1>1 DEF GettextInv, CopyInv
<1>3. GPhdr.off \in Nat /\ GPhdr.filesz \in Nat
  BY <1>1, <1>2, PartIs DEF GettextTypes, GPhdr
<1>4. nr \in Nat /\ nr <= gleft
  <2>1. gleft \in Nat /\ SECTSIZE \in Nat
    BY <1>2, ElfAssumption
  <2> QED BY <2>1 DEF Lesser
<1>5. d \in Nat /\ d + nr \in Nat /\ d + nr <= GPhdr.filesz /\ GPhdr.filesz - (gleft - nr) = d + nr
  <2>1. gleft \in Nat /\ gleft <= GPhdr.filesz
    BY <1>2
  <2> HIDE DEF nr
  <2> QED BY <1>3, <1>4, <2>1
<1>6. GPhdr' = GPhdr /\ Before' = Before
  BY <1>1 DEF GPhdr, Before
<1>7. gout' = gout \o Run(goff, nr)
  BY <1>1 DEF Run
<1> HIDE DEF nr, d
<1>8. gout' = Before \o Run(GPhdr.off, d + nr)
  <2> DEFINE r == Run(GPhdr.off, d)
             t == Run(goff, nr)
             b == Before
  <2>1. r \o t = Run(GPhdr.off, d + nr)
    BY <1>2, <1>3, <1>4, <1>5, RunsMeet
  <2>2. b \in Seq(Nat)
    BY <1>1, BeforeIs
  <2>3. r \in Seq(Nat) /\ t \in Seq(Nat)
    <3>1. goff \in Nat
      BY <1>2, <1>3, <1>5
    <3> QED BY <1>3, <1>4, <1>5, <3>1, RunIs
  <2> HIDE DEF r, t, b
  <2>4. (b \o r) \o t = b \o (r \o t)
    BY <2>2, <2>3, Regroup
  <2>5. gout' = (b \o r) \o t
    BY <1>2, <1>7 DEF b, r, t
  <2> QED BY <2>1, <2>4, <2>5 DEF b
<1>9. gout' \in Seq(Nat) /\ Begins(gout', Text(gfile))
  <2> DEFINE q == gout'
             e == d + nr
  <2>1. e \in Nat /\ e <= GPhdr.filesz /\ q = Before \o Run(GPhdr.off, e)
    BY <1>5, <1>8
  <2> HIDE DEF q, e
  <2>2. q \in Seq(Nat) /\ Begins(q, Text(gfile))
    BY <1>1, <1>2, <2>1, RunBegins
  <2> QED BY <2>2 DEF q
<1>10. GettextTypes'
  BY <1>1, <1>9 DEF GettextTypes
<1>11. gleft' \in Nat /\ gleft' <= GPhdr.filesz /\ GPhdr.filesz - gleft' = d + nr
       /\ goff' = GPhdr.off + (d + nr)
  BY <1>1, <1>2, <1>3, <1>4, <1>5, SMTT(60)
<1>12. CopyInv'
  BY <1>1, <1>2, <1>6, <1>8, <1>11 DEF CopyInv
<1>13. Text(gfile)' = Text(gfile)
  BY <1>1
<1> QED BY <1>1, <1>9, <1>10, <1>12, <1>13 DEF GettextInv

\* A short write leaves a part of the round's bytes.
LEMMA ShortWriteKeeps ==
  ASSUME GettextInv, ShortWrite
  PROVE  GettextInv'
<1> DEFINE nr == Lesser(SECTSIZE, gleft)
           d == GPhdr.filesz - gleft
<1>1. GettextTypes /\ gpc = "copy" /\ gfile' = gfile /\ gi' = gi /\ gpc' = "exit1"
  BY DEF GettextInv, ShortWrite
<1>2. PICK m \in 1..nr - 1 : gout' = gout \o [k \in 1..m |-> goff + k - 1]
  BY DEF ShortWrite
<1>3. /\ gi \in 1..Len(gfile.phdrs) /\ Wanted(GPhdr) /\ gleft \in Nat /\ gleft <= GPhdr.filesz
      /\ goff = GPhdr.off + d /\ gout = Before \o Run(GPhdr.off, d)
  BY <1>1 DEF GettextInv, CopyInv
<1>4. GPhdr.off \in Nat /\ GPhdr.filesz \in Nat
  BY <1>1, <1>3, PartIs DEF GettextTypes, GPhdr
<1>5. m \in Nat /\ m <= gleft
  <2>1. gleft \in Nat /\ SECTSIZE \in Nat
    BY <1>3, ElfAssumption
  <2> QED BY <1>2, <2>1 DEF Lesser
<1>6. d \in Nat /\ d + m \in Nat /\ d + m <= GPhdr.filesz
  <2>1. gleft \in Nat /\ gleft <= GPhdr.filesz
    BY <1>3
  <2> QED BY <1>4, <1>5, <2>1
<1>7. gout' = gout \o Run(goff, m)
  BY <1>2 DEF Run
<1> HIDE DEF nr, d
<1>8. gout' = Before \o Run(GPhdr.off, d + m)
  <2> DEFINE r == Run(GPhdr.off, d)
             t == Run(goff, m)
             b == Before
  <2>1. r \o t = Run(GPhdr.off, d + m)
    BY <1>3, <1>4, <1>5, <1>6, RunsMeet
  <2>2. b \in Seq(Nat)
    BY <1>1, BeforeIs
  <2>3. r \in Seq(Nat) /\ t \in Seq(Nat)
    <3>1. goff \in Nat
      BY <1>3, <1>4, <1>6
    <3> QED BY <1>4, <1>5, <1>6, <3>1, RunIs
  <2> HIDE DEF r, t, b
  <2>4. (b \o r) \o t = b \o (r \o t)
    BY <2>2, <2>3, Regroup
  <2>5. gout' = (b \o r) \o t
    BY <1>3, <1>7 DEF b, r, t
  <2> QED BY <2>1, <2>4, <2>5 DEF b
<1>9. gout' \in Seq(Nat) /\ Begins(gout', Text(gfile))
  <2> DEFINE q == gout'
             e == d + m
  <2>1. e \in Nat /\ e <= GPhdr.filesz /\ q = Before \o Run(GPhdr.off, e)
    BY <1>6, <1>8
  <2> HIDE DEF q, e
  <2>2. q \in Seq(Nat) /\ Begins(q, Text(gfile))
    BY <1>1, <1>3, <2>1, RunBegins
  <2> QED BY <2>2 DEF q
<1>10. GettextTypes'
  BY <1>1, <1>9 DEF GettextTypes
<1>11. Text(gfile)' = Text(gfile)
  BY <1>1
<1> QED BY <1>1, <1>9, <1>10, <1>11 DEF GettextInv, CopyInv

\* The segment is complete.
LEMMA CopyDoneKeeps ==
  ASSUME GettextInv, CopyDone
  PROVE  GettextInv'
<1>1. /\ GettextTypes /\ gpc = "copy" /\ gleft = 0 /\ gi' = gi + 1 /\ gpc' = "header"
      /\ gfile' = gfile /\ gout' = gout /\ Begins(gout, Text(gfile))
  BY DEF GettextInv, CopyDone
<1> DEFINE d == GPhdr.filesz
<1>2. /\ gi \in 1..Len(gfile.phdrs) /\ Wanted(GPhdr)
      /\ gout = Before \o Run(GPhdr.off, GPhdr.filesz - gleft)
  BY <1>1 DEF GettextInv, CopyInv
<1>3. d \in Nat /\ d <= GPhdr.filesz /\ GPhdr.filesz - gleft = d
  <2>1. GPhdr.filesz \in Nat
    BY <1>1, <1>2, PartIs DEF GettextTypes, GPhdr
  <2> QED BY <1>1, <2>1
<1>4. gout = Before \o Run(GPhdr.off, d) /\ d = GPhdr.filesz
  BY <1>2, <1>3
<1> HIDE DEF d
<1>5. gout = Gathered(gfile)[gi]
  BY <1>1, <1>2, <1>3, <1>4, RunBegins
<1>6. Len(gfile.phdrs) \in Nat /\ gi \in Nat
  BY <1>1, BeforeIs
<1>7. gi' - 1 = gi /\ gi' \in 1..Len(gfile'.phdrs) + 1
  BY <1>1, <1>2, <1>6
<1>8. Before' = gout
  BY <1>1, <1>5, <1>7 DEF Before
<1>9. GettextTypes'
  BY <1>1, <1>7 DEF GettextTypes
<1> QED BY <1>1, <1>8, <1>9 DEF GettextInv, CopyInv

\* The steps that copy nothing and pass no header.
LEMMA GettextRestKeeps ==
  ASSUME GettextInv, GettextFails \/ GettextOpen \/ GettextExit
  PROVE  GettextInv'
<1>1. /\ GettextTypes /\ gi' = gi /\ gfile' = gfile /\ gout' = gout /\ Begins(gout, Text(gfile))
      /\ gpc \in {"none", "open", "header"} => gout = Before
  BY DEF GettextInv, GettextFails, GettextOpen, GettextExit
<1>2. \/ gpc' = "exit1"
      \/ gpc = "open" /\ gpc' = "header"
      \/ gpc = "header" /\ gpc' = "exit0" /\ gi \notin DOMAIN gfile.phdrs
  BY DEF GettextFails, GettextOpen, GettextExit
<1>3. GettextTypes'
  BY <1>1, <1>2 DEF GettextTypes
<1>4. Before' = Before
  BY <1>1 DEF Before
<1>5. gpc' = "exit0" => gout = Text(gfile)
  <2> SUFFICES ASSUME gpc' = "exit0" PROVE gout = Text(gfile)
    OBVIOUS
  <2>1. gpc = "header" /\ gi \notin DOMAIN gfile.phdrs
    BY <1>2
  <2>2. /\ Len(gfile.phdrs) \in Nat /\ DOMAIN gfile.phdrs = 1..Len(gfile.phdrs)
        /\ gi \in 1..Len(gfile.phdrs) + 1 /\ gfile \in Elfs
    BY <1>1 DEF GettextTypes, Elfs
  <2>3. gi - 1 = Len(gfile.phdrs)
    BY <2>1, <2>2
  <2>4. Before = Text(gfile)
    BY <2>2, <2>3, GatheredIs DEF Before
  <2> QED BY <1>1, <2>1, <2>4
<1> QED BY <1>1, <1>2, <1>3, <1>4, <1>5 DEF GettextInv, CopyInv

\* Nothing the other programs do matters to gettext.
LEMMA GettextStep ==
  ASSUME GettextInv, [PNext]_progVars
  PROVE  GettextInv'
<1>1. CASE GettextNext
  BY <1>1, GettextHeaderKeeps, CopyKeeps, ShortWriteKeeps, CopyDoneKeeps, GettextRestKeeps DEF GettextNext
<1>2. CASE UNCHANGED gettextVars
  <2>1. /\ gfile' = gfile /\ gi' = gi /\ goff' = goff /\ gleft' = gleft /\ gout' = gout
        /\ gpc' = gpc
    BY <1>2 DEF gettextVars
  <2>2. GPhdr' = GPhdr /\ Before' = Before
    BY <2>1 DEF GPhdr, Before
  <2>3. GettextTypes' /\ CopyInv'
    BY <2>1, <2>2 DEF GettextInv, GettextTypes, CopyInv
  <2> QED BY <2>1, <2>2, <2>3 DEF GettextInv
<1> QED BY <1>1, <1>2, GettextStepIs

\* The image is always a beginning of the executable segments, and all of them at a
\* successful end, for any number of headers and segments of any size.
THEOREM GettextExtracts == ProgramsSpec => []TextExtracted
<1>1. ProgramsInit => GettextInv
  BY GettextBegins
<1>2. GettextInv /\ [ProgramStep \/ OthersStep \/ Rest]_progVars => GettextInv'
  BY GettextStep DEF PNext
<1>3. GettextInv => TextExtracted
  <2> SUFFICES ASSUME GettextInv PROVE TextExtracted
    OBVIOUS
  <2>1. gout \in Seq(Nat) /\ Begins(gout, Text(gfile)) /\ (gpc = "exit0" => gout = Text(gfile))
    BY DEF GettextInv, GettextTypes
  <2> QED BY <2>1, BeginsIsPrefix DEF TextExtracted
<1> QED BY <1>1, <1>2, <1>3, PTL DEF ProgramsSpec

----------------------------------------------------------------------------
(* The utilities.  One of them runs: its steps keep its own part of the     *)
(* invariant, and no other part says anything about it.                     *)

\* A step of the composition, seen by the utilities.
LEMMA UtilStepIs ==
  ASSUME [PNext]_progVars
  PROVE  [UtilNext]_utilVars
BY DEF PNext, ProgramStep, OthersStep, Rest, progVars, NotEval, NotWc, NotMkdir, NotUtil,
   NotDev, NotLoader, NotGettext, UtilNext

\* The job that runs is one of Jobs, or no program runs.
JobInv == job \in Jobs \cup {NoJobRuns}

\* The sizes of ints and buffers.
LEMMA UtilSizes == IntMax \in Nat \ {0} /\ CatBuf \in Nat \ {0} /\ PrintfBuf \in Nat \ {0}
BY UtilitiesAssumption

\* The numbers from 1 to n.
UpToNumber(n) == [k \in 1..n |-> k]

\* One number more.
LEMMA OneMoreNumber ==
  ASSUME NEW n \in Nat
  PROVE  /\ UpToNumber(0) = <<>> /\ Len(UpToNumber(n)) = n
         /\ Append(UpToNumber(n), n + 1) = UpToNumber(n + 1)
<1>1. Len(UpToNumber(n)) = n /\ UpToNumber(n) \in Seq(Nat)
  BY DEF UpToNumber
<1>2. UpToNumber(0) = <<>>
  BY DEF UpToNumber
<1>3. Append(UpToNumber(n), n + 1) = UpToNumber(n + 1)
  BY <1>1 DEF UpToNumber
<1> QED BY <1>1, <1>2, <1>3

\* ls and its loop over the entries.
LsInv ==
  job.prog = "ls" =>
    /\ ui \in 1..Len(job.names) + 1 /\ uout = UpToNumber(ui - 1)
    /\ upc = "exit" /\ ucode = 0 => ui = Len(job.names) + 1

LsSteps == LsOpen \/ LsEntry \/ (GoesOn /\ job.prog = "ls") \/ LsFails \/ LsDone

\* The steps of ls.
LEMMA LsStepsAre ==
  ASSUME [UtilNext]_utilVars, job.prog = "ls"
  PROVE  LsSteps \/ UNCHANGED utilVars
BY DEF UtilNext, UtilStep, LsSteps, Runs, FileChanges, Pause,
       CatRead, CatEof, CatOpen, CatSize, CatMap, CatWrite,
       KillUsage, KillHelpArg, KillSignal, KillNull, KillPid, KillSends,
       SeqUsage, SeqStart, SeqPrint, SeqEnd, StatUsage, StatFile, StatDone,
       PrintString, PrintDone, Link, Sleep, Pwd, Crash, Yes

\* A step of ls.
LEMMA LsKeeps ==
  ASSUME JobInv, LsInv, job.prog = "ls", LsSteps
  PROVE  LsInv'
<1> DEFINE N == Len(job.names)
<1>1. job.names \in Seq(Nat) /\ N \in Nat
  BY UtilitiesAssumption DEF JobInv, NoJobRuns
<1>2. ui \in 1..N + 1 /\ uout = UpToNumber(ui - 1)
  BY DEF LsInv
<1>3. CASE LsOpen
  <2>1. job' = job /\ ui' = ui /\ uout' = uout /\ upc = "start"
        /\ (upc' = "loop" \/ ucode' = 1)
    BY <1>3 DEF LsOpen, Runs, Exit
  <2> QED BY <1>2, <2>1 DEF LsInv
<1>4. CASE LsEntry
  <2>1. /\ job' = job /\ ui \in DOMAIN job.names /\ uout' = Append(uout, ui) /\ ui' = ui + 1
        /\ upc' # "exit"
    BY <1>4 DEF LsEntry, Runs
  <2>2. ui \in 1..N
    BY <1>1, <2>1
  <2>3. ui' \in 1..N + 1 /\ ui' - 1 = ui /\ ui - 1 \in Nat /\ (ui - 1) + 1 = ui
    <3>1. ui' = ui + 1 /\ ui \in 1..N /\ N \in Nat
      BY <1>1, <2>1, <2>2
    <3> HIDE DEF N
    <3> QED BY <3>1
  <2>4. uout' = UpToNumber(ui' - 1)
    BY <1>2, <2>1, <2>3, OneMoreNumber
  <2> QED BY <2>1, <2>3, <2>4 DEF LsInv
<1>5. CASE GoesOn
  <2>1. job' = job /\ ui' = ui /\ uout' = uout /\ upc' = "loop"
    BY <1>5 DEF GoesOn
  <2> QED BY <1>2, <2>1 DEF LsInv
<1>6. CASE LsFails
  <2>1. job' = job /\ ui' = ui /\ uout' = uout /\ ucode' = 1
    BY <1>6 DEF LsFails, Exit
  <2> QED BY <1>2, <2>1 DEF LsInv
<1>7. CASE LsDone
  <2>1. /\ job' = job /\ ui' = ui /\ uout' = uout /\ ui \notin DOMAIN job.names
        /\ upc' = "exit" /\ ucode' = 0
    BY <1>7 DEF LsDone, Runs, Exit
  <2>2. ui \notin 1..N
    BY <1>1, <2>1
  <2>3. ui = N + 1
    BY <1>1, <1>2, <2>2
  <2> QED BY <1>2, <2>1, <2>3 DEF LsInv
<1> QED BY <1>3, <1>4, <1>5, <1>6, <1>7 DEF LsSteps

\* echo and env.
PrintInv ==
  job.prog \in {"echo", "env"} =>
    /\ ui \in 1..Len(job.lens) + 1 /\ uout = UpToNumber(ui - 1)
    /\ upc = "exit" => ui = Len(job.lens) + 1

PrintSteps == PrintString \/ PrintDone \/ (GoesOn /\ job.prog # "ls")

\* The steps of echo and env.
LEMMA PrintStepsAre ==
  ASSUME [UtilNext]_utilVars, job.prog \in {"echo", "env"}
  PROVE  PrintSteps \/ UNCHANGED utilVars
BY DEF UtilNext, UtilStep, PrintSteps, Runs, FileChanges, Pause, LsOpen, LsEntry, LsFails, LsDone,
       CatRead, CatEof, CatOpen, CatSize, CatMap, CatWrite,
       KillUsage, KillHelpArg, KillSignal, KillNull, KillPid, KillSends,
       SeqUsage, SeqStart, SeqPrint, SeqEnd, StatUsage, StatFile, StatDone,
       Link, Sleep, Pwd, Crash, Yes

\* A step of echo or env.
LEMMA PrintKeeps ==
  ASSUME JobInv, PrintInv, job.prog \in {"echo", "env"}, PrintSteps
  PROVE  PrintInv'
<1> DEFINE N == Len(job.lens)
<1>1. job.lens \in Seq(Nat) /\ N \in Nat
  BY UtilitiesAssumption DEF JobInv, NoJobRuns
<1>2. ui \in 1..N + 1 /\ uout = UpToNumber(ui - 1)
  BY DEF PrintInv
<1>3. CASE PrintString
  <2>1. /\ job' = job /\ ui \in DOMAIN job.lens /\ uout' = Append(uout, ui) /\ ui' = ui + 1
        /\ upc' # "exit"
    BY <1>3 DEF PrintString
  <2>2. ui \in 1..N
    BY <1>1, <2>1
  <2>3. ui' \in 1..N + 1 /\ ui' - 1 = ui /\ ui - 1 \in Nat /\ (ui - 1) + 1 = ui
    <3>1. ui' = ui + 1 /\ ui \in 1..N /\ N \in Nat
      BY <1>1, <2>1, <2>2
    <3> HIDE DEF N
    <3> QED BY <3>1
  <2>4. uout' = UpToNumber(ui' - 1)
    BY <1>2, <2>1, <2>3, OneMoreNumber
  <2> QED BY <2>1, <2>3, <2>4 DEF PrintInv
<1>4. CASE PrintDone
  <2>1. job' = job /\ ui' = ui /\ uout' = uout /\ ui \notin DOMAIN job.lens /\ upc' = "exit"
    BY <1>4 DEF PrintDone, Exit
  <2>2. ui \notin 1..N
    BY <1>1, <2>1
  <2>3. ui = N + 1
    BY <1>1, <1>2, <2>2
  <2> QED BY <1>2, <2>1, <2>3 DEF PrintInv
<1>5. CASE GoesOn /\ job.prog # "ls"
  <2>1. job' = job /\ ui' = ui /\ uout' = uout /\ upc' = "start"
    BY <1>5 DEF GoesOn
  <2> QED BY <1>2, <2>1 DEF PrintInv
<1> QED BY <1>3, <1>4, <1>5 DEF PrintSteps

\* cat: standard input is copied from the front; a file that is mapped is written as
\* long as it was when its size was taken.
Rising(s) == \A j, k \in DOMAIN s : j < k => s[j] < s[k]
\* As much as was read of standard input was written, if no write was short.
CopiedSoFar(s, i) == Len(s) <= i - 1 /\ (Len(s) = i - 1 => s = Bytes(1, i - 1))
Mapped(w) == [k \in 1..w |-> IF k <= ufile.now THEN k ELSE 0]

CatInv ==
  job.prog = "cat" =>
    /\ ui \in Nat \ {0} /\ uout \in Seq(Nat)
    /\ ufile \in [now : Nat, seen : Nat]
    /\ upc \in {"start", "size", "map", "write", "exit"}
    /\ job.stdin => /\ upc \in {"start", "exit"} /\ Rising(uout)
                    /\ \A j \in DOMAIN uout : uout[j] \in 1..ui - 1
                    /\ CopiedSoFar(uout, ui)
    /\ ~ job.stdin =>
         /\ upc # "exit" => uout = <<>>
         /\ upc \in {"map", "write"} /\ ufile.now = job.size => ufile.seen = job.size
         /\ upc = "write" => ufile.seen > 0
         /\ \E w \in Nat : /\ uout = Mapped(w)
                           /\ ufile.now = job.size => w <= ufile.now
         /\ upc = "exit" /\ ucode = 0 =>
              ufile.seen > 0 /\ (ufile.now = job.size => ufile.seen = job.size)

CatSteps == CatRead \/ CatEof \/ CatOpen \/ CatSize \/ CatMap \/ CatWrite \/ FileChanges

\* The steps of cat, and of others at its file.
LEMMA CatStepsAre ==
  ASSUME CatInv, [UtilNext]_utilVars, job.prog = "cat"
  PROVE  CatSteps \/ UNCHANGED utilVars
<1>1. upc # "overrun"
  BY DEF CatInv
<1> QED
BY <1>1 DEF UtilNext, UtilStep, CatSteps, Runs, Pause, LsOpen, LsEntry, LsFails, LsDone, GoesOn,
       KillUsage, KillHelpArg, KillSignal, KillNull, KillPid, KillSends,
       SeqUsage, SeqStart, SeqPrint, SeqEnd, StatUsage, StatFile, StatDone,
       PrintString, PrintDone, Link, Sleep, Pwd, Crash, Yes

\* The bytes from a place on.
LEMMA BytesAre ==
  ASSUME NEW a \in Nat, NEW n \in Nat
  PROVE  /\ Bytes(a, n) \in Seq(Nat) \/ a = 0
         /\ Len(Bytes(a, n)) = n /\ DOMAIN Bytes(a, n) = 1..n
         /\ \A k \in 1..n : Bytes(a, n)[k] = a + k - 1
BY DEF Bytes

\* A rising sequence below a place, and the bytes from there on.
LEMMA RisingOn ==
  ASSUME NEW s \in Seq(Nat), Rising(s), NEW a \in Nat \ {0}, NEW w \in Nat, NEW b \in Nat, a + w <= b,
         \A j \in DOMAIN s : s[j] \in 1..a - 1
  PROVE  /\ s \o Bytes(a, w) \in Seq(Nat) /\ Rising(s \o Bytes(a, w))
         /\ \A j \in DOMAIN (s \o Bytes(a, w)) : (s \o Bytes(a, w))[j] \in 1..b - 1
<1> DEFINE t == Bytes(a, w)
           u == s \o t
           n == Len(s)
<1>1. t \in Seq(Nat) /\ Len(t) = w /\ \A k \in 1..w : t[k] = a + k - 1
  BY BytesAre
<1> HIDE DEF t
<1>2. u \in Seq(Nat) /\ Len(u) = n + w /\ n \in Nat
  <2>1. t \in Seq(Nat) /\ Len(t) = w
    BY <1>1
  <2>2. u \in Seq(Nat) /\ Len(u) = Len(s) + Len(t)
    BY <2>1, ConcatProperties
  <2>3. Len(s) \in Nat
    OBVIOUS
  <2> QED BY <2>1, <2>2, <2>3
<1>3. \A k \in 1..n : u[k] = s[k] /\ s[k] \in 1..a - 1
  BY <1>1
<1>4. \A k \in n + 1..n + w : u[k] = a + (k - n) - 1
  <2> TAKE k \in n + 1..n + w
  <2>1. k - n \in 1..w
    BY <1>1, <1>2
  <2>2. u[k] = t[k - n]
    BY <1>1, <1>2
  <2> QED BY <1>1, <2>1, <2>2
<1>5. DOMAIN u = 1..n + w /\ DOMAIN s = 1..n
  BY <1>2
<1> HIDE DEF u, n
<1>6. \A k \in 1..n + w : k \in 1..n \/ k \in n + 1..n + w
  BY <1>2
<1>7. \A k \in 1..n + w : u[k] \in 1..b - 1
  <2> TAKE k \in 1..n + w
  <2>1. CASE k \in 1..n
    <3>1. u[k] \in 1..a - 1
      BY <1>3, <2>1
    <3> QED BY <3>1
  <2>2. CASE k \in n + 1..n + w
    <3>1. u[k] = a + (k - n) - 1
      BY <1>4, <2>2
    <3>2. a + (k - n) - 1 \in 1..b - 1
      BY <1>2, <2>2
    <3> QED BY <3>1, <3>2
  <2> QED BY <1>6, <2>1, <2>2
<1>8. Rising(u)
  <2> SUFFICES ASSUME NEW j \in 1..n + w, NEW k \in 1..n + w, j < k PROVE u[j] < u[k]
    BY <1>5 DEF Rising
  <2>1. CASE k \in 1..n
    <3>1. j \in 1..n
      BY <1>2, <2>1
    <3> QED BY <1>3, <1>5, <2>1, <3>1 DEF Rising
  <2>2. CASE k \in n + 1..n + w /\ j \in 1..n
    <3>1. u[j] \in 1..a - 1 /\ u[k] = a + (k - n) - 1
      BY <1>3, <1>4, <2>2
    <3> QED BY <1>2, <2>2, <3>1
  <2>3. CASE k \in n + 1..n + w /\ j \in n + 1..n + w
    <3>1. u[j] = a + (j - n) - 1 /\ u[k] = a + (k - n) - 1
      BY <1>4, <2>3
    <3> QED BY <1>2, <2>3, <3>1
  <2> QED BY <1>6, <2>1, <2>2, <2>3
<1> QED BY <1>2, <1>5, <1>7, <1>8 DEF u, t

\* A round of cat, whose write may be short.
LEMMA CopiedOn ==
  ASSUME NEW s \in Seq(Nat), NEW i \in Nat \ {0}, NEW n \in Nat, NEW w \in 0..n,
         CopiedSoFar(s, i)
  PROVE  CopiedSoFar(s \o Bytes(i, w), i + n)
<1> DEFINE t == Bytes(i, w)
           u == s \o t
           e == Len(s)
<1>0. w \in Nat /\ i \in Nat /\ i # 0
  OBVIOUS
<1>1. w \in Nat /\ t \in Seq(Nat) /\ Len(t) = w /\ \A k \in 1..w : t[k] = i + k - 1
  BY <1>0, BytesAre
<1> HIDE DEF t
<1>2. u \in Seq(Nat) /\ Len(u) = e + w /\ e \in Nat
  <2>1. u \in Seq(Nat) /\ Len(u) = Len(s) + Len(t) /\ Len(t) = w
    BY <1>1, ConcatProperties
  <2> QED BY <2>1
<1>3. /\ e <= i - 1 /\ (e = i - 1 => s = Bytes(1, i - 1))
  BY DEF CopiedSoFar
<1>4. ASSUME e + w = i + n - 1 PROVE u = Bytes(1, i + n - 1)
  <2>1. e = i - 1 /\ w = n
    <3> HIDE DEF e
    <3> QED BY <1>1, <1>2, <1>3, <1>4
  <2>2. /\ s = Bytes(1, i - 1) /\ i - 1 \in Nat /\ i + n - 1 \in Nat
        /\ e + w = i + n - 1
    BY <1>3, <1>4, <2>1
  <2>3. \A k \in 1..i - 1 : u[k] = k
    <3> TAKE k \in 1..i - 1
    <3>1. k \in 1..Len(s) /\ 1 + k - 1 = k
      BY <2>1
    <3>2. s[k] = 1 + k - 1
      BY <2>2, BytesAre
    <3> QED BY <1>1, <3>1, <3>2
  <2>4. \A k \in i..i + n - 1 : u[k] = k
    <3> TAKE k \in i..i + n - 1
    <3>1. k - e \in 1..w /\ k \in e + 1..e + w /\ i + (k - e) - 1 = k
      <4> HIDE DEF e
      <4> QED BY <1>2, <2>1
    <3>2. u[k] = t[k - e]
      BY <1>1, <1>2, <3>1
    <3> QED BY <1>1, <3>1, <3>2
  <2>5. \A k \in 1..i + n - 1 : u[k] = 1 + k - 1
    <3> TAKE k \in 1..i + n - 1
    <3>1. (k \in 1..i - 1 \/ k \in i..i + n - 1) /\ 1 + k - 1 = k
      OBVIOUS
    <3> QED BY <2>3, <2>4, <3>1
  <2>6. DOMAIN u = 1..i + n - 1 /\ u = [k \in DOMAIN u |-> u[k]]
    <3>1. u \in Seq(Nat) /\ Len(u) = i + n - 1
      BY <1>2, <2>2
    <3> HIDE DEF u
    <3> QED BY <3>1
  <2> HIDE DEF u
  <2> QED BY <2>5, <2>6 DEF Bytes
<1>5. e + w <= i + n - 1 /\ (i + n) - 1 = i + n - 1
  <2> HIDE DEF e
  <2> QED BY <1>1, <1>2, <1>3
<1> HIDE DEF u, e
<1> QED BY <1>2, <1>4, <1>5 DEF CopiedSoFar, u, t

\* cat without a file.
LEMMA CatCopiesInput ==
  ASSUME CatInv, job.prog = "cat", job.stdin, CatSteps
  PROVE  CatInv'
<1>1. ui \in Nat \ {0} /\ uout \in Seq(Nat) /\ ufile \in [now : Nat, seen : Nat]
      /\ Rising(uout) /\ CopiedSoFar(uout, ui) /\ upc \in {"start", "exit"}
      /\ \A j \in DOMAIN uout : uout[j] \in 1..ui - 1
  BY DEF CatInv
<1>2. CASE CatRead
  <2>1. PICK n \in 1..CatBuf : \E w \in 0..n : uout' = uout \o Bytes(ui, w) /\ ui' = ui + n
    BY <1>2 DEF CatRead
  <2>2. PICK w \in 0..n : uout' = uout \o Bytes(ui, w) /\ ui' = ui + n
    BY <2>1
  <2>3. job' = job /\ ufile' = ufile /\ upc' = upc
    BY <1>2 DEF CatRead
  <2>4. n \in Nat /\ w \in Nat /\ ui + n \in Nat \ {0} /\ ui + w <= ui + n
    BY <1>1, UtilSizes
  <2>5. /\ uout' \in Seq(Nat) /\ Rising(uout')
        /\ \A j \in DOMAIN uout' : uout'[j] \in 1..ui' - 1
    BY <1>1, <2>2, <2>4, RisingOn
  <2>6. CopiedSoFar(uout', ui')
    BY <1>1, <2>2, <2>4, CopiedOn
  <2> QED BY <1>1, <2>2, <2>3, <2>4, <2>5, <2>6 DEF CatInv
<1>3. CASE CatEof
  <2>1. job' = job /\ ui' = ui /\ uout' = uout /\ ufile' = ufile /\ upc' = "exit"
    BY <1>3 DEF CatEof, Exit
  <2> QED BY <1>1, <2>1 DEF CatInv
<1>4. ~ (CatOpen \/ CatSize \/ CatMap \/ CatWrite \/ FileChanges)
  <2>1. upc = "start" \/ upc = "exit"
    BY DEF CatInv
  <2> QED BY <2>1 DEF CatOpen, CatSize, CatMap, CatWrite, FileChanges, Runs
<1> QED BY <1>2, <1>3, <1>4 DEF CatSteps

\* cat with a file, which others may change.
LEMMA CatWritesFile ==
  ASSUME JobInv, CatInv, job.prog = "cat", ~ job.stdin, CatSteps
  PROVE  CatInv'
<1>1. /\ ui \in Nat \ {0} /\ uout \in Seq(Nat) /\ ufile \in [now : Nat, seen : Nat]
      /\ upc \in {"start", "size", "map", "write", "exit"}
      /\ upc # "exit" => uout = <<>>
      /\ upc \in {"map", "write"} /\ ufile.now = job.size => ufile.seen = job.size
      /\ upc = "write" => ufile.seen > 0
  BY DEF CatInv
<1>2. job.size \in Nat
  BY UtilitiesAssumption DEF JobInv, NoJobRuns
<1>3. CatSteps => job' = job /\ ui' = ui /\ upc # "exit" /\ ~ job'.stdin
  BY DEF CatSteps, CatRead, CatEof, CatOpen, CatSize, CatMap, CatWrite, FileChanges, Runs
<1>4. ASSUME uout' = <<>>, job.size >= 0, ufile' \in [now : Nat, seen : Nat]
      PROVE  \E w \in Nat : uout' = Mapped(w)' /\ (ufile'.now = job'.size => w <= ufile'.now)
  <2>1. Mapped(0)' = <<>>
    BY DEF Mapped
  <2>2. 0 \in Nat /\ 0 <= ufile'.now
    BY <1>4
  <2> QED BY <1>4, <2>1, <2>2
<1>5. CASE CatOpen
  <2>1. uout' = uout /\ ufile' = ufile /\ (upc' = "size" \/ (upc' = "exit" /\ ucode' = 1))
    BY <1>5 DEF CatOpen, Exit
  <2>2. uout' = <<>> /\ job.size >= 0
    BY <1>1, <1>2, <1>3, <2>1
  <2> QED BY <1>1, <1>3, <1>4, <2>1, <2>2 DEF CatInv
<1>6. CASE CatSize
  <2>1. uout' = uout /\ ufile' = [ufile EXCEPT !.seen = ufile.now] /\ upc' = "map"
    BY <1>6 DEF CatSize
  <2>2. uout' = <<>> /\ job.size >= 0 /\ uout' \in Seq(Nat)
    BY <1>1, <1>2, <1>3, <2>1
  <2>3. ufile' \in [now : Nat, seen : Nat] /\ ufile'.seen = ufile'.now
    BY <1>1, <2>1
  <2>4. \E w \in Nat : uout' = Mapped(w)' /\ (ufile'.now = job'.size => w <= ufile'.now)
    BY <1>4, <2>2, <2>3
  <2> QED BY <1>1, <1>3, <2>1, <2>2, <2>3, <2>4 DEF CatInv
<1>7. CASE CatMap
  <2>1. uout' = uout /\ ufile' = ufile /\ upc = "map"
        /\ ((upc' = "write" /\ ufile.seen > 0) \/ (upc' = "exit" /\ ucode' = 1))
    BY <1>7 DEF CatMap, Exit, Runs
  <2>2. uout' = <<>> /\ job.size >= 0
    BY <1>1, <1>2, <1>3, <2>1
  <2>3. \E w \in Nat : uout' = Mapped(w)' /\ (ufile'.now = job'.size => w <= ufile'.now)
    BY <1>1, <1>4, <2>1, <2>2
  <2> QED BY <1>1, <1>3, <2>1, <2>2, <2>3 DEF CatInv
<1>8. CASE CatWrite
  <2>1. upc = "write" /\ ufile' = ufile /\ upc' = "exit"
    BY <1>8 DEF CatWrite, Exit, Runs
  <2>2. PICK w \in 0..ufile.seen : uout' = [k \in 1..w |-> IF k <= ufile.now THEN k ELSE 0]
    BY <1>8 DEF CatWrite
  <2>3. ufile.now \in Nat /\ ufile.seen \in Nat
    BY <1>1
  <2>4. w \in Nat /\ w <= ufile.seen
    BY <2>3
  <2>5. uout' = Mapped(w)'
    BY <2>1, <2>2 DEF Mapped
  <2>6. uout' \in Seq(Nat)
    BY <2>2, <2>3, <2>4
  <2>7. ufile'.now = job'.size => w <= ufile'.now /\ ufile'.seen = job'.size
    BY <1>1, <1>3, <2>1, <2>4
  <2> QED BY <1>1, <1>3, <2>1, <2>4, <2>5, <2>6, <2>7 DEF CatInv
<1>9. CASE FileChanges
  <2>1. uout' = uout /\ upc' = upc /\ upc # "exit" /\ ufile.now = job.size
        /\ ufile' \in {[ufile EXCEPT !.now = 0], [ufile EXCEPT !.now = job.size + 1]}
    BY <1>9 DEF FileChanges
  <2>2. uout' = <<>> /\ job.size >= 0 /\ uout' \in Seq(Nat)
    BY <1>1, <1>2, <2>1
  <2>3. ufile' \in [now : Nat, seen : Nat] /\ ufile'.seen = ufile.seen
    BY <1>1, <1>2, <2>1
  <2>4. upc \in {"map", "write"} /\ ufile'.now = job.size => ufile'.seen = job.size
    BY <1>1, <2>1, <2>3
  <2>5. \E w \in Nat : uout' = Mapped(w)' /\ (ufile'.now = job'.size => w <= ufile'.now)
    BY <1>4, <2>2, <2>3
  <2> QED BY <1>1, <1>3, <2>1, <2>2, <2>3, <2>4, <2>5 DEF CatInv
<1>10. ~ CatRead /\ ~ CatEof
  BY DEF CatRead, CatEof
<1> QED BY <1>5, <1>6, <1>7, <1>8, <1>9, <1>10 DEF CatSteps

\* What the invariant says of the output of cat.
LEMMA CatInvCopies == ASSUME JobInv, CatInv PROVE CatCopies
<1> SUFFICES ASSUME job.prog = "cat" PROVE CatCopies
  BY DEF CatCopies
<1>1. CASE job.stdin
  <2>1. /\ Rising(uout) /\ (\A j \in DOMAIN uout : uout[j] \in 1..ui - 1) /\ ui \in Nat
        /\ CopiedSoFar(uout, ui)
    BY <1>1 DEF CatInv
  <2>2. \A j \in DOMAIN uout : uout[j] # 0
    BY <2>1
  <2> QED BY <1>1, <2>1, <2>2 DEF CatCopies, Rising, CopiedSoFar
<1>2. CASE ~ job.stdin
  <2>1. PICK w \in Nat : uout = Mapped(w) /\ (ufile.now = job.size => w <= ufile.now)
    BY <1>2 DEF CatInv
  <2>2. ufile.now \in Nat
    BY DEF CatInv
  <2>3. DOMAIN uout = 1..w /\ Len(uout) = w
    BY <2>1 DEF Mapped
  <2>4. \A k \in 1..w : uout[k] = IF k <= ufile.now THEN k ELSE 0
    BY <2>1 DEF Mapped
  <2>5. \A j, k \in DOMAIN uout : j < k /\ uout[k] # 0 => uout[j] # 0 /\ uout[j] < uout[k]
    <3> SUFFICES ASSUME NEW j \in 1..w, NEW k \in 1..w, j < k, uout[k] # 0
                 PROVE  uout[j] # 0 /\ uout[j] < uout[k]
      BY <2>3
    <3>1. k <= ufile.now /\ uout[k] = k
      BY <2>4
    <3>2. j <= ufile.now
      BY <2>2, <3>1
    <3>3. uout[j] = j
      BY <2>4, <3>2
    <3> QED BY <3>1, <3>3
  <2>6. ufile.now = job.size => uout = Bytes(1, Len(uout))
    <3> SUFFICES ASSUME ufile.now = job.size PROVE uout = Bytes(1, w)
      BY <2>3
    <3>1. \A k \in 1..w : k <= ufile.now /\ 1 + k - 1 = k
      BY <2>1, <2>2
    <3> QED BY <2>1, <3>1 DEF Mapped, Bytes
  <2>7. upc = "exit" /\ ucode = 0 /\ ufile.now = job.size => job.size = ufile.seen /\ job.size > 0
    BY <1>2 DEF CatInv
  <2> QED BY <1>2, <2>5, <2>6, <2>7 DEF CatCopies
<1> QED BY <1>1, <1>2

\* kill: its arguments, by what they are.
TextArg(b, k) == b.args[k].opt = "text"
FlagArg(b, k) == b.args[k].opt = "-s"
HelpArg(b, k) == b.args[k].opt = "-h"
NumArg(b, k) == b.args[k].num

\* From m on there are only flags up to argument i, and none in front of m.
RunOfFlags(b, m, i) ==
  (\A j \in m..i - 1 : FlagArg(b, j)) /\ (m > 1 => ~ FlagArg(b, m - 1))
Taken(b, i) == \E m \in 1..i - 1 : (i - m) % 2 = 1 /\ RunOfFlags(b, m, i)
\* The loop looks at argument i itself.
AtHead(b, i) == \E m \in 1..i : (i - m) % 2 = 0 /\ RunOfFlags(b, m, i)

Pids(b, n) == {k \in 1..n : TextArg(b, k) /\ ~ Taken(b, k)}
Signals(b, n) == {k \in 1..n : Taken(b, k)}
LastNum(b, v, K, none) ==
  \/ K = {} /\ v = none
  \/ \E k \in K : v = NumArg(b, k) /\ \A j \in K : j <= k

KillParsed ==
  /\ ui \in 1..Len(job.args) + 1 /\ AtHead(job, ui)
  /\ ukill \in [pid : Int, signo : Int, h : BOOLEAN]
  /\ LastNum(job, ukill.pid, Pids(job, ui - 1), -1)
  /\ LastNum(job, ukill.signo, Signals(job, ui - 1), SIGKILL)
  /\ ukill.h = FALSE => \A k \in 1..ui - 1 : HelpArg(job, k) => Taken(job, k)
KillInv ==
  job.prog = "kill" =>
    /\ KillParsed
    /\ upc \in {"start", "exit", "crashed"}
    /\ upc = "start" => usent = <<>>
    /\ usent # <<>> => /\ usent = <<ukill.pid, ukill.signo>> /\ ui = Len(job.args) + 1
                       /\ ukill.h = FALSE

KillSteps == KillUsage \/ KillHelpArg \/ KillSignal \/ KillNull \/ KillPid \/ KillSends

\* The steps of kill.
LEMMA KillStepsAre ==
  ASSUME KillInv, [UtilNext]_utilVars, job.prog = "kill"
  PROVE  KillSteps \/ UNCHANGED utilVars
<1>1. upc # "overrun"
  BY DEF KillInv
<1> QED
BY <1>1 DEF UtilNext, UtilStep, KillSteps, Runs, Pause, LsOpen, LsEntry, LsFails, LsDone, GoesOn,
       CatRead, CatEof, CatOpen, CatSize, CatMap, CatWrite, FileChanges,
       SeqUsage, SeqStart, SeqPrint, SeqEnd, StatUsage, StatFile, StatDone,
       PrintString, PrintDone, Link, Sleep, Pwd, Crash, Yes

\* The arguments of kill.
LEMMA KillArgsAre ==
  ASSUME JobInv, job.prog = "kill"
  PROVE  /\ Len(job.args) \in Nat /\ DOMAIN job.args = 1..Len(job.args)
         /\ \A k \in 1..Len(job.args) : NumArg(job, k) \in Int
<1>1. job.args \in Seq(KillArgument)
  BY UtilitiesAssumption DEF JobInv, NoJobRuns
<1>2. Len(job.args) \in Nat /\ DOMAIN job.args = 1..Len(job.args)
  BY <1>1
<1>3. \A k \in 1..Len(job.args) : NumArg(job, k) \in Int
  <2> TAKE k \in 1..Len(job.args)
  <2>1. job.args[k] \in KillArgument
    BY <1>1
  <2>2. job.args[k].num \in Ints
    BY <2>1 DEF KillArgument
  <2> QED BY <2>2, UtilSizes DEF NumArg, Ints
<1> QED BY <1>2, <1>3

\* The loop never looks at an argument that is taken, and takes the one behind a flag
\* it looks at.
LEMMA HeadMoves ==
  ASSUME NEW b, NEW i \in Nat \ {0}, AtHead(b, i)
  PROVE  /\ ~ Taken(b, i)
         /\ ~ FlagArg(b, i) => AtHead(b, i + 1)
         /\ FlagArg(b, i) => Taken(b, i + 1) /\ AtHead(b, i + 2)
<1>1. PICK m \in 1..i : (i - m) % 2 = 0 /\ RunOfFlags(b, m, i)
  BY DEF AtHead
<1>2. (\A j \in m..i - 1 : FlagArg(b, j)) /\ (m > 1 => ~ FlagArg(b, m - 1))
  BY <1>1 DEF RunOfFlags
<1>3. ~ Taken(b, i)
  <2> SUFFICES ASSUME Taken(b, i) PROVE FALSE
    OBVIOUS
  <2>1. PICK p \in 1..i - 1 : (i - p) % 2 = 1 /\ RunOfFlags(b, p, i)
    BY DEF Taken
  <2>2. (\A j \in p..i - 1 : FlagArg(b, j)) /\ (p > 1 => ~ FlagArg(b, p - 1))
    BY <2>1 DEF RunOfFlags
  <2>3. CASE m < p
    <3>1. p - 1 \in m..i - 1 /\ p > 1
      BY <2>3
    <3> QED BY <1>2, <2>2, <3>1
  <2>4. CASE p < m
    <3>1. m - 1 \in p..i - 1 /\ m > 1
      BY <2>4
    <3> QED BY <1>2, <2>2, <3>1
  <2>5. CASE m = p
    BY <1>1, <2>1, <2>5
  <2> QED BY <2>3, <2>4, <2>5
<1>4. ASSUME NEW e \in Nat \ {0}, ~ FlagArg(b, e) PROVE AtHead(b, e + 1)
  <2>1. RunOfFlags(b, e + 1, e + 1)
    <3>1. (e + 1) - 1 = e /\ e + 1..e = {}
      OBVIOUS
    <3> QED BY <1>4, <3>1 DEF RunOfFlags
  <2>2. ((e + 1) - (e + 1)) % 2 = 0 /\ e + 1 \in 1..e + 1
    OBVIOUS
  <2> QED BY <2>1, <2>2 DEF AtHead
<1>5. ASSUME FlagArg(b, i) PROVE Taken(b, i + 1) /\ AtHead(b, i + 2)
  <2>1. \A j \in m..i : FlagArg(b, j)
    <3> TAKE j \in m..i
    <3>1. j = i \/ j \in m..i - 1
      OBVIOUS
    <3> QED BY <1>2, <1>5, <3>1
  <2>2. (i + 1) - 1 = i /\ ((i + 1) - m) % 2 = 1 /\ m \in 1..(i + 1) - 1
    BY <1>1
  <2>3. RunOfFlags(b, m, i + 1)
    BY <1>2, <2>1, <2>2 DEF RunOfFlags
  <2>4. Taken(b, i + 1)
    BY <2>2, <2>3 DEF Taken
  <2>5. CASE ~ FlagArg(b, i + 1)
    <3>1. i + 1 \in Nat \ {0} /\ (i + 1) + 1 = i + 2
      OBVIOUS
    <3>2. AtHead(b, (i + 1) + 1)
      BY <1>4, <2>5, <3>1
    <3> QED BY <2>4, <3>1, <3>2
  <2>6. CASE FlagArg(b, i + 1)
    <3>1. \A j \in m..i + 1 : FlagArg(b, j)
      <4> TAKE j \in m..i + 1
      <4>1. j = i + 1 \/ j \in m..i
        OBVIOUS
      <4> QED BY <2>1, <2>6, <4>1
    <3>2. (i + 2) - 1 = i + 1 /\ ((i + 2) - m) % 2 = 0 /\ m \in 1..i + 2
      BY <1>1
    <3>3. RunOfFlags(b, m, i + 2)
      BY <1>2, <3>1, <3>2 DEF RunOfFlags
    <3>4. AtHead(b, i + 2)
      BY <3>2, <3>3 DEF AtHead
    <3> QED BY <2>4, <3>4
  <2> QED BY <2>5, <2>6
<1> QED BY <1>3, <1>4, <1>5

\* Pids and signals among one argument more, or two.
LEMMA ArgumentsOn ==
  ASSUME NEW b, NEW i \in Nat \ {0}, AtHead(b, i)
  PROVE  /\ Signals(b, i) = Signals(b, i - 1)
         /\ ~ TextArg(b, i) => Pids(b, i) = Pids(b, i - 1)
         /\ TextArg(b, i) => Pids(b, i) = Pids(b, i - 1) \cup {i}
         /\ FlagArg(b, i) => /\ Signals(b, i + 1) = Signals(b, i - 1) \cup {i + 1}
                             /\ Pids(b, i + 1) = Pids(b, i - 1)
<1>1. ~ Taken(b, i) /\ (FlagArg(b, i) => Taken(b, i + 1))
  BY HeadMoves
<1>2. 1..i = 1..i - 1 \cup {i} /\ 1..i + 1 = 1..i - 1 \cup {i, i + 1}
  OBVIOUS
<1>3. FlagArg(b, i) => ~ TextArg(b, i)
  BY DEF FlagArg, TextArg
<1>4. /\ Signals(b, i) = Signals(b, i - 1)
      /\ FlagArg(b, i) => Signals(b, i + 1) = Signals(b, i - 1) \cup {i + 1}
  BY <1>1, <1>2 DEF Signals
<1>5. /\ ~ TextArg(b, i) => Pids(b, i) = Pids(b, i - 1)
      /\ TextArg(b, i) => Pids(b, i) = Pids(b, i - 1) \cup {i}
      /\ FlagArg(b, i) => Pids(b, i + 1) = Pids(b, i - 1)
  BY <1>1, <1>2, <1>3 DEF Pids
<1> QED BY <1>4, <1>5

\* The number of an argument behind all of K is the last.
LEMMA NewLast ==
  ASSUME NEW b, NEW n \in Nat, NEW K, K \subseteq 1..n, NEW i \in Nat, i > n, NEW v
  PROVE  LastNum(b, NumArg(b, i), K \cup {i}, v)
<1>1. \A j \in K \cup {i} : j <= i
  OBVIOUS
<1> QED BY <1>1 DEF LastNum

\* An argument that is neither a pid nor -s.
LEMMA KillHelpKeeps ==
  ASSUME JobInv, KillParsed, job.prog = "kill", KillHelpArg
  PROVE  KillParsed'
<1> DEFINE N == Len(job.args)
<1>1. /\ job' = job /\ ui' = ui + 1 /\ ukill' = [ukill EXCEPT !.h = TRUE] /\ ui \in DOMAIN job.args
      /\ ~ TextArg(job, ui) /\ ~ FlagArg(job, ui)
  BY DEF KillHelpArg, TextArg, FlagArg
<1>2. N \in Nat /\ ui \in 1..N
  BY <1>1, KillArgsAre
<1>3. PICK i, b : i = ui /\ b = job /\ i \in Nat \ {0}
  BY <1>2
<1>4. /\ ukill \in [pid : Int, signo : Int, h : BOOLEAN] /\ AtHead(b, i)
      /\ LastNum(b, ukill.pid, Pids(b, i - 1), -1)
      /\ LastNum(b, ukill.signo, Signals(b, i - 1), SIGKILL)
  BY <1>3 DEF KillParsed
<1>5. /\ ukill' \in [pid : Int, signo : Int, h : BOOLEAN]
      /\ ukill'.pid = ukill.pid /\ ukill'.signo = ukill.signo /\ ukill'.h = TRUE
  BY <1>1, <1>4
<1>6. ui' \in 1..N + 1 /\ ui' - 1 = i /\ ui' = i + 1
  <2>1. ui' = ui + 1
    BY <1>1
  <2> HIDE DEF N
  <2> QED BY <1>2, <1>3, <2>1
<1>7. Pids(b, i) = Pids(b, i - 1) /\ Signals(b, i) = Signals(b, i - 1) /\ AtHead(b, i + 1)
  BY <1>1, <1>3, <1>4, ArgumentsOn, HeadMoves
<1>8. ukill'.h # FALSE
  BY <1>5
<1> QED BY <1>1, <1>3, <1>4, <1>5, <1>6, <1>7, <1>8 DEF KillParsed

\* -s and the number behind it.
LEMMA KillSignalKeepsInv ==
  ASSUME JobInv, KillParsed, job.prog = "kill", KillSignal
  PROVE  KillParsed'
<1> DEFINE N == Len(job.args)
<1>1. /\ job' = job /\ ui' = ui + 2 /\ ukill' = [ukill EXCEPT !.signo = NumArg(job, ui + 1)]
      /\ ui \in DOMAIN job.args /\ ui + 1 \in DOMAIN job.args /\ FlagArg(job, ui)
      /\ ~ HelpArg(job, ui)
  BY DEF KillSignal, NumArg, FlagArg, HelpArg
<1>2. N \in Nat /\ ui \in 1..N /\ ui + 1 \in 1..N /\ NumArg(job, ui + 1) \in Int
  BY <1>1, KillArgsAre
<1>3. PICK i, b : i = ui /\ b = job /\ i \in Nat \ {0}
  BY <1>2
<1>4. /\ ukill \in [pid : Int, signo : Int, h : BOOLEAN] /\ AtHead(b, i)
      /\ LastNum(b, ukill.pid, Pids(b, i - 1), -1)
      /\ ukill.h = FALSE => \A k \in 1..i - 1 : HelpArg(b, k) => Taken(b, k)
  BY <1>3 DEF KillParsed
<1>5. /\ ukill' \in [pid : Int, signo : Int, h : BOOLEAN]
      /\ ukill'.pid = ukill.pid /\ ukill'.signo = NumArg(b, i + 1) /\ ukill'.h = ukill.h
  BY <1>1, <1>2, <1>3, <1>4
<1>6. ui' \in 1..N + 1 /\ ui' - 1 = i + 1 /\ ui' = i + 2
  <2>1. ui' = ui + 2
    BY <1>1
  <2> HIDE DEF N
  <2> QED BY <1>2, <1>3, <2>1
<1>7. /\ Pids(b, i + 1) = Pids(b, i - 1) /\ Signals(b, i + 1) = Signals(b, i - 1) \cup {i + 1}
      /\ AtHead(b, i + 2) /\ Taken(b, i + 1)
  BY <1>1, <1>3, <1>4, ArgumentsOn, HeadMoves
<1>8. LastNum(b, NumArg(b, i + 1), Signals(b, i + 1), SIGKILL)
  <2>1. PICK n, e, K :
          n \in Nat /\ e \in Nat /\ n = i - 1 /\ e = i + 1 /\ K = Signals(b, i - 1)
    BY <1>3
  <2>2. e > n /\ K \subseteq 1..n
    BY <1>3, <2>1 DEF Signals
  <2>3. LastNum(b, NumArg(b, e), K \cup {e}, SIGKILL)
    BY <2>1, <2>2, NewLast
  <2> QED BY <1>7, <2>1, <2>3
<1>9. ukill'.h = FALSE => \A k \in 1..i + 1 : HelpArg(b, k) => Taken(b, k)
  <2> SUFFICES ASSUME ukill.h = FALSE, NEW k \in 1..i + 1, HelpArg(b, k) PROVE Taken(b, k)
    BY <1>5
  <2>1. k = i \/ k = i + 1 \/ k \in 1..i - 1
    BY <1>3
  <2> QED BY <1>1, <1>3, <1>4, <1>7, <2>1
<1> QED BY <1>1, <1>3, <1>4, <1>5, <1>6, <1>7, <1>8, <1>9 DEF KillParsed

\* A pid.
LEMMA KillPidKeeps ==
  ASSUME JobInv, KillParsed, job.prog = "kill", KillPid
  PROVE  KillParsed'
<1> DEFINE N == Len(job.args)
<1>1. /\ job' = job /\ ui' = ui + 1 /\ ukill' = [ukill EXCEPT !.pid = NumArg(job, ui)]
      /\ ui \in DOMAIN job.args /\ TextArg(job, ui) /\ ~ FlagArg(job, ui) /\ ~ HelpArg(job, ui)
  BY DEF KillPid, NumArg, TextArg, FlagArg, HelpArg
<1>2. N \in Nat /\ ui \in 1..N /\ NumArg(job, ui) \in Int
  BY <1>1, KillArgsAre
<1>3. PICK i, b : i = ui /\ b = job /\ i \in Nat \ {0}
  BY <1>2
<1>4. /\ ukill \in [pid : Int, signo : Int, h : BOOLEAN] /\ AtHead(b, i)
      /\ LastNum(b, ukill.signo, Signals(b, i - 1), SIGKILL)
      /\ ukill.h = FALSE => \A k \in 1..i - 1 : HelpArg(b, k) => Taken(b, k)
  BY <1>3 DEF KillParsed
<1>5. /\ ukill' \in [pid : Int, signo : Int, h : BOOLEAN]
      /\ ukill'.signo = ukill.signo /\ ukill'.pid = NumArg(b, i) /\ ukill'.h = ukill.h
  BY <1>1, <1>2, <1>3, <1>4
<1>6. ui' \in 1..N + 1 /\ ui' - 1 = i /\ ui' = i + 1
  <2>1. ui' = ui + 1
    BY <1>1
  <2> HIDE DEF N
  <2> QED BY <1>2, <1>3, <2>1
<1>7. /\ Pids(b, i) = Pids(b, i - 1) \cup {i} /\ Signals(b, i) = Signals(b, i - 1)
      /\ AtHead(b, i + 1)
  BY <1>1, <1>3, <1>4, ArgumentsOn, HeadMoves
<1>8. LastNum(b, NumArg(b, i), Pids(b, i), -1)
  <2>1. PICK n, e, K :
          n \in Nat /\ e \in Nat /\ n = i - 1 /\ e = i /\ K = Pids(b, i - 1)
    BY <1>3
  <2>2. e > n /\ K \subseteq 1..n
    BY <1>3, <2>1 DEF Pids
  <2>3. LastNum(b, NumArg(b, e), K \cup {e}, -1)
    BY <2>1, <2>2, NewLast
  <2> QED BY <1>7, <2>1, <2>3
<1>9. ukill'.h = FALSE => \A k \in 1..i : HelpArg(b, k) => Taken(b, k)
  <2> SUFFICES ASSUME ukill.h = FALSE, NEW k \in 1..i, HelpArg(b, k) PROVE Taken(b, k)
    BY <1>5
  <2>1. k = i \/ k \in 1..i - 1
    BY <1>3
  <2> QED BY <1>1, <1>3, <1>4, <2>1
<1> QED BY <1>1, <1>3, <1>4, <1>5, <1>6, <1>7, <1>8, <1>9 DEF KillParsed

\* A step of kill.
LEMMA KillKeeps ==
  ASSUME JobInv, KillInv, job.prog = "kill", KillSteps
  PROVE  KillInv'
<1>1. KillParsed /\ (upc = "start" => usent = <<>>)
  BY DEF KillInv
<1>2. CASE KillHelpArg \/ KillSignal \/ KillPid
  <2>1. KillParsed'
    BY <1>1, <1>2, KillHelpKeeps, KillSignalKeepsInv, KillPidKeeps
  <2>2. upc = "start" /\ upc' = upc /\ usent' = usent
    BY <1>2 DEF KillHelpArg, KillSignal, KillPid, Runs
  <2> QED BY <1>1, <2>1, <2>2 DEF KillInv
<1>3. CASE KillUsage \/ KillNull
  <2>1. upc = "start" /\ upc' \in {"exit", "crashed"} /\ usent' = usent /\ job' = job /\ ui' = ui
        /\ ukill' = ukill
    BY <1>3 DEF KillUsage, KillNull, Runs, Exit
  <2>2. KillParsed'
    BY <1>1, <2>1 DEF KillParsed
  <2> QED BY <1>1, <2>1, <2>2 DEF KillInv
<1>4. CASE KillSends
  <2>1. /\ upc = "start" /\ upc' = "exit" /\ job' = job /\ ui' = ui /\ ukill' = ukill
        /\ ui > Len(job.args)
        /\ usent' = usent \/ (usent' = <<ukill.pid, ukill.signo>> /\ ~ ukill.h)
    BY <1>4, Zenon DEF KillSends, Runs, Exit
  <2>0. usent' # <<>> => usent' = <<ukill.pid, ukill.signo>> /\ ukill.h = FALSE
    <3>1. ukill.h \in BOOLEAN /\ usent = <<>>
      BY <1>1, <2>1 DEF KillParsed
    <3> QED BY <2>1, <3>1, Zenon
  <2>2. KillParsed'
    BY <1>1, <2>1 DEF KillParsed
  <2>3. ui = Len(job.args) + 1
    <3>1. ui \in 1..Len(job.args) + 1 /\ ui > Len(job.args)
      BY <1>1, <2>1 DEF KillParsed
    <3>2. Len(job.args) \in Nat
      BY KillArgsAre
    <3> QED BY <3>1, <3>2
  <2> QED BY <1>1, <2>0, <2>1, <2>2, <2>3 DEF KillInv
<1> QED BY <1>2, <1>3, <1>4 DEF KillSteps

\* What the invariant says of the call that was made.
LEMMA KillInvTarget == ASSUME JobInv, KillInv PROVE KillTarget
<1> SUFFICES ASSUME job.prog = "kill", usent # <<>> PROVE KillTarget
  BY DEF KillTarget
<1> DEFINE N == Len(job.args)
<1>1. KillParsed /\ usent = <<ukill.pid, ukill.signo>> /\ ui = N + 1 /\ ukill.h = FALSE
  BY DEF KillInv
<1>2. N \in Nat /\ DOMAIN job.args = 1..N
  BY KillArgsAre
<1>3. ui - 1 = N
  <2>1. ui = N + 1
    BY <1>1
  <2> HIDE DEF N
  <2> QED BY <1>2, <2>1
<1>4. \A k : Consumed(k) <=> Taken(job, k)
  BY DEF Consumed, Taken, RunOfFlags, FlagArg
<1>5. usent[1] = ukill.pid /\ usent[2] = ukill.signo
  BY <1>1
<1>6. /\ Pids(job, N) = {k \in DOMAIN job.args : job.args[k].opt = "text" /\ ~ Consumed(k)}
      /\ Signals(job, N) = {k \in DOMAIN job.args : Consumed(k)}
  BY <1>2, <1>4 DEF Pids, Signals, TextArg
<1>7. /\ LastNum(job, usent[1], Pids(job, N), -1)
      /\ LastNum(job, usent[2], Signals(job, N), SIGKILL)
      /\ \A k \in 1..N : HelpArg(job, k) => Taken(job, k)
  BY <1>1, <1>3, <1>5 DEF KillParsed
<1>8. \A v, K, e : LastNum(job, v, K, e) => IsLast(v, K, e)
  BY DEF LastNum, IsLast, NumArg
<1>9. \A k \in DOMAIN job.args : job.args[k].opt = "-h" => Consumed(k)
  BY <1>2, <1>4, <1>7 DEF HelpArg
<1> QED BY <1>6, <1>7, <1>8, <1>9 DEF KillTarget

\* seq: n numbers from a on.
Counting(a, n) == [k \in 1..n |-> a + k - 1]

\* One count more.
LEMMA OneMoreCount ==
  ASSUME NEW a \in Int, NEW n \in Nat
  PROVE  /\ Counting(a, 0) = <<>> /\ Len(Counting(a, n)) = n
         /\ Append(Counting(a, n), a + n) = Counting(a, n + 1)
<1>1. Len(Counting(a, n)) = n /\ Counting(a, n) \in Seq(Int)
  BY DEF Counting
<1>2. Counting(a, 0) = <<>>
  BY DEF Counting
<1>3. a + (n + 1) - 1 = a + n
  OBVIOUS
<1>4. Append(Counting(a, n), a + n) = Counting(a, n + 1)
  BY <1>1, <1>3 DEF Counting
<1> QED BY <1>1, <1>2, <1>4

SeqInv ==
  job.prog = "seq" =>
    /\ upc \in {"start", "loop", "exit"}
    /\ upc = "start" => uout = <<>>
    /\ upc = "loop" =>
         /\ Len(job.args) \in {1, 2} /\ ui \in Ints
         /\ SeqLast < IntMax => /\ SeqFirst <= ui /\ uout = Counting(SeqFirst, ui - SeqFirst)
                                /\ ui = SeqFirst \/ ui <= SeqLast + 1
    /\ SeqCounts

SeqSteps == SeqUsage \/ SeqStart \/ SeqPrint \/ SeqEnd

\* The steps of seq.
LEMMA SeqStepsAre ==
  ASSUME SeqInv, [UtilNext]_utilVars, job.prog = "seq"
  PROVE  SeqSteps \/ UNCHANGED utilVars
<1>1. upc # "overrun"
  BY DEF SeqInv
<1> QED
BY <1>1 DEF UtilNext, UtilStep, SeqSteps, Runs, Pause, LsOpen, LsEntry, LsFails, LsDone, GoesOn,
       CatRead, CatEof, CatOpen, CatSize, CatMap, CatWrite, FileChanges,
       KillUsage, KillHelpArg, KillSignal, KillNull, KillPid, KillSends, StatUsage, StatFile, StatDone,
       PrintString, PrintDone, Link, Sleep, Pwd, Crash, Yes

\* The first and the last number are ints.
LEMMA SeqArgsAre ==
  ASSUME JobInv, job.prog = "seq", Len(job.args) \in {1, 2}
  PROVE  SeqFirst \in Ints /\ SeqLast \in Ints /\ Ints \subseteq Int
<1>1. job.args \in Seq(Ints)
  BY UtilitiesAssumption DEF JobInv, NoJobRuns
<1>2. 1 \in Ints /\ Ints \subseteq Int
  BY UtilSizes DEF Ints
<1>3. 1 \in 1..Len(job.args) /\ Len(job.args) \in 1..Len(job.args)
  OBVIOUS
<1>4. job.args[1] \in Ints /\ job.args[Len(job.args)] \in Ints
  BY <1>1, <1>3
<1> QED BY <1>2, <1>4 DEF SeqFirst, SeqLast, Last

\* A step of seq.
LEMMA SeqKeeps ==
  ASSUME JobInv, SeqInv, job.prog = "seq", SeqSteps
  PROVE  SeqInv'
<1> DEFINE a == SeqFirst
           z == SeqLast
<1>0. SeqSteps => job' = job /\ a' = a /\ z' = z
  BY DEF SeqSteps, SeqUsage, SeqStart, SeqPrint, SeqEnd, SeqFirst, SeqLast
<1>1. CASE SeqUsage
  <2>1. upc' = "exit" /\ ucode' = 1
    BY <1>1 DEF SeqUsage, Exit
  <2> QED BY <1>0, <2>1 DEF SeqInv, SeqCounts
<1>2. CASE SeqStart
  <2>1. /\ upc = "start" /\ upc' = "loop" /\ ui' = a /\ uout' = uout /\ Len(job.args) \in {1, 2}
    BY <1>2 DEF SeqStart, Runs
  <2>2. uout' = <<>> /\ a \in Int /\ a \in Ints
    BY <2>1, SeqArgsAre DEF SeqInv
  <2> HIDE DEF a, z
  <2>3. ui' - a = 0 /\ a <= ui' /\ ui' = a
    BY <2>1, <2>2
  <2>4. uout' = Counting(a, ui' - a)
    BY <2>2, <2>3, OneMoreCount
  <2> QED BY <1>0, <2>1, <2>2, <2>3, <2>4 DEF SeqInv, SeqCounts, a, z
<1>3. CASE SeqPrint
  <2>1. /\ upc = "loop" /\ upc' = "loop" /\ ui <= z
        /\ uout' = IF Len(uout) <= 2 * IntMax + 1 THEN Append(uout, ui) ELSE uout
        /\ ui' = IF ui = IntMax THEN -IntMax - 1 ELSE ui + 1
    BY <1>3 DEF SeqPrint, Runs
  <2>2. Len(job.args) \in {1, 2} /\ ui \in Ints
    BY <2>1 DEF SeqInv
  <2>3. a \in Ints /\ z \in Ints
    BY <2>2, SeqArgsAre
  <2>4. z < IntMax => /\ a <= ui /\ uout = Counting(a, ui - a)
                      /\ ui = a \/ ui <= z + 1
    BY <2>1 DEF SeqInv
  <2> HIDE DEF a, z
  <2>5. ui' \in Ints
    BY <2>1, <2>2, UtilSizes DEF Ints
  <2>6. ASSUME z < IntMax
        PROVE  /\ a <= ui' /\ uout' = Counting(a, ui' - a)
               /\ ui' = a \/ ui' <= z + 1
    <3>1. /\ a \in Int /\ ui \in Int /\ z \in Int /\ ui < IntMax /\ ui - a \in Nat
          /\ ui - a <= 2 * IntMax + 1 /\ a + (ui - a) = ui
      <4>1. ui <= z /\ a <= ui
        BY <2>1, <2>4, <2>6
      <4>2. a \in Ints /\ ui \in Ints /\ z \in Ints
        BY <2>2, <2>3
      <4> QED BY <2>6, <4>1, <4>2, UtilSizes DEF Ints
    <3>2. Len(uout) = ui - a
      <4>1. uout = Counting(a, ui - a)
        BY <2>4, <2>6
      <4>2. a \in Int /\ ui - a \in Nat
        BY <3>1
      <4>3. Len(Counting(a, ui - a)) = ui - a
        BY <4>2, OneMoreCount
      <4> QED BY <4>1, <4>3
    <3>3. uout' = Append(uout, ui) /\ ui' = ui + 1
      BY <2>1, <3>1, <3>2, UtilSizes
    <3>4. ui' - a = (ui - a) + 1 /\ a <= ui' /\ ui' <= z + 1
      BY <2>1, <2>4, <2>6, <3>1, <3>3
    <3>5. Append(Counting(a, ui - a), a + (ui - a)) = Counting(a, (ui - a) + 1)
      BY <3>1, OneMoreCount
    <3> QED BY <2>4, <2>6, <3>1, <3>3, <3>4, <3>5
  <2> QED BY <1>0, <2>1, <2>2, <2>5, <2>6 DEF SeqInv, SeqCounts, a, z
<1>4. CASE SeqEnd
  <2>1. upc = "loop" /\ upc' = "exit" /\ ucode' = 0 /\ ui > z /\ uout' = uout
    BY <1>4 DEF SeqEnd, Runs, Exit
  <2>2. Len(job.args) \in {1, 2} /\ ui \in Ints
    BY <2>1 DEF SeqInv
  <2>3. a \in Ints /\ z \in Ints
    BY <2>2, SeqArgsAre
  <2>4. z < IntMax => /\ a <= ui /\ uout = Counting(a, ui - a)
                      /\ ui = a \/ ui <= z + 1
    BY <2>1 DEF SeqInv
  <2> HIDE DEF a, z
  <2>5. /\ a \in Int /\ z \in Int /\ ui \in Int /\ z < IntMax
    BY <2>1, <2>2, <2>3, UtilSizes DEF Ints
  <2>6. a <= ui /\ uout = Counting(a, ui - a) /\ ui - a \in Nat
        /\ (a > z => ui - a = 0) /\ (~ (a > z) => ui - a = z - a + 1)
    <3>1. uout = Counting(a, ui - a)
      BY <2>4, <2>5
    <3>2. a <= ui /\ (ui = a \/ ui <= z + 1)
      BY <2>4, <2>5
    <3>3. ui - a \in Nat /\ (a > z => ui - a = 0) /\ (~ (a > z) => ui - a = z - a + 1)
      BY <2>1, <2>5, <3>2
    <3> QED BY <3>1, <3>2, <3>3
  <2>7. Len(uout) = ui - a
    BY <2>5, <2>6, OneMoreCount
  <2>8. uout = [k \in 1..Len(uout) |-> a + k - 1]
    BY <2>6, <2>7 DEF Counting
  <2>9. IF a > z THEN uout = <<>> ELSE Len(uout) = z - a + 1
    BY <2>5, <2>6, <2>7, OneMoreCount
  <2>10. SeqCounts'
    BY <1>0, <2>1, <2>8, <2>9 DEF SeqCounts, a, z
  <2> QED BY <1>0, <2>1, <2>10 DEF SeqInv
<1> QED BY <1>1, <1>2, <1>3, <1>4 DEF SeqSteps

\* stat: the files up to the n-th that were printed, and those left open.
Printed(b, n) == {k \in 1..n : b.files[k] = "ok"}
LeftOpen(b, n) == {k \in 1..n : b.files[k] = "nostat"}

StatInv ==
  job.prog = "stat" =>
    /\ ui \in 1..Len(job.files) + 1 /\ uout \in Seq(Nat) /\ Rising(uout)
    /\ upc \in {"start", "exit"} /\ ucode \in {0, 1}
    /\ job.files # <<>> =>
         /\ ucode = 0 <=> Printed(job, ui - 1) = 1..ui - 1
         /\ {uout[j] : j \in DOMAIN uout} = Printed(job, ui - 1)
         /\ ufds = Cardinality(LeftOpen(job, ui - 1))
         /\ upc = "exit" => ui = Len(job.files) + 1

StatSteps == StatUsage \/ StatFile \/ StatDone

\* The steps of stat.
LEMMA StatStepsAre ==
  ASSUME StatInv, [UtilNext]_utilVars, job.prog = "stat"
  PROVE  StatSteps \/ UNCHANGED utilVars
<1>1. upc # "overrun"
  BY DEF StatInv
<1> QED
BY <1>1 DEF UtilNext, UtilStep, StatSteps, Runs, Pause, LsOpen, LsEntry, LsFails, LsDone, GoesOn,
       CatRead, CatEof, CatOpen, CatSize, CatMap, CatWrite, FileChanges,
       KillUsage, KillHelpArg, KillSignal, KillNull, KillPid, KillSends,
       SeqUsage, SeqStart, SeqPrint, SeqEnd,
       PrintString, PrintDone, Link, Sleep, Pwd, Crash, Yes

\* One file more.
LEMMA OneMoreFile ==
  ASSUME NEW b, NEW n \in Nat
  PROVE  /\ b.files[n + 1] = "ok" => Printed(b, n + 1) = Printed(b, n) \cup {n + 1}
         /\ b.files[n + 1] # "ok" => Printed(b, n + 1) = Printed(b, n)
         /\ b.files[n + 1] = "nostat" => LeftOpen(b, n + 1) = LeftOpen(b, n) \cup {n + 1}
         /\ b.files[n + 1] # "nostat" => LeftOpen(b, n + 1) = LeftOpen(b, n)
         /\ n + 1 \notin LeftOpen(b, n) /\ IsFiniteSet(LeftOpen(b, n)) /\ IsFiniteSet(LeftOpen(b, n + 1))
         /\ Printed(b, n) \subseteq 1..n /\ n + 1 \in 1..n + 1 /\ n + 1 \notin 1..n
<1>1. \A k : k \in 1..n + 1 <=> k \in 1..n \/ k = n + 1
  OBVIOUS
<1>2. n + 1 \notin 1..n /\ n + 1 \in 1..n + 1
  OBVIOUS
<1>3. IsFiniteSet(1..n) /\ IsFiniteSet(1..n + 1)
  BY FS_Interval
<1>4. LeftOpen(b, n) \subseteq 1..n /\ LeftOpen(b, n + 1) \subseteq 1..n + 1 /\ Printed(b, n) \subseteq 1..n
  BY DEF LeftOpen, Printed
<1>5. IsFiniteSet(LeftOpen(b, n)) /\ IsFiniteSet(LeftOpen(b, n + 1)) /\ n + 1 \notin LeftOpen(b, n)
  BY <1>2, <1>3, <1>4, FS_Subset
<1> DEFINE I == 1..n
           J == 1..n + 1
           m == n + 1
<1>6. \A k : k \in J <=> k \in I \/ k = m
  BY <1>1
<1>7. Printed(b, n) = {k \in I : b.files[k] = "ok"} /\ Printed(b, m) = {k \in J : b.files[k] = "ok"}
      /\ LeftOpen(b, n) = {k \in I : b.files[k] = "nostat"}
      /\ LeftOpen(b, m) = {k \in J : b.files[k] = "nostat"}
  BY DEF Printed, LeftOpen
<1> HIDE DEF I, J, m
<1>8. /\ b.files[m] = "ok" => Printed(b, m) = Printed(b, n) \cup {m}
      /\ b.files[m] # "ok" => Printed(b, m) = Printed(b, n)
      /\ b.files[m] = "nostat" => LeftOpen(b, m) = LeftOpen(b, n) \cup {m}
      /\ b.files[m] # "nostat" => LeftOpen(b, m) = LeftOpen(b, n)
  BY <1>6, <1>7
<1> QED BY <1>2, <1>4, <1>5, <1>8 DEF m

\* A rising sequence with a greater number behind it.
LEMMA RisingAppend ==
  ASSUME NEW s \in Seq(Nat), Rising(s), NEW n \in Nat, {s[j] : j \in DOMAIN s} \subseteq 1..n - 1
  PROVE  /\ Append(s, n) \in Seq(Nat) /\ Rising(Append(s, n))
         /\ {Append(s, n)[j] : j \in DOMAIN Append(s, n)} = {s[j] : j \in DOMAIN s} \cup {n}
<1> DEFINE u == Append(s, n)
           N == Len(s)
<1>1. /\ u \in Seq(Nat) /\ Len(u) = N + 1 /\ N \in Nat /\ u[N + 1] = n
      /\ \A j \in 1..N : u[j] = s[j]
      /\ DOMAIN u = 1..N + 1 /\ DOMAIN s = 1..N
  OBVIOUS
<1>2. \A j \in 1..N : s[j] \in 1..n - 1
  BY <1>1
<1> HIDE DEF u, N
<1>3. \A j : j \in 1..N + 1 <=> j \in 1..N \/ j = N + 1
  BY <1>1
<1>4. Rising(u)
  <2> SUFFICES ASSUME NEW j \in 1..N + 1, NEW k \in 1..N + 1, j < k PROVE u[j] < u[k]
    BY <1>1 DEF Rising
  <2>1. CASE k = N + 1
    <3>1. j \in 1..N
      BY <1>1, <2>1
    <3>2. u[j] \in 1..n - 1 /\ u[k] = n
      BY <1>1, <1>2, <2>1, <3>1
    <3> QED BY <3>2
  <2>2. CASE k \in 1..N
    <3>1. j \in 1..N
      BY <1>1, <2>2
    <3> QED BY <1>1, <2>2, <3>1 DEF Rising
  <2> QED BY <1>3, <2>1, <2>2
<1>5. {u[j] : j \in DOMAIN u} = {s[j] : j \in DOMAIN s} \cup {n}
  <2> DEFINE I == 1..N
             K == 1..N + 1
             m == N + 1
  <2>1. /\ DOMAIN u = K /\ DOMAIN s = I /\ (\A j : j \in K <=> j \in I \/ j = m)
        /\ u[m] = n /\ \A j \in I : u[j] = s[j]
    BY <1>1, <1>3
  <2> HIDE DEF I, K, m
  <2> QED BY <2>1
<1> QED BY <1>1, <1>4, <1>5 DEF u

\* A file is looked at.
LEMMA StatFileKeeps ==
  ASSUME JobInv, StatInv, job.prog = "stat", StatFile
  PROVE  StatInv'
<1> DEFINE N == Len(job.files)
           n == ui - 1
           f == job.files[ui]
<1>1. job.files \in Seq({"ok", "noopen", "nostat"}) /\ N \in Nat /\ DOMAIN job.files = 1..N
  <2>1. job.files \in Seq({"ok", "noopen", "nostat"})
    BY UtilitiesAssumption DEF JobInv, NoJobRuns
  <2> QED BY <2>1
<1>2. /\ job' = job /\ ui \in DOMAIN job.files /\ ui' = ui + 1 /\ upc = "start" /\ upc' = upc
      /\ uout' = IF f = "ok" THEN Append(uout, ui) ELSE uout
      /\ ucode' = IF f = "ok" THEN ucode ELSE 1
      /\ ufds' = IF f = "nostat" THEN ufds + 1 ELSE ufds
  BY DEF StatFile, Runs
<1>3. ui \in 1..N /\ n \in Nat /\ n + 1 = ui /\ ui' \in 1..N + 1 /\ ui' - 1 = ui /\ ui \in Nat
  <2>1. ui' = ui + 1 /\ ui \in 1..N
    BY <1>1, <1>2
  <2> HIDE DEF N
  <2> QED BY <1>1, <2>1
<1>4. job.files # <<>>
  BY <1>1, <1>2
<1>5. /\ uout \in Seq(Nat) /\ Rising(uout) /\ ucode \in {0, 1}
      /\ ucode = 0 <=> Printed(job, n) = 1..n
      /\ {uout[j] : j \in DOMAIN uout} = Printed(job, n)
      /\ ufds = Cardinality(LeftOpen(job, n))
  BY <1>4 DEF StatInv
<1>6. /\ f = "ok" => Printed(job, ui) = Printed(job, n) \cup {ui}
      /\ f # "ok" => Printed(job, ui) = Printed(job, n)
      /\ f = "nostat" => LeftOpen(job, ui) = LeftOpen(job, n) \cup {ui}
      /\ f # "nostat" => LeftOpen(job, ui) = LeftOpen(job, n)
      /\ ui \notin LeftOpen(job, n) /\ IsFiniteSet(LeftOpen(job, n))
      /\ Printed(job, n) \subseteq 1..n /\ ui \in 1..ui /\ ui \notin 1..n
  <2> DEFINE m == n + 1
  <2>1. n \in Nat /\ m = ui
    BY <1>3
  <2> HIDE DEF n
  <2>2. /\ job.files[m] = "ok" => Printed(job, m) = Printed(job, n) \cup {m}
        /\ job.files[m] # "ok" => Printed(job, m) = Printed(job, n)
        /\ job.files[m] = "nostat" => LeftOpen(job, m) = LeftOpen(job, n) \cup {m}
        /\ job.files[m] # "nostat" => LeftOpen(job, m) = LeftOpen(job, n)
    BY <2>1, OneMoreFile
  <2>3. /\ m \notin LeftOpen(job, n) /\ IsFiniteSet(LeftOpen(job, n))
        /\ Printed(job, n) \subseteq 1..n /\ m \in 1..m /\ m \notin 1..n
    BY <2>1, OneMoreFile
  <2> HIDE DEF m
  <2> QED BY <2>1, <2>2, <2>3
<1> HIDE DEF f
<1>7. uout' \in Seq(Nat) /\ Rising(uout') /\ {uout'[j] : j \in DOMAIN uout'} = Printed(job, ui)
  <2>1. CASE f = "ok"
    <3>1. {uout[j] : j \in DOMAIN uout} \subseteq 1..ui - 1
      BY <1>5, <1>6
    <3>2. uout' = Append(uout, ui)
      BY <1>2, <2>1
    <3>3. /\ Append(uout, ui) \in Seq(Nat) /\ Rising(Append(uout, ui))
          /\ {Append(uout, ui)[j] : j \in DOMAIN Append(uout, ui)} = {uout[j] : j \in DOMAIN uout} \cup {ui}
      BY <1>3, <1>5, <3>1, RisingAppend
    <3>4. Printed(job, ui) = {uout[j] : j \in DOMAIN uout} \cup {ui}
      BY <1>5, <1>6, <2>1
    <3> QED BY <3>2, <3>3, <3>4
  <2>2. CASE f # "ok"
    <3>1. uout' = uout /\ Printed(job, ui) = Printed(job, n)
      BY <1>2, <1>6, <2>2
    <3> QED BY <1>5, <3>1
  <2> QED BY <2>1, <2>2
<1>8. ucode' \in {0, 1} /\ (ucode' = 0 <=> Printed(job, ui) = 1..ui)
  <2>0. 1..ui = 1..n \cup {ui} /\ ui \notin 1..n
    BY <1>3
  <2>1. CASE f = "ok"
    <3>1. ucode' = ucode /\ Printed(job, ui) = Printed(job, n) \cup {ui}
      BY <1>2, <1>6, <2>1
    <3>2. Printed(job, n) \cup {ui} = 1..n \cup {ui} <=> Printed(job, n) = 1..n
      BY <1>6, <2>0
    <3> QED BY <1>5, <2>0, <3>1, <3>2
  <2>2. CASE f # "ok"
    <3>1. ucode' = 1 /\ Printed(job, ui) = Printed(job, n)
      BY <1>2, <1>6, <2>2
    <3>2. Printed(job, n) # 1..ui
      BY <1>6
    <3> QED BY <3>1, <3>2
  <2> QED BY <2>1, <2>2
<1>9. ufds' = Cardinality(LeftOpen(job, ui))
  <2>1. CASE f = "nostat"
    <3>1. ufds' = ufds + 1 /\ LeftOpen(job, ui) = LeftOpen(job, n) \cup {ui}
      BY <1>2, <1>6, <2>1
    <3>2. Cardinality(LeftOpen(job, n) \cup {ui}) = Cardinality(LeftOpen(job, n)) + 1
      BY <1>6, FS_AddElement
    <3> QED BY <1>5, <3>1, <3>2
  <2>2. CASE f # "nostat"
    <3>1. ufds' = ufds /\ LeftOpen(job, ui) = LeftOpen(job, n)
      BY <1>2, <1>6, <2>2
    <3> QED BY <1>5, <3>1
  <2> QED BY <2>1, <2>2
<1>10. upc' = "start" /\ job' = job
  BY <1>2
<1> QED BY <1>3, <1>7, <1>8, <1>9, <1>10 DEF StatInv

\* A step of stat.
LEMMA StatKeeps ==
  ASSUME JobInv, StatInv, job.prog = "stat", StatSteps
  PROVE  StatInv'
<1>1. CASE StatUsage
  <2>1. job' = job /\ ui' = ui /\ uout' = uout /\ job.files = <<>> /\ upc' = "exit" /\ ucode' = 1
    BY <1>1 DEF StatUsage, Exit
  <2> QED BY <2>1 DEF StatInv
<1>2. CASE StatDone
  <2>1. /\ job' = job /\ ui' = ui /\ uout' = uout /\ ufds' = ufds /\ ucode' = ucode
        /\ ui > Len(job.files) /\ upc' = "exit"
    BY <1>2 DEF StatDone, Exit
  <2>2. ui \in 1..Len(job.files) + 1 /\ Len(job.files) \in Nat
    BY UtilitiesAssumption DEF StatInv, JobInv, NoJobRuns
  <2>3. ui = Len(job.files) + 1
    BY <2>1, <2>2
  <2> QED BY <2>1, <2>3 DEF StatInv
<1> QED BY <1>1, <1>2, StatFileKeeps DEF StatSteps

\* What the invariant says of the reports of stat.
LEMMA StatInvReports == ASSUME JobInv, StatInv PROVE StatReports
<1> SUFFICES ASSUME job.prog = "stat", upc = "exit", job.files # <<>> PROVE StatReports
  BY DEF StatReports
<1> DEFINE N == Len(job.files)
<1>1. N \in Nat /\ DOMAIN job.files = 1..N
  <2>1. job.files \in Seq({"ok", "noopen", "nostat"})
    BY UtilitiesAssumption DEF JobInv, NoJobRuns
  <2> QED BY <2>1
<1>2. ui - 1 = N
  <2>1. ui = N + 1
    BY DEF StatInv
  <2> HIDE DEF N
  <2> QED BY <1>1, <2>1
<1>3. /\ Rising(uout) /\ (ucode = 0 <=> Printed(job, N) = 1..N)
      /\ {uout[j] : j \in DOMAIN uout} = Printed(job, N)
      /\ ufds = Cardinality(LeftOpen(job, N))
  BY <1>2 DEF StatInv
<1>4. /\ Printed(job, N) = {k \in DOMAIN job.files : job.files[k] = "ok"}
      /\ LeftOpen(job, N) = {k \in DOMAIN job.files : job.files[k] = "nostat"}
  BY <1>1 DEF Printed, LeftOpen
<1>5. Printed(job, N) = 1..N <=> \A k \in DOMAIN job.files : job.files[k] = "ok"
  BY <1>1, <1>4
<1> QED BY <1>3, <1>4, <1>5 DEF StatReports, Rising

\* What it says of the list of ls.
LEMMA LsInvLists == ASSUME JobInv, LsInv PROVE LsLists
<1> SUFFICES ASSUME job.prog = "ls" PROVE LsLists
  BY DEF LsLists
<1>1. Len(job.names) \in Nat
  BY UtilitiesAssumption DEF JobInv, NoJobRuns
<1>2. ui \in 1..Len(job.names) + 1 /\ uout = UpToNumber(ui - 1)
  BY DEF LsInv
<1>3. ui - 1 \in Nat /\ (ui = Len(job.names) + 1 => ui - 1 = Len(job.names))
  BY <1>1, <1>2
<1>4. Len(uout) = ui - 1
  BY <1>2, <1>3, OneMoreNumber
<1>5. uout = [k \in 1..Len(uout) |-> k]
  BY <1>2, <1>4 DEF UpToNumber
<1> QED BY <1>3, <1>4, <1>5 DEF LsInv, LsLists

\* What it says of the strings of echo and env.
LEMMA PrintInvStrings == ASSUME JobInv, PrintInv PROVE StringsPrinted
<1> SUFFICES ASSUME job.prog \in {"echo", "env"} PROVE StringsPrinted
  BY DEF StringsPrinted
<1>1. Len(job.lens) \in Nat
  BY UtilitiesAssumption DEF JobInv, NoJobRuns
<1>2. ui \in 1..Len(job.lens) + 1 /\ uout = UpToNumber(ui - 1)
  BY DEF PrintInv
<1>3. ui - 1 \in Nat /\ (ui = Len(job.lens) + 1 => ui - 1 = Len(job.lens))
  BY <1>1, <1>2
<1>4. Len(uout) = ui - 1
  BY <1>2, <1>3, OneMoreNumber
<1>5. uout = [k \in 1..Len(uout) |-> k]
  BY <1>2, <1>4 DEF UpToNumber
<1> QED BY <1>3, <1>4, <1>5 DEF PrintInv, StringsPrinted

UtilInv == JobInv /\ LsInv /\ PrintInv /\ CatInv /\ KillInv /\ SeqInv /\ StatInv

\* The invariant contains the property.
LEMMA UtilInvTold == UtilInv => UtilitiesAsTold
BY LsInvLists, PrintInvStrings, CatInvCopies, KillInvTarget, StatInvReports
   DEF UtilInv, UtilitiesAsTold, SeqInv, SeqCounts

\* It holds when a program begins.
LEMMA UtilBegins == ProgramsInit => UtilInv
<1> SUFFICES ASSUME ProgramsInit PROVE UtilInv
  OBVIOUS
<1>1. UtilInit \/ UtilIdle
  BY DEF ProgramsInit
<1>2. /\ ui = 1 /\ uout = <<>> /\ usent = <<>> /\ ufds = 0 /\ ucode = 0
      /\ ukill = [pid |-> -1, signo |-> SIGKILL, h |-> FALSE]
  BY <1>1 DEF UtilInit, UtilIdle, UtilRest
<1>3. CASE UtilIdle
  <2>1. job = NoJobRuns /\ job.prog = "none"
    BY <1>3 DEF UtilIdle, NoJobRuns
  <2> QED BY <2>1 DEF UtilInv, JobInv, LsInv, PrintInv, CatInv, KillInv, SeqInv, StatInv
<1>4. CASE UtilInit
  <2>1. /\ job \in Jobs /\ upc = "start"
        /\ ufile = [now |-> IF job.prog = "cat" THEN job.size ELSE 0, seen |-> 0]
    BY <1>4 DEF UtilInit
  <2>2. 1 - 1 = 0 /\ UpToNumber(0) = <<>>
    BY DEF UpToNumber
  <2>3. LsInv
    <3> SUFFICES ASSUME job.prog = "ls" PROVE LsInv
      BY DEF LsInv
    <3>1. Len(job.names) \in Nat
      BY <2>1, UtilitiesAssumption
    <3>2. 1 \in 1..Len(job.names) + 1
      BY <3>1
    <3> QED BY <1>2, <2>1, <2>2, <3>2 DEF LsInv
  <2>4. PrintInv
    <3> SUFFICES ASSUME job.prog \in {"echo", "env"} PROVE PrintInv
      BY DEF PrintInv
    <3>1. Len(job.lens) \in Nat
      BY <2>1, UtilitiesAssumption
    <3>2. 1 \in 1..Len(job.lens) + 1
      BY <3>1
    <3> QED BY <1>2, <2>1, <2>2, <3>2 DEF PrintInv
  <2>5. CatInv
    <3> SUFFICES ASSUME job.prog = "cat" PROVE CatInv
      BY DEF CatInv
    <3>1. job.size \in Nat
      BY <2>1, UtilitiesAssumption
    <3>2. ufile \in [now : Nat, seen : Nat]
      BY <2>1, <3>1
    <3>3. <<>> = Mapped(0) /\ 0 \in Nat /\ 0 <= ufile.now
      BY <3>2 DEF Mapped
    <3>4. Rising(<<>>) /\ DOMAIN <<>> = {} /\ <<>> \in Seq(Nat) /\ 1 \in Nat \ {0}
      BY DEF Rising
    <3>5. \A j \in DOMAIN uout : uout[j] \in 1..ui - 1
      BY <1>2, <3>4
    <3>6. CopiedSoFar(uout, ui)
      BY <1>2 DEF CopiedSoFar, Bytes
    <3> QED BY <1>2, <2>1, <3>2, <3>3, <3>4, <3>5, <3>6 DEF CatInv
  <2>6. KillInv
    <3> SUFFICES ASSUME job.prog = "kill" PROVE KillInv
      BY DEF KillInv
    <3>1. Len(job.args) \in Nat
      BY <2>1, UtilitiesAssumption
    <3>2. 1 \in 1..Len(job.args) + 1 /\ 1..1 - 1 = {}
      BY <3>1
    <3>3. ukill \in [pid : Int, signo : Int, h : BOOLEAN] /\ ukill.signo = SIGKILL
      BY <1>2 DEF SIGKILL
    <3>4. AtHead(job, 1)
      <4>1. 1 \in 1..1 /\ (1 - 1) % 2 = 0 /\ RunOfFlags(job, 1, 1)
        BY DEF RunOfFlags
      <4> QED BY <4>1 DEF AtHead
    <3>5. /\ Pids(job, ui - 1) = {} /\ Signals(job, ui - 1) = {} /\ 1..ui - 1 = {}
          /\ ukill.pid = -1
      BY <1>2, <3>2 DEF Pids, Signals
    <3>6. KillParsed
      BY <1>2, <3>2, <3>3, <3>4, <3>5 DEF KillParsed, LastNum
    <3> QED BY <1>2, <2>1, <3>6 DEF KillInv
  <2>7. SeqInv
    BY <1>2, <2>1 DEF SeqInv, SeqCounts
  <2>8. StatInv
    <3> SUFFICES ASSUME job.prog = "stat" PROVE StatInv
      BY DEF StatInv
    <3>1. Len(job.files) \in Nat
      BY <2>1, UtilitiesAssumption
    <3>2. 1 \in 1..Len(job.files) + 1 /\ 1..0 = {}
      BY <3>1
    <3>3. Rising(<<>>) /\ DOMAIN <<>> = {} /\ <<>> \in Seq(Nat)
      BY DEF Rising
    <3>4. Printed(job, 0) = {} /\ LeftOpen(job, 0) = {}
      BY <3>2 DEF Printed, LeftOpen
    <3>5. Cardinality({}) = 0
      BY FS_EmptySet
    <3>6. {uout[j] : j \in DOMAIN uout} = {}
      BY <1>2, <3>3
    <3> QED BY <1>2, <2>1, <2>2, <3>2, <3>3, <3>4, <3>5, <3>6 DEF StatInv
  <2> QED BY <2>1, <2>3, <2>4, <2>5, <2>6, <2>7, <2>8 DEF UtilInv, JobInv
<1> QED BY <1>1, <1>3, <1>4

\* The job stays, and with it every part of the invariant that is about another program.
LEMMA UtilStepKeeps ==
  ASSUME UtilInv, [PNext]_progVars
  PROVE  UtilInv'
<1>0. [UtilNext]_utilVars
  BY UtilStepIs
<1>1. JobInv /\ LsInv /\ PrintInv /\ CatInv /\ KillInv /\ SeqInv /\ StatInv
  BY DEF UtilInv
<1>2. job' = job
  BY <1>0 DEF utilVars, UtilNext, UtilStep, LsOpen, LsEntry, LsFails, LsDone, GoesOn,
     CatRead, CatEof, CatOpen, CatSize, CatMap, CatWrite, FileChanges, Pause,
     KillUsage, KillHelpArg, KillSignal, KillNull, KillPid, KillSends,
     SeqUsage, SeqStart, SeqPrint, SeqEnd, StatUsage, StatFile, StatDone,
     PrintString, PrintDone, Link, Sleep, Pwd, Crash, Yes
<1>3. CASE UNCHANGED utilVars
  <2>1. /\ job' = job /\ ui' = ui /\ uout' = uout /\ ufile' = ufile /\ ukill' = ukill
        /\ usent' = usent /\ ufds' = ufds /\ ucode' = ucode /\ upc' = upc
    BY <1>3 DEF utilVars
  <2>2. JobInv' /\ LsInv' /\ PrintInv' /\ StatInv'
    BY <1>1, <2>1 DEF JobInv, LsInv, PrintInv, StatInv
  <2>3. CatInv'
    BY <1>1, <2>1 DEF CatInv, Mapped
  <2>4. KillInv'
    BY <1>1, <2>1 DEF KillInv, KillParsed
  <2>5. SeqInv'
    BY <1>1, <2>1 DEF SeqInv, SeqCounts, SeqFirst, SeqLast
  <2> QED BY <2>2, <2>3, <2>4, <2>5 DEF UtilInv
<1>4. CASE ~ UNCHANGED utilVars
  <2>1. JobInv'
    BY <1>1, <1>2 DEF JobInv
  <2>2. LsInv'
    <3>1. CASE job.prog = "ls"
      BY <1>0, <1>1, <1>4, <3>1, LsStepsAre, LsKeeps
    <3> QED BY <1>2, <3>1 DEF LsInv
  <2>3. PrintInv'
    <3>1. CASE job.prog \in {"echo", "env"}
      BY <1>0, <1>1, <1>4, <3>1, PrintStepsAre, PrintKeeps
    <3> QED BY <1>2, <3>1 DEF PrintInv
  <2>4. CatInv'
    <3>1. CASE job.prog = "cat"
      BY <1>0, <1>1, <1>4, <3>1, CatStepsAre, CatCopiesInput, CatWritesFile
    <3> QED BY <1>2, <3>1 DEF CatInv
  <2>5. KillInv'
    <3>1. CASE job.prog = "kill"
      BY <1>0, <1>1, <1>4, <3>1, KillStepsAre, KillKeeps
    <3> QED BY <1>2, <3>1 DEF KillInv
  <2>6. SeqInv'
    <3>1. CASE job.prog = "seq"
      BY <1>0, <1>1, <1>4, <3>1, SeqStepsAre, SeqKeeps
    <3> QED BY <1>2, <3>1 DEF SeqInv, SeqCounts
  <2>7. StatInv'
    <3>1. CASE job.prog = "stat"
      BY <1>0, <1>1, <1>4, <3>1, StatStepsAre, StatKeeps
    <3> QED BY <1>2, <3>1 DEF StatInv
  <2> QED BY <2>1, <2>2, <2>3, <2>4, <2>5, <2>6, <2>7 DEF UtilInv
<1> QED BY <1>3, <1>4

\* For jobs of every size, every int as an argument and every answer of the kernel: what
\* ls, echo, env, stat and seq print and what their exit codes mean, that cat copies what
\* is written completely, and which process and signal kill takes from its arguments.
THEOREM UtilitiesDoAsTold == ProgramsSpec => []UtilitiesAsTold
<1>1. UtilInv /\ [ProgramStep \/ OthersStep \/ Rest]_progVars => UtilInv'
  BY UtilStepKeeps DEF PNext
<1> QED BY <1>1, UtilBegins, UtilInvTold, PTL DEF ProgramsSpec

----------------------------------------------------------------------------
(* eval.  A bracket of a simple line that is open at a place is the last    *)
(* one in front of it: the walk is never two brackets deep, and none is     *)
(* open at the end of the line.                                             *)

\* A step of the composition, seen by eval.
LEMMA EvalStepIs ==
  ASSUME [PNext]_progVars
  PROVE  [EvalNext]_evalVars
BY DEF PNext, ProgramStep, OthersStep, Rest, progVars, NotEval, NotWc, NotMkdir, NotUtil,
   NotDev, NotLoader, NotGettext

\* A byte that is a bracket, and an opening one.
Bracketing(t, k) == t[k] \in {"(", ")"}
Opening(t, k) == t[k] = "("
Closing(t, k) == t[k] = ")"

\* The last bracket among the first n bytes opens.
OpenAt(t, n) == \E i \in 1..n : Opening(t, i) /\ \A j \in i + 1..n : ~ Bracketing(t, j)

\* The buffer holds the line and a zero byte.
Held(b, t) ==
  /\ Len(t) < EvalBuf /\ b[Len(t)] = "nul"
  /\ \A k \in 0..Len(t) - 1 : b[k] = t[k + 1]

\* A byte of the buffer up to the zero byte.
LEMMA HeldByte ==
  ASSUME NEW b, NEW t \in Seq(STRING), Held(b, t), NEW p \in Nat, p <= Len(t), b[p] # "nul"
  PROVE  p + 1 <= Len(t) /\ p + 1 \in 1..Len(t) /\ b[p] = t[p + 1]
<1>1. Len(t) \in Nat
  OBVIOUS
<1>2. p # Len(t)
  BY DEF Held
<1>3. p \in 0..Len(t) - 1
  BY <1>1, <1>2
<1>4. b[p] = t[p + 1]
  BY <1>3 DEF Held
<1>5. p + 1 <= Len(t) /\ p + 1 \in 1..Len(t)
  BY <1>1, <1>3
<1> QED BY <1>4, <1>5

\* What a simple line is.
LEMMA SimpleIs ==
  ASSUME NEW t \in Seq(STRING), Simple(t)
  PROVE  /\ Len(t) \in Nat /\ DOMAIN t = 1..Len(t) /\ ~ Closing(t, Len(t))
         /\ \A k \in 1..Len(t) : Opening(t, k) => \E j \in 1..Len(t) : j > k /\ Closing(t, j)
<1>1. Len(t) \in Nat /\ DOMAIN t = 1..Len(t)
  OBVIOUS
<1>2. t[Len(t)] = "nl"
  BY DEF Simple, Last
<1>3. \A k \in DOMAIN t : t[k] = "(" => \E j \in DOMAIN t : j > k /\ t[j] = ")"
  BY DEF Simple
<1>4. ~ Closing(t, Len(t))
  BY <1>2 DEF Closing
<1> QED BY <1>1, <1>3, <1>4 DEF Opening, Closing

\* The last byte does not close a bracket.
LEMMA BehindClosing ==
  ASSUME NEW t \in Seq(STRING), Simple(t), NEW p \in Nat, p + 1 <= Len(t), Closing(t, p + 1)
  PROVE  p + 2 <= Len(t)
<1>1. Len(t) \in Nat /\ ~ Closing(t, Len(t))
  BY SimpleIs
<1>2. p + 1 # Len(t)
  BY <1>1
<1> QED BY <1>1, <1>2

\* No bracket is open at the end.
LEMMA ClosedAtEnd ==
  ASSUME NEW t \in Seq(STRING), Simple(t)
  PROVE  ~ OpenAt(t, Len(t))
<1> SUFFICES ASSUME OpenAt(t, Len(t)) PROVE FALSE
  OBVIOUS
<1>1. PICK i \in 1..Len(t) : Opening(t, i) /\ \A j \in i + 1..Len(t) : ~ Bracketing(t, j)
  BY DEF OpenAt
<1>2. PICK j \in 1..Len(t) : j > i /\ Closing(t, j)
  BY <1>1, SimpleIs
<1>3. Len(t) \in Nat
  OBVIOUS
<1>4. j \in i + 1..Len(t)
  BY <1>2, <1>3
<1>5. Bracketing(t, j)
  BY <1>2 DEF Bracketing, Closing
<1> QED BY <1>1, <1>4, <1>5

\* Behind an open bracket none opens.
LEMMA NoDeeper ==
  ASSUME NEW t \in Seq(STRING), Simple(t), NEW p \in Nat, p + 1 \in 1..Len(t), OpenAt(t, p)
  PROVE  ~ Opening(t, p + 1)
<1> SUFFICES ASSUME Opening(t, p + 1) PROVE FALSE
  OBVIOUS
<1> DEFINE k == p + 1
           before == {j \in 1..k - 1 : t[j] \in {"(", ")"}}
           last == CHOOSE j \in before : \A i \in before : i <= j
<1>1. PICK i \in 1..p : Opening(t, i) /\ \A j \in i + 1..p : ~ Bracketing(t, j)
  BY DEF OpenAt
<1>2. k - 1 = p /\ k \in DOMAIN t
  OBVIOUS
<1>3. t[k] = "(" /\ t[i] = "("
  BY <1>1 DEF Opening
<1>4. before = {j \in 1..p : Bracketing(t, j)}
  BY <1>2 DEF Bracketing
<1>5. IF before = {} THEN t[k] = "(" ELSE t[k] # t[last]
  BY <1>2, <1>3 DEF Simple
<1> HIDE DEF k, before
<1>6. i \in before
  BY <1>1, <1>4 DEF Opening, Bracketing
<1>7. \A j \in before : j \in 1..p /\ Bracketing(t, j)
  BY <1>4
<1>8. \A j \in before : j <= i
  <2> TAKE j \in before
  <2>1. j \in 1..p /\ j \notin i + 1..p
    BY <1>1, <1>7
  <2> QED BY <2>1
<1>9. last \in before /\ \A j \in before : j <= last
  BY <1>6, <1>8
<1> HIDE DEF last
<1>10. last = i
  <2>1. last <= i /\ i <= last
    BY <1>6, <1>8, <1>9
  <2>2. last \in 1..p
    BY <1>7, <1>9
  <2> QED BY <2>1, <2>2
<1> QED BY <1>3, <1>5, <1>6, <1>10

\* One byte further.
LEMMA OpenFurther ==
  ASSUME NEW t, NEW p \in Nat
  PROVE  /\ OpenAt(t, p) /\ ~ Bracketing(t, p + 1) => OpenAt(t, p + 1)
         /\ Opening(t, p + 1) => OpenAt(t, p + 1)
<1>1. ASSUME OpenAt(t, p), ~ Bracketing(t, p + 1) PROVE OpenAt(t, p + 1)
  <2>1. PICK i \in 1..p : Opening(t, i) /\ \A j \in i + 1..p : ~ Bracketing(t, j)
    BY <1>1 DEF OpenAt
  <2>2. i \in 1..p + 1 /\ \A j \in i + 1..p + 1 : j \in i + 1..p \/ j = p + 1
    OBVIOUS
  <2>3. \A j \in i + 1..p + 1 : ~ Bracketing(t, j)
    BY <1>1, <2>1, <2>2
  <2> QED BY <2>1, <2>2, <2>3 DEF OpenAt
<1>2. ASSUME Opening(t, p + 1) PROVE OpenAt(t, p + 1)
  <2>1. p + 1 \in 1..p + 1 /\ (p + 1) + 1..p + 1 = {}
    OBVIOUS
  <2> QED BY <1>2, <2>1 DEF OpenAt
<1> QED BY <1>1, <1>2

\* A sequence of n frames.
Long(s, n) == \E R : s \in Seq(R) /\ Len(s) = n

\* Frames pushed, and the innermost one replaced.
LEMMA LongIs ==
  ASSUME NEW s, NEW n \in Nat, Long(s, n), NEW x
  PROVE  /\ Len(s) = n /\ Long(Append(s, x), n + 1)
         /\ n > 0 => Long([s EXCEPT ![n] = x], n)
<1>1. PICK R : s \in Seq(R) /\ Len(s) = n
  BY DEF Long
<1> DEFINE Q == R \cup {x}
<1>2. s \in Seq(Q) /\ x \in Q
  BY <1>1
<1> HIDE DEF Q
<1>3. Append(s, x) \in Seq(Q) /\ Len(Append(s, x)) = n + 1
  BY <1>1, <1>2
<1>4. n > 0 => [s EXCEPT ![n] = x] \in Seq(Q) /\ Len([s EXCEPT ![n] = x]) = n
  BY <1>1, <1>2
<1> QED BY <1>1, <1>3, <1>4 DEF Long

\* The call returns to the first frame.
LEMMA LongPopped ==
  ASSUME NEW s, Long(s, 2), NEW x
  PROVE  Long(Append(SubSeq(s, 1, Len(s) - 2), x), 1)
<1>1. PICK R : s \in Seq(R) /\ Len(s) = 2
  BY DEF Long
<1>2. Len(s) - 2 = 0
  BY <1>1
<1>3. SubSeq(s, 1, 0) = <<>>
  BY <1>1
<1>4. Append(<<>>, x) \in Seq({x}) /\ Len(Append(<<>>, x)) = 1
  OBVIOUS
<1>5. Append(SubSeq(s, 1, Len(s) - 2), x) = Append(<<>>, x)
  BY <1>2, <1>3
<1> QED BY <1>4, <1>5 DEF Long

----------------------------------------------------------------------------
Depth(t) == Long(efrm, 1) \/ (Long(efrm, 2) /\ OpenAt(t, epos))

EvalInv ==
  /\ esess \in Seq(EvalInput) /\ eline.text \in Seq(STRING)
  /\ epc # "none" => DOMAIN ebuf = 0..EvalBuf - 1
  /\ epc = "scan" => /\ Held(ebuf, eline.text) /\ epos \in Nat
                     /\ Simple(eline.text) => epos <= Len(eline.text) /\ Depth(eline.text)

\* The invariant holds before the first line.
LEMMA EvalBegins == ProgramsInit => EvalInv
<1> SUFFICES ASSUME ProgramsInit PROVE EvalInv
  OBVIOUS
<1>1. EvalInit \/ EvalIdle
  BY DEF ProgramsInit
<1>2. eline.text = <<>> /\ <<>> \in Seq(STRING)
  BY <1>1 DEF EvalInit, EvalIdle
<1>3. esess \in Seq(EvalInput)
  <2>1. esess = <<>> \/ esess \in EvalSessions
    BY <1>1 DEF EvalInit, EvalIdle
  <2>2. EvalSessions \subseteq Seq(EvalInput)
    BY EvalAssumption
  <2>3. <<>> \in Seq(EvalInput)
    OBVIOUS
  <2> QED BY <2>1, <2>2, <2>3
<1>4. epc # "none" => DOMAIN ebuf = 0..EvalBuf - 1
  BY <1>1 DEF EvalInit, EvalIdle
<1>5. epc # "scan"
  BY <1>1 DEF EvalInit, EvalIdle
<1> QED BY <1>2, <1>3, <1>4, <1>5 DEF EvalInv

\* A line is read.
LEMMA EvalReadKeeps == ASSUME EvalInv, EvalRead PROVE EvalInv'
<1> DEFINE t == Head(esess).text
           L == Len(t)
<1>1. /\ epc = "read" /\ esess # <<>> /\ L < EvalBuf
      /\ ebuf' = [k \in DOMAIN ebuf |-> IF k < L THEN t[k + 1] ELSE IF k = L THEN "nul" ELSE ebuf[k]]
      /\ eline' = Head(esess) /\ esess' = Tail(esess) /\ epos' = 0 /\ efrm' = <<FreshFrame>>
      /\ epc' = "scan"
  BY DEF EvalRead
<1>2. esess \in Seq(EvalInput) /\ DOMAIN ebuf = 0..EvalBuf - 1
  BY <1>1 DEF EvalInv
<1>3. Head(esess) \in EvalInput /\ Tail(esess) \in Seq(EvalInput)
  BY <1>1, <1>2
<1>4. t \in Seq(STRING)
  BY <1>3 DEF EvalInput
<1> HIDE DEF t
<1>5. L \in Nat
  BY <1>4
<1>6. L \in 0..EvalBuf - 1 /\ ~ (L < L) /\ \A k \in 0..L - 1 : k \in 0..EvalBuf - 1 /\ k < L
  <2>1. EvalBuf \in Nat
    BY EvalAssumption
  <2>2. L < EvalBuf
    BY <1>1
  <2> HIDE DEF L
  <2> QED BY <1>5, <2>1, <2>2
<1>7. Held(ebuf', t)
  BY <1>1, <1>2, <1>6 DEF Held
<1>8. 0 \in Nat /\ 0 <= Len(t)
  BY <1>5
<1>9. Long(efrm', 1)
  <2>1. <<FreshFrame>> \in Seq({FreshFrame}) /\ Len(<<FreshFrame>>) = 1
    OBVIOUS
  <2> QED BY <1>1, <2>1 DEF Long
<1>10. DOMAIN ebuf' = 0..EvalBuf - 1 /\ eline'.text = t
  BY <1>1, <1>2 DEF t
<1> QED BY <1>1, <1>3, <1>4, <1>7, <1>8, <1>9, <1>10 DEF EvalInv, Depth

\* The walk goes on in the line.
LEMMA EvalWalks ==
  ASSUME EvalInv, epc = "scan", esess' = esess, eline' = eline, ebuf' = ebuf, epc' = "scan",
         epos' \in Nat,
         Simple(eline.text) => epos' <= Len(eline.text) /\ Depth(eline.text)'
  PROVE  EvalInv'
BY DEF EvalInv

\* A byte that is no bracket and not zero.
LEMMA EvalByteKeeps == ASSUME EvalInv, EvalDigit \/ EvalOther PROVE EvalInv'
<1> DEFINE t == eline.text
<1>1. /\ epc = "scan" /\ esess' = esess /\ eline' = eline /\ ebuf' = ebuf /\ epc' = "scan"
      /\ epos' = epos + 1 /\ \E f : efrm' = SetTop(f)
  BY DEF EvalDigit, EvalOther
<1>2. Byte # "nul" /\ Byte # "(" /\ Byte # ")"
  <2>1. CASE EvalDigit
    <3>1. Byte \in ToSet(DigitBytes)
      BY <2>1 DEF EvalDigit
    <3>2. \A c \in ToSet(DigitBytes) : c # "nul" /\ c # "(" /\ c # ")"
      BY DEF ToSet, DigitBytes
    <3> QED BY <3>1, <3>2
  <2>2. CASE EvalOther
    BY <2>2 DEF EvalOther
  <2> QED BY <2>1, <2>2
<1>3. Held(ebuf, t) /\ epos \in Nat /\ t \in Seq(STRING)
      /\ (Simple(t) => epos <= Len(t) /\ Depth(t)) /\ t' = t
  BY <1>1 DEF EvalInv
<1> HIDE DEF t
<1>4. epos' \in Nat
  BY <1>1, <1>3
<1>5. ASSUME Simple(t) PROVE epos' <= Len(t) /\ Depth(t)'
  <2>1. epos + 1 <= Len(t) /\ epos + 1 \in 1..Len(t) /\ ebuf[epos] = t[epos + 1]
    BY <1>2, <1>3, <1>5, HeldByte DEF Byte
  <2>2. ~ Bracketing(t, epos + 1)
    BY <1>2, <2>1 DEF Bracketing, Byte
  <2>3. PICK f : efrm' = [efrm EXCEPT ![Len(efrm)] = f]
    BY <1>1 DEF SetTop
  <2>4. 1 \in Nat /\ 2 \in Nat /\ 1 > 0 /\ 2 > 0
    OBVIOUS
  <2>5. CASE Long(efrm, 1)
    BY <1>1, <2>1, <2>3, <2>4, <2>5, LongIs DEF Depth
  <2>6. CASE Long(efrm, 2) /\ OpenAt(t, epos)
    <3>1. Long(efrm', 2)
      BY <2>3, <2>4, <2>6, LongIs
    <3>2. OpenAt(t, epos')
      BY <1>1, <1>3, <2>2, <2>6, OpenFurther
    <3> QED BY <1>1, <1>3, <2>1, <3>1, <3>2 DEF Depth
  <2> QED BY <1>3, <1>5, <2>5, <2>6 DEF Depth
<1> QED BY <1>1, <1>4, <1>5, EvalWalks DEF t

\* An opening bracket.
LEMMA EvalOpenKeeps == ASSUME EvalInv, EvalOpen PROVE EvalInv'
<1> DEFINE t == eline.text
<1>1. /\ epc = "scan" /\ esess' = esess /\ eline' = eline /\ ebuf' = ebuf /\ epc' = "scan"
      /\ epos' = epos + 1 /\ efrm' = Append(efrm, FreshFrame) /\ ebuf[epos] = "("
  BY DEF EvalOpen, Byte
<1>3. Held(ebuf, t) /\ epos \in Nat /\ t \in Seq(STRING)
      /\ (Simple(t) => epos <= Len(t) /\ Depth(t)) /\ t' = t
  BY <1>1 DEF EvalInv
<1> HIDE DEF t
<1>4. epos' \in Nat
  BY <1>1, <1>3
<1>5. ASSUME Simple(t) PROVE epos' <= Len(t) /\ Depth(t)'
  <2>0. ebuf[epos] # "nul"
    BY <1>1
  <2>1. epos + 1 <= Len(t) /\ epos + 1 \in 1..Len(t) /\ ebuf[epos] = t[epos + 1]
    BY <1>3, <1>5, <2>0, HeldByte
  <2>2. Opening(t, epos + 1)
    BY <1>1, <2>1 DEF Opening
  <2>3. ~ OpenAt(t, epos)
    BY <1>3, <1>5, <2>1, <2>2, NoDeeper
  <2>4. Long(efrm, 1) /\ 1 \in Nat /\ 1 + 1 = 2
    BY <1>3, <1>5, <2>3 DEF Depth
  <2>5. Long(efrm', 1 + 1)
    BY <1>1, <2>4, LongIs
  <2>6. OpenAt(t, epos')
    BY <1>1, <1>3, <2>2, OpenFurther
  <2> QED BY <1>1, <1>3, <2>1, <2>4, <2>5, <2>6 DEF Depth
<1> QED BY <1>1, <1>4, <1>5, EvalWalks DEF t

\* The end of a bracket: the loop of the caller steps over one more byte.
LEMMA EvalReturnKeeps == ASSUME EvalInv, EvalReturn PROVE EvalInv'
<1> DEFINE t == eline.text
<1>1. /\ epc = "scan" /\ esess' = esess /\ eline' = eline /\ ebuf' = ebuf /\ epc' = "scan"
      /\ Nested /\ ebuf[epos] \in {")", "nul"} /\ \E f : efrm' = PopTo(f)
      /\ epos' = epos + (IF ebuf[epos] = ")" THEN 2 ELSE 1)
  BY DEF EvalReturn, Byte, AfterBracket
<1>3. Held(ebuf, t) /\ epos \in Nat /\ t \in Seq(STRING)
      /\ (Simple(t) => epos <= Len(t) /\ Depth(t)) /\ t' = t
  BY <1>1 DEF EvalInv
<1> HIDE DEF t
<1>4. (ebuf[epos] = ")" => epos' = epos + 2) /\ (ebuf[epos] # ")" => epos' = epos + 1)
  BY <1>1
<1>5. epos' \in Nat
  BY <1>3, <1>4
<1>6. ASSUME Simple(t) PROVE epos' <= Len(t) /\ Depth(t)'
  <2>1. Long(efrm, 2) /\ OpenAt(t, epos)
    <3>1. 1 \in Nat
      OBVIOUS
    <3>2. ~ Long(efrm, 1)
      <4> SUFFICES ASSUME Long(efrm, 1) PROVE FALSE
        OBVIOUS
      <4>1. Len(efrm) = 1
        BY <3>1, LongIs
      <4> QED BY <1>1, <4>1 DEF Nested
    <3> QED BY <1>3, <1>6, <3>2 DEF Depth
  <2>2. Long(efrm', 1)
    BY <1>1, <2>1, LongPopped DEF PopTo
  <2>3. epos # Len(t) /\ epos <= Len(t) /\ Len(t) \in Nat
    BY <1>3, <1>6, <2>1, ClosedAtEnd
  <2>4. epos + 1 <= Len(t)
    BY <1>3, <2>3
  <2>5. CASE ebuf[epos] = ")"
    <3>0. ebuf[epos] # "nul" /\ epos <= Len(t)
      BY <2>3, <2>5
    <3>1. ebuf[epos] = t[epos + 1]
      BY <1>3, <3>0, HeldByte
    <3>2. Closing(t, epos + 1)
      BY <2>5, <3>1 DEF Closing
    <3>3. epos + 2 <= Len(t)
      BY <1>3, <1>6, <2>4, <3>2, BehindClosing
    <3>4. epos' = epos + 2
      BY <1>4, <2>5
    <3> QED BY <2>2, <3>3, <3>4 DEF Depth
  <2>6. CASE ebuf[epos] # ")"
    <3>1. epos' = epos + 1
      BY <1>4, <2>6
    <3> QED BY <2>2, <2>4, <3>1 DEF Depth
  <2> QED BY <2>5, <2>6
<1> QED BY <1>1, <1>5, <1>6, EvalWalks DEF t

\* What ends the walk, and what is done without one.
LEMMA EvalRestKeeps ==
  ASSUME EvalInv, EvalEof \/ EvalFinish \/ EvalFault \/ EvalWild \/ EvalPrint
  PROVE  EvalInv'
<1>1. /\ esess' = esess /\ eline' = eline /\ ebuf' = ebuf /\ epc # "none"
      /\ epc' \in {"ended", "print", "fault", "wild", "read"}
  BY DEF EvalEof, EvalFinish, EvalFault, EvalWild, EvalPrint
<1> QED BY <1>1 DEF EvalInv

\* Nothing the other programs do matters to eval.
LEMMA EvalStep ==
  ASSUME EvalInv, [PNext]_progVars
  PROVE  EvalInv'
<1>1. CASE EvalNext
  BY <1>1, EvalReadKeeps, EvalByteKeeps, EvalOpenKeeps, EvalReturnKeeps, EvalRestKeeps DEF EvalNext
<1>2. CASE UNCHANGED evalVars
  <2>1. esess' = esess /\ eline' = eline /\ ebuf' = ebuf /\ epos' = epos /\ efrm' = efrm /\ epc' = epc
    BY <1>2 DEF evalVars
  <2> QED BY <2>1 DEF EvalInv, Depth
<1> QED BY <1>1, <1>2, EvalStepIs

\* For lines, brackets and buffers of every size, and whatever earlier lines left in
\* the buffer: on a newline-terminated line whose brackets are closed one by one,
\* eval_recur does not step over the zero byte.
THEOREM EvalStaysInLine == ProgramsSpec => []StaysInLine
<1>1. EvalInv /\ [ProgramStep \/ OthersStep \/ Rest]_progVars => EvalInv'
  BY EvalStep DEF PNext
<1>2. EvalInv => StaysInLine
  BY DEF EvalInv, StaysInLine
<1> QED BY <1>1, <1>2, EvalBegins, PTL DEF ProgramsSpec

----------------------------------------------------------------------------
(* eval: the value of an expression.  What the reference definitions        *)
(* compute, prefix by prefix.                                               *)

\* The numbers of the first digits.
LEMMA NumbersAre ==
  ASSUME NEW d \in Seq(0..9)
  PROVE  /\ \A k \in 0..Len(d) : Numbers(d)[k] \in Nat
         /\ Numbers(d)[0] = 0
         /\ \A k \in 1..Len(d) : Numbers(d)[k] = 10 * Numbers(d)[k - 1] + d[k]
         /\ \A k \in 0..Len(d) : Numbers(d)[k] <= NumberOf(d)
<1> DEFINE n == Len(d)
           P(f) == f = [k \in 0..n |-> IF k = 0 THEN 0 ELSE 10 * f[k - 1] + d[k]]
           h == [k \in 1..n |-> [x \in Nat |-> 10 * x + d[k]]]
           N == Numbers(d)
<1>0. n \in Nat /\ \A k \in 1..n : d[k] \in 0..9
  OBVIOUS
<1>1. h \in [1..n -> [Nat -> Nat]]
  <2>1. \A k \in 1..n, x \in Nat : 10 * x + d[k] \in Nat
    BY <1>0
  <2> HIDE DEF n
  <2> QED BY <2>1
<1>2. \A k \in 1..n, x \in Nat : h[k][x] = 10 * x + d[k]
  OBVIOUS
<1> HIDE DEF h, n
<1>b. PICK f : Along(f, n, Nat, 0, h)
  <2>1. 0 \in Nat
    OBVIOUS
  <2> QED BY <1>0, <1>1, <2>1, PrefixExists
<1>3. f \in [0..n -> Nat] /\ f[0] = 0 /\ \A k \in 1..n : f[k] = h[k][f[k - 1]]
  BY <1>b DEF Along
<1>4. P(f)
  <2>1. ASSUME NEW k \in 0..n PROVE f[k] = IF k = 0 THEN 0 ELSE 10 * f[k - 1] + d[k]
    <3>1. k # 0 => k \in 1..n /\ k - 1 \in 0..n
      BY <1>0
    <3>2. k # 0 => f[k - 1] \in Nat
      BY <1>3, <3>1
    <3> QED BY <1>2, <1>3, <3>1, <3>2
  <2>2. f = [k \in 0..n |-> f[k]]
    BY <1>3
  <2> QED BY <2>1, <2>2
<1>5. P(N)
  <2>1. P(CHOOSE x : P(x))
    BY <1>4
  <2>2. N = CHOOSE x : P(x)
    BY DEF Numbers, n
  <2> HIDE DEF P, N
  <2> QED BY <2>1, <2>2
<1> HIDE DEF N
<1>6. N[0] = 0 /\ \A k \in 1..n : N[k] = 10 * N[k - 1] + d[k]
  <2>1. \A k \in 1..n : k \in 0..n /\ k # 0
    BY <1>0
  <2>2. 0 \in 0..n
    BY <1>0
  <2> QED BY <1>5, <2>1, <2>2
<1> HIDE DEF P
<1>7. \A k \in 0..n : N[k] \in Nat
  <2>1. \A k \in 1..n : N[k - 1] \in Nat => N[k] = h[k][N[k - 1]]
    BY <1>2, <1>6
  <2>2. N[0] \in Nat
    BY <1>6
  <2>3. Follows(N, n, Nat, h)
    BY <2>1 DEF Follows
  <2> QED BY <1>0, <1>1, <2>2, <2>3, PrefixTyped
<1>8. \A k \in 1..n : N[k - 1] <= N[k]
  <2> TAKE k \in 1..n
  <2>1. k - 1 \in 0..n /\ k \in 0..n
    BY <1>0
  <2>2. N[k - 1] \in Nat /\ d[k] \in 0..9 /\ N[k] = 10 * N[k - 1] + d[k]
    BY <1>0, <1>6, <1>7, <2>1
  <2>3. ASSUME NEW a \in Nat, NEW x \in 0..9 PROVE a <= 10 * a + x
    OBVIOUS
  <2> QED BY <2>2, <2>3
<1>9. \A k \in 0..n : N[k] <= N[n]
  BY <1>0, <1>7, <1>8, GrowsUp
<1> QED BY <1>6, <1>7, <1>9 DEF n, N, NumberOf

\* Where the operands end.
LEMMA EndsAre ==
  ASSUME NEW from \in Nat, NEW g \in Seq(Operand)
  PROVE  /\ \A k \in 0..Len(g) : Ends(from, g)[k] \in Nat
         /\ Ends(from, g)[0] = from
         /\ \A k \in 1..Len(g) :
              Ends(from, g)[k] = Ends(from, g)[k - 1] + OpSize(g[k].op) + Len(g[k].digits)
         /\ \A k \in 0..Len(g) : Ends(from, g)[k] <= Ends(from, g)[Len(g)]
<1> DEFINE n == Len(g)
           w(k) == OpSize(g[k].op) + Len(g[k].digits)
           P(f) == f = [k \in 0..n |-> IF k = 0 THEN from ELSE f[k - 1] + OpSize(g[k].op) + Len(g[k].digits)]
           h == [k \in 1..n |-> [x \in Nat |-> x + w(k)]]
           N == Ends(from, g)
<1>0. n \in Nat /\ \A k \in 1..n : w(k) \in Nat /\ OpSize(g[k].op) \in Nat /\ Len(g[k].digits) \in Nat
  <2>1. n \in Nat /\ \A k \in 1..n : g[k] \in Operand
    OBVIOUS
  <2>2. \A i \in Operand : Len(i.digits) \in Nat
    BY LenProperties DEF Operand
  <2>3. \A i : OpSize(i) \in Nat
    BY DEF OpSize
  <2>4. ASSUME NEW k \in 1..n PROVE w(k) \in Nat /\ OpSize(g[k].op) \in Nat /\ Len(g[k].digits) \in Nat
    <3>1. OpSize(g[k].op) \in Nat /\ Len(g[k].digits) \in Nat
      BY <2>1, <2>2, <2>3
    <3> QED BY <3>1
  <2> QED BY <2>1, <2>4
<1>1. h \in [1..n -> [Nat -> Nat]]
  <2>1. \A k \in 1..n, x \in Nat : x + w(k) \in Nat
    <3> HIDE DEF w, n
    <3> QED BY <1>0
  <2> HIDE DEF n, w
  <2> QED BY <2>1
<1>2. \A k \in 1..n, x \in Nat : h[k][x] = x + w(k)
  <2> HIDE DEF w, n
  <2> QED OBVIOUS
<1> HIDE DEF h, n
<1>a. \A k \in 1..n, x \in Nat : h[k][x] = x + OpSize(g[k].op) + Len(g[k].digits)
  <2> TAKE k \in 1..n, x \in Nat
  <2>1. OpSize(g[k].op) \in Nat /\ Len(g[k].digits) \in Nat
    BY <1>0
  <2> DEFINE c == OpSize(g[k].op)
             d == Len(g[k].digits)
  <2>2. h[k][x] = x + (c + d)
    BY <1>2
  <2> HIDE DEF c, d
  <2>3. x + (c + d) = x + c + d
    BY <2>1 DEF c, d
  <2> QED BY <2>2, <2>3 DEF c, d
<1> HIDE DEF w
<1>b. PICK f : Along(f, n, Nat, from, h)
  <2>1. from \in Nat
    OBVIOUS
  <2> QED BY <1>0, <1>1, <2>1, PrefixExists
<1>3. f \in [0..n -> Nat] /\ f[0] = from /\ \A k \in 1..n : f[k] = h[k][f[k - 1]]
  BY <1>b DEF Along
<1>4. P(f)
  <2>1. ASSUME NEW k \in 0..n
        PROVE  f[k] = IF k = 0 THEN from ELSE f[k - 1] + OpSize(g[k].op) + Len(g[k].digits)
    <3>1. k # 0 => k \in 1..n /\ k - 1 \in 0..n
      BY <1>0
    <3>2. k # 0 => f[k - 1] \in Nat
      BY <1>3, <3>1
    <3> QED BY <1>a, <1>3, <3>1, <3>2
  <2>2. f = [k \in 0..n |-> f[k]]
    BY <1>3
  <2> QED BY <2>1, <2>2
<1>5. P(N)
  <2>1. P(CHOOSE x : P(x))
    BY <1>4
  <2>2. N = CHOOSE x : P(x)
    BY DEF Ends, n
  <2> HIDE DEF P, N
  <2> QED BY <2>1, <2>2
<1> HIDE DEF N
<1>6. N[0] = from /\ \A k \in 1..n : N[k] = N[k - 1] + OpSize(g[k].op) + Len(g[k].digits)
  <2>1. \A k \in 1..n : k \in 0..n /\ k # 0
    BY <1>0
  <2>2. 0 \in 0..n
    BY <1>0
  <2> QED BY <1>5, <2>1, <2>2
<1> HIDE DEF P
<1>7. \A k \in 0..n : N[k] \in Nat
  <2>1. \A k \in 1..n : N[k - 1] \in Nat => N[k] = h[k][N[k - 1]]
    BY <1>a, <1>6
  <2>2. N[0] \in Nat
    BY <1>6
  <2>3. Follows(N, n, Nat, h)
    BY <2>1 DEF Follows
  <2> QED BY <1>0, <1>1, <2>2, <2>3, PrefixTyped
<1>8. \A k \in 1..n : N[k - 1] <= N[k]
  <2> TAKE k \in 1..n
  <2>1. k - 1 \in 0..n /\ k \in 0..n
    BY <1>0
  <2>2. N[k - 1] \in Nat /\ OpSize(g[k].op) \in Nat /\ Len(g[k].digits) \in Nat
        /\ N[k] = N[k - 1] + OpSize(g[k].op) + Len(g[k].digits)
    BY <1>0, <1>6, <1>7, <2>1
  <2> QED BY <2>2
<1>9. \A k \in 0..n : N[k] <= N[n]
  BY <1>0, <1>7, <1>8, GrowsUp
<1> QED BY <1>6, <1>7, <1>9 DEF n, N

\* The values of a long, the operators of an expression, and what a part of it may be worth.
LongRange == -EvalHalf..EvalHalf - 1
Opers == OperBytes \cup {"null"}
Worth == [ok : BOOLEAN, v : LongRange]

\* What a long holds of a number: a value of its range, and the number itself if it fits.
LEMMA ToLongIs ==
  ASSUME NEW v \in Int
  PROVE  ToLong(v) \in LongRange /\ (v \in LongRange => ToLong(v) = v)
<1> DEFINE m == 2 * EvalHalf
<1>0. EvalHalf \in Nat \ {0} /\ m \in Nat \ {0} /\ m = EvalHalf + EvalHalf
  BY EvalAssumption
<1> HIDE DEF m
<1>1. v % m \in 0..m - 1
  BY <1>0
<1>2. v \in 0..m - 1 => v % m = v
  BY <1>0
<1>3. v + m \in 1..m - 1 => v % m = v + m
  <2> SUFFICES ASSUME v + m \in 1..m - 1 PROVE v % m = v + m
    OBVIOUS
  <2> DEFINE w == v + m
  <2>1. w \in 1..m - 1 /\ v = w - m
    BY <1>0
  <2> HIDE DEF w
  <2>2. (w - m) % m = w
    BY <1>0, <2>1
  <2> QED BY <2>1, <2>2 DEF w
<1> DEFINE u == v % m
<1> HIDE DEF u
<1>4. u \in 0..m - 1 /\ (v \in 0..m - 1 => u = v) /\ (v + m \in 1..m - 1 => u = v + m)
  BY <1>1, <1>2, <1>3 DEF u
<1>5. ToLong(v) = IF u >= EvalHalf THEN u - m ELSE u
  BY DEF ToLong, u, m
<1>6. ToLong(v) \in -EvalHalf..EvalHalf - 1
  BY <1>0, <1>4, <1>5
<1>7. v \in -EvalHalf..EvalHalf - 1 => ToLong(v) = v
  BY <1>0, <1>4, <1>5
<1> QED BY <1>6, <1>7 DEF LongRange

\* eval_simple does what the arithmetic of a long says.
LEMMA OperIs ==
  ASSUME NEW op \in Opers, NEW a \in LongRange, NEW b \in LongRange, ~ Faults(op, a, b)
  PROVE  Exact(op, a, b) \in Int /\ Oper(op, a, b) = ToLong(Exact(op, a, b))
<1>0. a \in Int /\ b \in Int
  BY EvalAssumption DEF LongRange
<1>1. CASE op = "null"
  <2>1. Exact(op, a, b) = b /\ Oper(op, a, b) = b
    BY <1>1 DEF Exact, Oper
  <2> QED BY <1>0, <2>1, ToLongIs
<1>2. CASE op = "+"
  BY <1>0, <1>2 DEF Exact, Oper
<1>3. CASE op = "-"
  BY <1>0, <1>3 DEF Exact, Oper
<1>4. CASE op = "*"
  BY <1>0, <1>4 DEF Exact, Oper
<1>5. CASE op = "/"
  <2>1. b # 0
    BY <1>5 DEF Faults
  <2> DEFINE x == Magnitude(a)
             y == Magnitude(b)
  <2>2. x \in Nat /\ y \in Nat /\ y > 0
    BY <1>0, <2>1 DEF Magnitude
  <2>3. Exact(op, a, b) = IF (a < 0) = (b < 0) THEN x \div y ELSE -(x \div y)
    BY <1>5 DEF Exact
  <2>4. Oper(op, a, b) = ToLong(IF (a < 0) = (b < 0) THEN x \div y ELSE -(x \div y))
    BY <1>5 DEF Oper, Quotient
  <2> HIDE DEF x, y
  <2>5. x \div y \in Int
    BY <2>2
  <2>6. -(x \div y) \in Int
    BY <2>5
  <2> QED BY <2>3, <2>4, <2>5, <2>6
<1> QED BY <1>1, <1>2, <1>3, <1>4, <1>5 DEF Opers, OperBytes

\* A step of the reference value is one call of eval_simple.
LEMMA StepIs ==
  ASSUME NEW r \in Worth, NEW op \in Opers, NEW b \in LongRange
  PROVE  /\ Step(r, op, b) \in Worth
         /\ ~ r.ok => ~ Step(r, op, b).ok
         /\ Faults(op, r.v, b) => ~ Step(r, op, b).ok
         /\ r.ok /\ ~ Faults(op, r.v, b) => Step(r, op, b).ok /\ Step(r, op, b).v = Oper(op, r.v, b)
<1>0. r.ok \in BOOLEAN /\ r.v \in LongRange /\ 0 \in LongRange
  BY EvalAssumption DEF Worth, LongRange
<1>1. CASE ~ r.ok \/ Faults(op, r.v, b)
  <2>1. Step(r, op, b) = [ok |-> FALSE, v |-> 0]
    BY <1>1 DEF Step
  <2> QED BY <1>0, <1>1, <2>1 DEF Worth
<1>2. CASE ~ (~ r.ok \/ Faults(op, r.v, b))
  <2>1. Step(r, op, b) = [ok |-> TRUE, v |-> ToLong(Exact(op, r.v, b))]
    BY <1>2 DEF Step
  <2>2. Exact(op, r.v, b) \in Int /\ Oper(op, r.v, b) = ToLong(Exact(op, r.v, b))
    BY <1>0, <1>2, OperIs
  <2>3. ToLong(Exact(op, r.v, b)) \in LongRange
    BY <2>2, ToLongIs
  <2> QED BY <1>2, <2>1, <2>2, <2>3 DEF Worth
<1> QED BY <1>1, <1>2

\* A number that fits a long, and the numbers of its first digits.
LEMMA NumberIs ==
  ASSUME NEW d \in Seq(0..9), IsNumber(d)
  PROVE  /\ NumberOf(d) \in LongRange /\ Len(d) \in Nat
         /\ \A j \in 0..Len(d) : Numbers(d)[j] \in 0..EvalHalf - 1
<1>4. NumberOf(d) < EvalHalf /\ Len(d) \in Nat
  BY LenProperties DEF IsNumber
<1>5. \A j \in 0..Len(d) : Numbers(d)[j] \in Nat /\ Numbers(d)[j] <= NumberOf(d)
  BY <1>4, NumbersAre
<1>6. NumberOf(d) \in Nat
  <2>1. Len(d) \in 0..Len(d)
    BY <1>4
  <2> QED BY <1>5, <2>1 DEF NumberOf
<1>7. EvalHalf \in Nat \ {0}
  BY EvalAssumption
<1>8. NumberOf(d) \in LongRange
  BY <1>4, <1>6, <1>7 DEF LongRange
<1>9. \A j \in 0..Len(d) : Numbers(d)[j] \in 0..EvalHalf - 1
  <2> TAKE j \in 0..Len(d)
  <2>1. Numbers(d)[j] \in Nat /\ Numbers(d)[j] <= NumberOf(d)
    BY <1>5
  <2> QED BY <1>4, <1>6, <1>7, <2>1
<1> QED BY <1>4, <1>8, <1>9

\* The operands of a well-formed group.
LEMMA OperandIs ==
  ASSUME NEW g \in Seq(Operand), WellFormed(g), NEW k \in 1..Len(g)
  PROVE  /\ g[k].digits \in Seq(0..9) /\ Len(g[k].digits) \in Nat /\ g[k].op \in Opers
         /\ NumberOf(g[k].digits) \in LongRange /\ IsNumber(g[k].digits)
<1>1. g[k] \in Operand
  OBVIOUS
<1>2. g[k].digits \in Seq(0..9)
  BY <1>1 DEF Operand
<1>3. g[k].op \in Opers /\ IsNumber(g[k].digits)
  BY DEF WellFormed, Opers
<1>4. PICK d : d = g[k].digits
  OBVIOUS
<1>5. NumberOf(d) \in LongRange /\ Len(d) \in Nat
  BY <1>2, <1>3, <1>4, NumberIs
<1> QED BY <1>2, <1>3, <1>4, <1>5

\* The values of the beginnings of an expression; once one has none, none behind it has.
LEMMA ValuesAre ==
  ASSUME NEW g \in Seq(Operand), WellFormed(g)
  PROVE  /\ \A k \in 0..Len(g) : Values(g)[k] \in Worth
         /\ Values(g)[0] = Nothing
         /\ \A k \in 1..Len(g) :
              Values(g)[k] = Step(Values(g)[k - 1], g[k].op, NumberOf(g[k].digits))
         /\ \A k \in 0..Len(g) : ~ Values(g)[k].ok => ~ PlainValue(g).ok
<1> DEFINE n == Len(g)
           o(k) == g[k].op
           b(k) == NumberOf(g[k].digits)
           P(f) == f = [k \in 0..n |-> IF k = 0 THEN Nothing ELSE Step(f[k - 1], o(k), b(k))]
           h == [k \in 1..n |-> [x \in Worth |-> Step(x, o(k), b(k))]]
           N == Values(g)
<1>0. n \in Nat /\ \A k \in 1..n : o(k) \in Opers /\ b(k) \in LongRange
  BY OperandIs
<1>z. Nothing \in Worth
  BY EvalAssumption DEF Nothing, Worth, LongRange
<1>p. \A f : P(f) <=> f = [k \in 0..Len(g) |-> IF k = 0 THEN Nothing
                                               ELSE Step(f[k - 1], g[k].op, NumberOf(g[k].digits))]
  OBVIOUS
<1> HIDE DEF n, o, b
<1>1. h \in [1..n -> [Worth -> Worth]]
  <2>1. \A k \in 1..n, x \in Worth : Step(x, o(k), b(k)) \in Worth
    BY <1>0, StepIs
  <2> QED BY <2>1
<1>2. \A k \in 1..n, x \in Worth : h[k][x] = Step(x, o(k), b(k))
  OBVIOUS
<1> HIDE DEF h
<1>b. PICK f : Along(f, n, Worth, Nothing, h)
  BY <1>0, <1>1, <1>z, PrefixExists
<1>3. f \in [0..n -> Worth] /\ f[0] = Nothing /\ \A k \in 1..n : f[k] = h[k][f[k - 1]]
  BY <1>b DEF Along
<1>4. P(f)
  <2>1. ASSUME NEW k \in 0..n PROVE f[k] = IF k = 0 THEN Nothing ELSE Step(f[k - 1], o(k), b(k))
    <3>1. k # 0 => k \in 1..n /\ k - 1 \in 0..n
      BY <1>0
    <3>2. k # 0 => f[k - 1] \in Worth
      BY <1>3, <3>1
    <3> QED BY <1>2, <1>3, <3>1, <3>2
  <2>2. f = [k \in 0..n |-> f[k]]
    BY <1>3
  <2> QED BY <2>1, <2>2
<1>5. P(N)
  <2>1. P(CHOOSE x : P(x))
    BY <1>4
  <2>2. N = CHOOSE x : P(x)
    BY DEF Values, n, o, b
  <2> HIDE DEF P, N
  <2> QED BY <2>1, <2>2
<1> HIDE DEF N
<1>6. N[0] = Nothing /\ \A k \in 1..n : N[k] = Step(N[k - 1], o(k), b(k))
  <2>1. \A k \in 1..n : k \in 0..n /\ k # 0
    BY <1>0
  <2>2. 0 \in 0..n
    BY <1>0
  <2> QED BY <1>5, <2>1, <2>2
<1> HIDE DEF P
<1>7. \A k \in 0..n : N[k] \in Worth
  <2>1. \A k \in 1..n : N[k - 1] \in Worth => N[k] = h[k][N[k - 1]]
    BY <1>2, <1>6
  <2>2. N[0] \in Worth
    BY <1>6, <1>z
  <2>3. Follows(N, n, Worth, h)
    BY <2>1 DEF Follows
  <2> QED BY <1>0, <1>1, <2>2, <2>3, PrefixTyped
<1> DEFINE S == {k \in Nat : k <= n /\ ~ N[n - k].ok => ~ N[n].ok}
<1>8. 0 \in S
  <2>1. n - 0 = n
    BY <1>0
  <2> QED BY <2>1
<1>9. ASSUME NEW k \in Nat, k \in S PROVE k + 1 \in S
  <2> SUFFICES ASSUME k + 1 <= n, ~ N[n - (k + 1)].ok PROVE ~ N[n].ok
    OBVIOUS
  <2>1. n - k \in 1..n /\ (n - k) - 1 = n - (k + 1) /\ n - (k + 1) \in 0..n /\ k <= n
    BY <1>0
  <2>2. N[n - k] = Step(N[n - (k + 1)], o(n - k), b(n - k))
    BY <1>6, <2>1
  <2>3. ~ N[n - k].ok
    BY <1>0, <1>7, <2>1, <2>2, StepIs
  <2> QED BY <1>9, <2>1, <2>3
<1>10. \A k \in Nat : k \in S
  <2> HIDE DEF S
  <2> QED BY <1>8, <1>9, SetInduction
<1>11. \A k \in 0..n : ~ N[k].ok => ~ N[n].ok
  <2> TAKE k \in 0..n
  <2>1. n - k \in Nat /\ n - k <= n /\ n - (n - k) = k
    BY <1>0
  <2>2. n - k \in S
    BY <1>10, <2>1
  <2> QED BY <2>1, <2>2
<1> QED BY <1>6, <1>7, <1>11 DEF n, N, PlainValue, o, b

\* The walk is behind j digits of operand k of g, at index p, with the frame f.
Inside(g, from, k, j, p, f) ==
  /\ k \in 1..Len(g) /\ j \in 0..Len(g[k].digits)
  /\ p = Ends(from, g)[k] - Len(g[k].digits) + j
  /\ Values(g)[k - 1].ok
  /\ f = [ret |-> Values(g)[k - 1].v, cur |-> Numbers(g[k].digits)[j], op |-> g[k].op]
InPiece(g, from, p, f) == \E k, j : Inside(g, from, k, j, p, f)

\* The bytes the walk takes for digits, with their values, and those it does not.
LEMMA DigitBytesAre ==
  /\ \A n \in 0..9 : DigitBytes[n + 1] \in ToSet(DigitBytes) /\ DigitValue(DigitBytes[n + 1]) = n
  /\ \A c \in OperBytes \cup {"(", ")", "nl", "nul"} : c \notin ToSet(DigitBytes)
<1>1. \A n \in 0..9 : DigitBytes[n + 1] \in ToSet(DigitBytes)
  BY DEF ToSet, DigitBytes
<1>2. ASSUME NEW n \in 0..9 PROVE DigitValue(DigitBytes[n + 1]) = n
  <2>1. \A m \in 0..9 : DigitBytes[m + 1] = DigitBytes[n + 1] => m = n
    BY DEF DigitBytes
  <2> DEFINE V(m) == m \in 0..9 /\ DigitBytes[m + 1] = DigitBytes[n + 1]
  <2>2. V(n)
    OBVIOUS
  <2>3. V(CHOOSE m : V(m))
    BY <2>2
  <2>4. DigitValue(DigitBytes[n + 1]) = CHOOSE m : V(m)
    BY DEF DigitValue
  <2> QED BY <2>1, <2>3, <2>4
<1>3. \A c \in OperBytes \cup {"(", ")", "nl", "nul"} : c \notin ToSet(DigitBytes)
  BY DEF ToSet, DigitBytes, OperBytes
<1> QED BY <1>1, <1>2, <1>3

\* Where the walk is inside an expression, in numbers.
LEMMA InsideIs ==
  ASSUME NEW g \in Seq(Operand), WellFormed(g), NEW from \in Nat, NEW k, NEW j, NEW p, NEW f,
         Inside(g, from, k, j, p, f)
  PROVE  /\ k \in 1..Len(g) /\ Len(g) \in Nat /\ k - 1 \in 0..Len(g) /\ k \in 0..Len(g)
         /\ Len(g[k].digits) \in Nat /\ g[k].digits \in Seq(0..9)
         /\ Ends(from, g)[k] \in Nat /\ Ends(from, g)[k - 1] \in Nat
         /\ p \in Nat /\ from <= p /\ p <= Ends(from, g)[Len(g)]
         /\ Values(g)[k - 1] \in Worth /\ Values(g)[k - 1].v \in LongRange
         /\ g[k].op \in Opers
<1>1. k \in 1..Len(g) /\ j \in 0..Len(g[k].digits) /\ p = Ends(from, g)[k] - Len(g[k].digits) + j
  BY DEF Inside
<1>2. Len(g) \in Nat
  BY LenProperties
<1>3. k - 1 \in 0..Len(g) /\ k \in 0..Len(g) /\ Len(g) \in 0..Len(g) /\ 0 \in 0..Len(g)
  BY <1>1, <1>2
<1>4. Len(g[k].digits) \in Nat /\ g[k].digits \in Seq(0..9) /\ g[k].op \in Opers
  BY <1>1, OperandIs
<1>5. /\ Ends(from, g)[k] \in Nat /\ Ends(from, g)[k - 1] \in Nat /\ Ends(from, g)[Len(g)] \in Nat
      /\ Ends(from, g)[k] = Ends(from, g)[k - 1] + OpSize(g[k].op) + Len(g[k].digits)
      /\ Ends(from, g)[k] <= Ends(from, g)[Len(g)]
  BY <1>1, <1>3, EndsAre
<1>6. OpSize(g[k].op) \in Nat
  BY DEF OpSize
<1>7. from <= Ends(from, g)[k - 1]
  <2> DEFINE e == Ends(from, g)
  <2>1. \A i \in 1..Len(g) : e[i - 1] <= e[i]
    <3> TAKE i \in 1..Len(g)
    <3>1. i - 1 \in 0..Len(g) /\ i \in 0..Len(g)
      BY <1>2
    <3>2. /\ e[i - 1] \in Nat /\ e[i] \in Nat /\ Len(g[i].digits) \in Nat
          /\ e[i] = e[i - 1] + OpSize(g[i].op) + Len(g[i].digits)
      BY <3>1, EndsAre, OperandIs
    <3>3. OpSize(g[i].op) \in Nat
      BY DEF OpSize
    <3> HIDE DEF e
    <3> QED BY <3>2, <3>3
  <2>2. \A i \in 0..k - 1 : e[i] \in Nat
    <3>1. \A i \in 0..k - 1 : i \in 0..Len(g)
      BY <1>1, <1>2
    <3> QED BY <3>1, EndsAre
  <2>3. \A i \in 1..k - 1 : e[i - 1] <= e[i]
    <3>1. \A i \in 1..k - 1 : i \in 1..Len(g)
      BY <1>1, <1>2
    <3> QED BY <2>1, <3>1
  <2>4. e[0] = from
    BY EndsAre
  <2>5. k - 1 \in Nat /\ 0 \in 0..k - 1
    BY <1>1, <1>2
  <2> HIDE DEF e
  <2>6. e[0] <= e[k - 1]
    BY <2>2, <2>3, <2>5, GrowsUp
  <2> QED BY <2>4, <2>6 DEF e
<1>8. p \in Nat /\ from <= p /\ p <= Ends(from, g)[Len(g)]
  <2> DEFINE a == Ends(from, g)[k - 1]
             b == Ends(from, g)[k]
             c == Ends(from, g)[Len(g)]
             l == Len(g[k].digits)
             o == OpSize(g[k].op)
  <2>1. /\ a \in Nat /\ b \in Nat /\ c \in Nat /\ l \in Nat /\ o \in Nat /\ from <= a
        /\ b = a + o + l /\ b <= c /\ j \in 0..l /\ p = b - l + j
    BY <1>1, <1>4, <1>5, <1>6, <1>7
  <2> HIDE DEF a, b, c, l, o
  <2>2. p \in Nat /\ from <= p /\ p <= c
    BY <2>1
  <2> QED BY <2>2 DEF c
<1>9. Values(g)[k - 1] \in Worth /\ Values(g)[k - 1].v \in LongRange
  <2>1. Values(g)[k - 1] \in Worth
    BY <1>3, ValuesAre
  <2> QED BY <2>1 DEF Worth
<1> QED BY <1>1, <1>2, <1>3, <1>4, <1>5, <1>8, <1>9

\* eval_simple on a frame given by its fields.
LEMMA EvalSimpleIs ==
  ASSUME NEW a, NEW b, NEW o
  PROVE  EvalSimple([ret |-> a, cur |-> b, op |-> o]) = [ret |-> Oper(o, a, b), cur |-> 0, op |-> o]
<1> DEFINE f == [ret |-> a, cur |-> b, op |-> o]
           v == Oper(o, a, b)
<1>1. Oper(f.op, f.ret, f.cur) = v
  <2>1. f.op = o /\ f.ret = a /\ f.cur = b
    OBVIOUS
  <2> HIDE DEF f
  <2> QED BY <2>1
<1> HIDE DEF v
<1>2. [f EXCEPT !.ret = v, !.cur = 0] = [ret |-> v, cur |-> 0, op |-> o]
  <2>1. PICK g : g = [f EXCEPT !.ret = v, !.cur = 0]
    OBVIOUS
  <2>2. g.ret = v /\ g.cur = 0 /\ g.op = o
    BY <2>1
  <2>3. g \in [ret : {v}, cur : {0}, op : {o}]
    BY <2>1
  <2> QED BY <2>1, <2>2, <2>3
<1>3. EvalSimple(f) = [f EXCEPT !.ret = v, !.cur = 0]
  <2> HIDE DEF f
  <2> QED BY <1>1 DEF EvalSimple
<1> QED BY <1>2, <1>3 DEF v

\* The walk is behind j digits of a number that ends at a place.
Reading(d, end, j, p) == j \in 0..Len(d) /\ p = end - Len(d) + j
DigitFrame(v, d, j, op) == [ret |-> v, cur |-> Numbers(d)[j], op |-> op]
DigitNext(v, d, j, op, end, text, p) ==
  /\ p < end /\ text[p + 1] \in ToSet(DigitBytes) /\ Reading(d, end, j + 1, p + 1)
  /\ [DigitFrame(v, d, j, op) EXCEPT !.cur = ToLong(ToLong(10 * @) + DigitValue(text[p + 1]))]
       = DigitFrame(v, d, j + 1, op)
NextDigit(f, text, p) == [f EXCEPT !.cur = ToLong(ToLong(10 * @) + DigitValue(text[p + 1]))]

\* A digit of the line, read by the walk.
LEMMA NumberDigit ==
  ASSUME NEW d \in Seq(0..9), IsNumber(d), NEW end \in Nat, NEW text, SpellsNumber(text, end, d),
         NEW j, NEW p, Reading(d, end, j, p), j # Len(d), NEW v, NEW op
  PROVE  DigitNext(v, d, j, op, end, text, p)
<1>1. Len(d) \in Nat /\ \A i \in 0..Len(d) : Numbers(d)[i] \in 0..EvalHalf - 1
  BY NumberIs
<1>2. j \in 0..Len(d) /\ p = end - Len(d) + j
  BY DEF Reading
<1>3. /\ j + 1 \in 1..Len(d) /\ (j + 1) - 1 = j /\ j + 1 \in 0..Len(d)
      /\ p + 1 = end - Len(d) + (j + 1) /\ p < end
  BY <1>1, <1>2
<1>4. text[p + 1] = DigitBytes[d[j + 1] + 1]
  BY <1>3 DEF SpellsNumber
<1>5. d[j + 1] \in 0..9
  BY <1>1, <1>3, ElementOfSeq
<1>6. text[p + 1] \in ToSet(DigitBytes) /\ DigitValue(text[p + 1]) = d[j + 1]
  BY <1>4, <1>5, DigitBytesAre
<1>9. /\ Numbers(d)[j + 1] \in 0..EvalHalf - 1 /\ Numbers(d)[j] \in 0..EvalHalf - 1
      /\ Numbers(d)[j + 1] = 10 * Numbers(d)[j] + d[j + 1]
  <2>1. \A i \in 1..Len(d) : Numbers(d)[i] = 10 * Numbers(d)[i - 1] + d[i]
    BY NumbersAre
  <2> QED BY <1>1, <1>2, <1>3, <2>1
<1> DEFINE a == Numbers(d)[j]
           b == Numbers(d)[j + 1]
           x == d[j + 1]
<1>10. ToLong(ToLong(10 * a) + x) = b
  <2> HIDE DEF a, b, x
  <2>1. a \in Nat /\ x \in 0..9 /\ b = 10 * a + x /\ b < EvalHalf /\ EvalHalf \in Nat
    BY <1>5, <1>9, EvalAssumption DEF a, b, x
  <2>2. 10 * a \in LongRange /\ 10 * a \in Int /\ b \in LongRange /\ b \in Int
    BY <2>1 DEF LongRange
  <2>3. ToLong(10 * a) = 10 * a /\ ToLong(b) = b
    BY <2>2, ToLongIs
  <2> QED BY <2>1, <2>3
<1>11. [DigitFrame(v, d, j, op) EXCEPT !.cur = ToLong(ToLong(10 * @) + DigitValue(text[p + 1]))]
         = DigitFrame(v, d, j + 1, op)
  BY <1>6, <1>10 DEF DigitFrame
<1>12. Reading(d, end, j + 1, p + 1)
  BY <1>3 DEF Reading
<1> QED BY <1>3, <1>6, <1>11, <1>12 DEF DigitNext

\* eval_simple gives the next value, and faults only where there is none.
LEMMA FrameApplies ==
  ASSUME NEW r \in Worth, r.ok, NEW op \in Opers, NEW b \in LongRange, NEW f,
         f = [ret |-> r.v, cur |-> b, op |-> op]
  PROVE  /\ FrameFaults(f) => ~ Step(r, op, b).ok
         /\ ~ FrameFaults(f) =>
              /\ Step(r, op, b).ok
              /\ EvalSimple(f) = [ret |-> Step(r, op, b).v, cur |-> 0, op |-> op]
<1>1. PICK x : x = r.v
  OBVIOUS
<1>2. FrameFaults(f) <=> Faults(op, x, b)
  BY <1>1 DEF FrameFaults
<1>3. EvalSimple(f) = [ret |-> Oper(op, x, b), cur |-> 0, op |-> op]
  <2>1. f = [ret |-> x, cur |-> b, op |-> op]
    BY <1>1
  <2> QED BY <2>1, EvalSimpleIs
<1>4. /\ Faults(op, x, b) => ~ Step(r, op, b).ok
      /\ ~ Faults(op, x, b) => Step(r, op, b).ok /\ Step(r, op, b).v = Oper(op, x, b)
  BY <1>1, StepIs
<1> QED BY <1>2, <1>3, <1>4

\* A digit of an operand.
LEMMA PieceDigit ==
  ASSUME NEW g \in Seq(Operand), WellFormed(g), NEW from \in Nat, NEW k, NEW j, NEW p, NEW f,
         NEW text, Spells(text, from, g),
         Inside(g, from, k, j, p, f), j # Len(g[k].digits)
  PROVE  /\ p < Ends(from, g)[Len(g)] /\ text[p + 1] \in ToSet(DigitBytes)
         /\ InPiece(g, from, p + 1, NextDigit(f, text, p))
<1> DEFINE e == Ends(from, g)
<1>1. /\ k \in 1..Len(g) /\ k \in 0..Len(g) /\ Len(g) \in 0..Len(g) /\ e[k] \in Nat
      /\ g[k].digits \in Seq(0..9) /\ IsNumber(g[k].digits)
  BY InsideIs, OperandIs
<1>2. PICK d, end, v, op : /\ d = g[k].digits /\ end = e[k] /\ v = Values(g)[k - 1].v
                           /\ op = g[k].op
  OBVIOUS
<1>3. /\ d \in Seq(0..9) /\ IsNumber(d) /\ end \in Nat /\ Reading(d, end, j, p) /\ j # Len(d)
      /\ f = DigitFrame(v, d, j, op)
  BY <1>1, <1>2 DEF Inside, Reading, DigitFrame
<1>v. Values(g)[k - 1].ok
  BY DEF Inside
<1>4. SpellsNumber(text, end, d)
  BY <1>1, <1>2 DEF Spells
<1>5. /\ p < end /\ text[p + 1] \in ToSet(DigitBytes) /\ Reading(d, end, j + 1, p + 1)
      /\ NextDigit(f, text, p) = DigitFrame(v, d, j + 1, op)
  <2>1. DigitNext(v, d, j, op, end, text, p)
    BY <1>3, <1>4, NumberDigit
  <2> QED BY <1>3, <2>1 DEF DigitNext, NextDigit
<1>6. p < e[Len(g)]
  <2>1. p \in Nat
    BY InsideIs
  <2>2. e[k] <= e[Len(g)] /\ e[Len(g)] \in Nat
    BY <1>1, EndsAre
  <2> HIDE DEF e
  <2> QED BY <1>1, <1>2, <1>5, <2>1, <2>2
<1>7. Inside(g, from, k, j + 1, p + 1, NextDigit(f, text, p))
  BY <1>1, <1>2, <1>3, <1>5, <1>v DEF Inside, Reading, DigitFrame
<1> QED BY <1>5, <1>6, <1>7 DEF InPiece

\* The end of an operand.
LEMMA PieceApplies ==
  ASSUME NEW g \in Seq(Operand), WellFormed(g), NEW from \in Nat, NEW k, NEW j, NEW p, NEW f,
         Inside(g, from, k, j, p, f), j = Len(g[k].digits)
  PROVE  /\ FrameFaults(f) => ~ PlainValue(g).ok
         /\ ~ FrameFaults(f) =>
              /\ Values(g)[k].ok
              /\ EvalSimple(f) = [ret |-> Values(g)[k].v, cur |-> 0, op |-> g[k].op]
<1>1. PICK b, r, op : b = NumberOf(g[k].digits) /\ r = Values(g)[k - 1] /\ op = g[k].op
  OBVIOUS
<1>2. k \in 1..Len(g) /\ k \in 0..Len(g) /\ r \in Worth /\ op \in Opers
  BY <1>1, InsideIs
<1>3. r.ok /\ f = [ret |-> r.v, cur |-> b, op |-> op]
  BY <1>1 DEF Inside, NumberOf
<1>4. b \in LongRange /\ Values(g)[k] = Step(r, op, b)
  BY <1>1, <1>2, OperandIs, ValuesAre
<1>5. ~ Values(g)[k].ok => ~ PlainValue(g).ok
  BY <1>2, ValuesAre
<1> QED BY <1>1, <1>2, <1>3, <1>4, <1>5, FrameApplies

\* Between two operands stands the operator of the second one.
LEMMA PieceOperator ==
  ASSUME NEW g \in Seq(Operand), WellFormed(g), NEW from \in Nat, NEW k, NEW j, NEW p, NEW f,
         NEW text, Spells(text, from, g),
         Inside(g, from, k, j, p, f), j = Len(g[k].digits), k # Len(g)
  PROVE  /\ p < Ends(from, g)[Len(g)] /\ text[p + 1] \in OperBytes
         /\ ~ FrameFaults(f) => InPiece(g, from, p + 1, [EvalSimple(f) EXCEPT !.op = text[p + 1]])
<1> DEFINE e == Ends(from, g)
<1>1. /\ k \in 1..Len(g) /\ Len(g) \in Nat /\ e[k] \in Nat /\ Len(g[k].digits) \in Nat
      /\ k \in 0..Len(g)
  BY InsideIs
<1>2. p = e[k]
  BY <1>1 DEF Inside
<1>m. PICK m \in Nat : m = k + 1
  BY <1>1
<1>3. m \in 1..Len(g) /\ m - 1 = k /\ m # 1 /\ m \in 0..Len(g) /\ Len(g) \in 0..Len(g) /\ k + 1 = m
  BY <1>1, <1>m
<1>4. g[m].op \in OperBytes /\ Len(g[m].digits) \in Nat /\ g[m].digits \in Seq(0..9)
  BY <1>3, OperandIs DEF WellFormed
<1>5. g[m].op # "null"
  BY <1>4 DEF OperBytes
<1>6. text[p + 1] = g[m].op
  BY <1>2, <1>3, <1>5 DEF Spells
<1>7. e[m] = p + 1 + Len(g[m].digits) /\ e[m] <= e[Len(g)] /\ e[m] \in Nat /\ e[Len(g)] \in Nat
  <2>1. e[m] = e[m - 1] + OpSize(g[m].op) + Len(g[m].digits) /\ e[m] <= e[Len(g)]
        /\ e[m] \in Nat /\ e[Len(g)] \in Nat
    BY <1>3, EndsAre
  <2>2. OpSize(g[m].op) = 1
    BY <1>5 DEF OpSize
  <2> QED BY <1>2, <1>3, <2>1, <2>2
<1>8. p < e[Len(g)] /\ p + 1 = e[m] - Len(g[m].digits) + 0
  <2> DEFINE x == e[m]
             y == e[Len(g)]
             l == Len(g[m].digits)
  <2>1. p \in Nat /\ l \in Nat /\ x = p + 1 + l /\ x <= y /\ y \in Nat
    BY <1>1, <1>2, <1>4, <1>7
  <2> HIDE DEF x, y, l
  <2>2. p < y /\ p + 1 = x - l + 0
    BY <2>1
  <2> QED BY <2>2 DEF x, y, l
<1>9. ASSUME ~ FrameFaults(f)
      PROVE  InPiece(g, from, p + 1, [EvalSimple(f) EXCEPT !.op = text[p + 1]])
  <2>1. Values(g)[k].ok /\ EvalSimple(f) = [ret |-> Values(g)[k].v, cur |-> 0, op |-> g[k].op]
    BY <1>9, PieceApplies
  <2>2. [EvalSimple(f) EXCEPT !.op = text[p + 1]] = [ret |-> Values(g)[k].v, cur |-> 0, op |-> g[m].op]
    BY <1>6, <2>1
  <2>3. Numbers(g[m].digits)[0] = 0
    BY <1>4, NumbersAre
  <2>4. 0 \in 0..Len(g[m].digits)
    BY <1>4
  <2>5. Inside(g, from, m, 0, p + 1, [ret |-> Values(g)[k].v, cur |-> 0, op |-> g[m].op])
    BY <1>3, <1>8, <2>1, <2>3, <2>4 DEF Inside
  <2> QED BY <2>2, <2>5 DEF InPiece
<1> QED BY <1>4, <1>6, <1>8, <1>9

\* At the end of the last operand.
LEMMA PieceEnds ==
  ASSUME NEW g \in Seq(Operand), WellFormed(g), NEW from \in Nat, NEW k, NEW j, NEW p, NEW f,
         Inside(g, from, k, j, p, f), j = Len(g[k].digits), k = Len(g)
  PROVE  /\ p = Ends(from, g)[Len(g)]
         /\ FrameFaults(f) => ~ PlainValue(g).ok
         /\ ~ FrameFaults(f) =>
              /\ PlainValue(g).ok
              /\ EvalSimple(f) = [ret |-> PlainValue(g).v, cur |-> 0, op |-> g[k].op]
<1>1. Ends(from, g)[k] \in Nat /\ Len(g[k].digits) \in Nat
  BY InsideIs
<1>2. p = Ends(from, g)[Len(g)]
  BY <1>1 DEF Inside
<1>3. Values(g)[k] = PlainValue(g)
  BY DEF PlainValue
<1> QED BY <1>2, <1>3, PieceApplies

\* Where an expression begins.
LEMMA PieceBegins ==
  ASSUME NEW g \in Seq(Operand), WellFormed(g), NEW from \in Nat, g # <<>>
  PROVE  InPiece(g, from, from, FreshFrame)
<1>1. 1 \in 1..Len(g) /\ 0 \in 0..Len(g) /\ 1 - 1 = 0
  <2>1. Len(g) \in Nat /\ Len(g) # 0
    BY LenProperties, EmptySeq
  <2> QED BY <2>1
<1>2. g[1].op = "null" /\ g[1].digits \in Seq(0..9) /\ Len(g[1].digits) \in Nat
  BY <1>1, OperandIs DEF WellFormed
<1>3. Ends(from, g)[1] = from + Len(g[1].digits)
  <2>1. Ends(from, g)[0] = from
        /\ Ends(from, g)[1] = Ends(from, g)[1 - 1] + OpSize(g[1].op) + Len(g[1].digits)
    BY <1>1, EndsAre
  <2>2. OpSize(g[1].op) = 0
    BY <1>2 DEF OpSize
  <2> QED BY <1>1, <1>2, <2>1, <2>2
<1>4. Values(g)[1 - 1] = [ok |-> TRUE, v |-> 0] /\ Numbers(g[1].digits)[0] = 0
  BY <1>1, <1>2, ValuesAre, NumbersAre DEF Nothing
<1>5. from = Ends(from, g)[1] - Len(g[1].digits) + 0 /\ 0 \in 0..Len(g[1].digits)
  BY <1>2, <1>3
<1>6. Inside(g, from, 1, 0, from, FreshFrame)
  BY <1>1, <1>2, <1>4, <1>5 DEF Inside, FreshFrame
<1> QED BY <1>6 DEF InPiece

\* What the walk meets next inside an expression: a digit, an operator, or its end.
MeetsDigit(text, g, from, p, f) ==
  /\ p < Ends(from, g)[Len(g)] /\ text[p + 1] \in ToSet(DigitBytes)
  /\ InPiece(g, from, p + 1, NextDigit(f, text, p))
MeetsOperator(text, g, from, p, f) ==
  /\ p < Ends(from, g)[Len(g)] /\ text[p + 1] \in OperBytes
  /\ FrameFaults(f) => ~ PlainValue(g).ok
  /\ ~ FrameFaults(f) => InPiece(g, from, p + 1, [EvalSimple(f) EXCEPT !.op = text[p + 1]])
MeetsEnd(g, from, p, f) ==
  /\ p = Ends(from, g)[Len(g)]
  /\ FrameFaults(f) => ~ PlainValue(g).ok
  /\ ~ FrameFaults(f) => PlainValue(g).ok /\ \E o : EvalSimple(f) = [ret |-> PlainValue(g).v, cur |-> 0, op |-> o]

\* It meets one of the three, inside the expression.
LEMMA PieceStep ==
  ASSUME NEW g \in Seq(Operand), WellFormed(g), NEW from \in Nat, NEW p, NEW f,
         NEW text, Spells(text, from, g), InPiece(g, from, p, f)
  PROVE  /\ p \in Nat /\ from <= p /\ p <= Ends(from, g)[Len(g)]
         /\ MeetsDigit(text, g, from, p, f) \/ MeetsOperator(text, g, from, p, f) \/ MeetsEnd(g, from, p, f)
<1>1. PICK k, j : Inside(g, from, k, j, p, f)
  BY DEF InPiece
<1>2. p \in Nat /\ from <= p /\ p <= Ends(from, g)[Len(g)]
  BY <1>1, InsideIs
<1>3. CASE j # Len(g[k].digits)
  <2>1. MeetsDigit(text, g, from, p, f)
    BY <1>1, <1>3, PieceDigit DEF MeetsDigit
  <2> QED BY <1>2, <2>1
<1>4. CASE j = Len(g[k].digits) /\ k # Len(g)
  <2>1. FrameFaults(f) => ~ PlainValue(g).ok
    BY <1>1, <1>4, PieceApplies
  <2>2. MeetsOperator(text, g, from, p, f)
    BY <1>1, <1>4, <2>1, PieceOperator DEF MeetsOperator
  <2> QED BY <1>2, <2>2
<1>5. CASE j = Len(g[k].digits) /\ k = Len(g)
  <2>1. MeetsEnd(g, from, p, f)
    BY <1>1, <1>5, PieceEnds DEF MeetsEnd
  <2> QED BY <1>2, <2>1
<1> QED BY <1>3, <1>4, <1>5

\* A line that is an expression t.
LineFrom(text, t) == text \in Seq(STRING) /\ t \in EvalTerm /\ t # NoTerm /\ WrittenFrom(text, t)

\* Where an item ends that begins behind the first from bytes.
LEMMA ItemEndIs ==
  ASSUME NEW from \in Nat, NEW i \in Item
  PROVE  /\ i.group \in Seq(Operand) /\ i.digits \in Seq(0..9) /\ OpSize(i.op) \in Nat
         /\ Len(i.digits) \in Nat /\ ItemEnd(from, i) \in Nat /\ from <= ItemEnd(from, i)
         /\ ~ IsBracket(i) => ItemEnd(from, i) = from + OpSize(i.op) + Len(i.digits)
         /\ IsBracket(i) =>
              /\ GroupEnd(from + OpSize(i.op) + 1, i.group) \in Nat
              /\ from + OpSize(i.op) + 1 <= GroupEnd(from + OpSize(i.op) + 1, i.group)
              /\ ItemEnd(from, i) = GroupEnd(from + OpSize(i.op) + 1, i.group) + 1
<1>1. i.group \in Seq(Operand) /\ i.digits \in Seq(0..9)
  BY DEF Item
<1>2. OpSize(i.op) \in Nat
  BY DEF OpSize
<1>3. Len(i.digits) \in Nat /\ Len(i.group) \in Nat
  BY <1>1, LenProperties
<1> DEFINE s == OpSize(i.op)
           m == from + s + 1
           g == i.group
           e == Ends(m, g)
           n == Len(g)
           l == Len(i.digits)
<1>4. m \in Nat
  <2> HIDE DEF s
  <2> QED BY <1>2 DEF s
<1>5. n \in 0..n /\ 0 \in 0..n
  BY <1>3
<1>6. e[n] \in Nat /\ m <= e[n]
  <2> HIDE DEF m, g
  <2>1. e[n] \in Nat /\ e[0] = m /\ e[0] <= e[n]
    BY <1>1, <1>4, <1>5, EndsAre DEF g
  <2> QED BY <2>1
<1>7. ItemEnd(from, i) = IF IsBracket(i) THEN GroupEnd(m, g) + 1 ELSE from + s + l
  BY DEF ItemEnd
<1>8. GroupEnd(m, g) = e[n]
  BY DEF GroupEnd
<1>9. ItemEnd(from, i) \in Nat /\ from <= ItemEnd(from, i)
  <2> DEFINE x == e[n]
  <2>1. ItemEnd(from, i) = IF IsBracket(i) THEN x + 1 ELSE from + s + l
    BY <1>7, <1>8
  <2>2. x \in Nat /\ from + s + 1 <= x
    BY <1>6
  <2>3. s \in Nat /\ l \in Nat
    BY <1>2, <1>3
  <2> HIDE DEF x, s, l
  <2> QED BY <2>1, <2>2, <2>3
<1>10. IsBracket(i) => GroupEnd(m, g) \in Nat /\ m <= GroupEnd(m, g) /\ ItemEnd(from, i) = GroupEnd(m, g) + 1
  BY <1>6, <1>7, <1>8
<1>11. ~ IsBracket(i) => ItemEnd(from, i) = from + s + l
  BY <1>7
<1> QED BY <1>1, <1>2, <1>3, <1>9, <1>10, <1>11

\* Where the items end.
LEMMA ItemEndsAre ==
  ASSUME NEW t \in Seq(Item)
  PROVE  /\ \A k \in 0..Len(t) : ItemEnds(t)[k] \in Nat
         /\ ItemEnds(t)[0] = 0
         /\ \A k \in 1..Len(t) : ItemEnds(t)[k] = ItemEnd(ItemEnds(t)[k - 1], t[k])
         /\ \A k \in 0..Len(t) : ItemEnds(t)[k] <= ItemEnds(t)[Len(t)]
<1> DEFINE n == Len(t)
           P(f) == f = [k \in 0..n |-> IF k = 0 THEN 0 ELSE ItemEnd(f[k - 1], t[k])]
           h == [k \in 1..n |-> [x \in Nat |-> ItemEnd(x, t[k])]]
           N == ItemEnds(t)
<1>0. n \in Nat /\ \A k \in 1..n : t[k] \in Item
  OBVIOUS
<1>i. \A k \in 1..n, x \in Nat : ItemEnd(x, t[k]) \in Nat /\ x <= ItemEnd(x, t[k])
  BY <1>0, ItemEndIs
<1> HIDE DEF n
<1>1. h \in [1..n -> [Nat -> Nat]]
  BY <1>i
<1>2. \A k \in 1..n, x \in Nat : h[k][x] = ItemEnd(x, t[k])
  OBVIOUS
<1> HIDE DEF h
<1>b. PICK f : Along(f, n, Nat, 0, h)
  <2>1. 0 \in Nat
    OBVIOUS
  <2> QED BY <1>0, <1>1, <2>1, PrefixExists
<1>3. f \in [0..n -> Nat] /\ f[0] = 0 /\ \A k \in 1..n : f[k] = h[k][f[k - 1]]
  BY <1>b DEF Along
<1>4. P(f)
  <2>1. ASSUME NEW k \in 0..n PROVE f[k] = IF k = 0 THEN 0 ELSE ItemEnd(f[k - 1], t[k])
    <3>1. k # 0 => k \in 1..n /\ k - 1 \in 0..n
      BY <1>0
    <3>2. k # 0 => f[k - 1] \in Nat
      BY <1>3, <3>1
    <3> QED BY <1>2, <1>3, <3>1, <3>2
  <2>2. f = [k \in 0..n |-> f[k]]
    BY <1>3
  <2> QED BY <2>1, <2>2
<1>5. P(N)
  <2>1. P(CHOOSE x : P(x))
    BY <1>4
  <2>2. N = CHOOSE x : P(x)
    BY DEF ItemEnds, n
  <2> HIDE DEF P, N
  <2> QED BY <2>1, <2>2
<1> HIDE DEF N
<1>6. N[0] = 0 /\ \A k \in 1..n : N[k] = ItemEnd(N[k - 1], t[k])
  <2>1. \A k \in 1..n : k \in 0..n /\ k # 0
    BY <1>0
  <2>2. 0 \in 0..n
    BY <1>0
  <2> QED BY <1>5, <2>1, <2>2
<1> HIDE DEF P
<1>7. \A k \in 0..n : N[k] \in Nat
  <2>1. \A k \in 1..n : N[k - 1] \in Nat => N[k] = h[k][N[k - 1]]
    BY <1>2, <1>6
  <2>2. N[0] \in Nat
    BY <1>6
  <2>3. Follows(N, n, Nat, h)
    BY <2>1 DEF Follows
  <2> QED BY <1>0, <1>1, <2>2, <2>3, PrefixTyped
<1>8. \A k \in 1..n : N[k - 1] <= N[k]
  <2> TAKE k \in 1..n
  <2>1. k - 1 \in 0..n
    BY <1>0
  <2> QED BY <1>i, <1>6, <1>7, <2>1
<1>9. \A k \in 0..n : N[k] <= N[n]
  BY <1>0, <1>7, <1>8, GrowsUp
<1> QED BY <1>6, <1>7, <1>9 DEF n, N

\* The operators that count.
LEMMA AppliedAre ==
  ASSUME NEW t \in Seq(Item), \A k \in 1..Len(t) : t[k].op \in Opers
  PROVE  /\ \A k \in 0..Len(t) : Applied(t)[k] \in Opers
         /\ \A k \in 1..Len(t) : Applied(t)[k] = IF k > 1 /\ IsBracket(t[k - 1]) THEN Applied(t)[k - 1]
                                                 ELSE t[k].op
<1> DEFINE n == Len(t)
           B(k) == k > 1 /\ IsBracket(t[k - 1])
           o(k) == t[k].op
           P(f) == f = [k \in 0..n |-> IF k = 0 THEN "null" ELSE IF B(k) THEN f[k - 1] ELSE o(k)]
           h == [k \in 1..n |-> [x \in Opers |-> IF B(k) THEN x ELSE o(k)]]
           N == Applied(t)
<1>0. n \in Nat /\ \A k \in 1..n : o(k) \in Opers
  OBVIOUS
<1>z. "null" \in Opers
  BY DEF Opers
<1>n. N = CHOOSE x : P(x)
  BY DEF Applied
<1> HIDE DEF n, B, o, N
<1>1. h \in [1..n -> [Opers -> Opers]]
  <2>1. \A k \in 1..n, x \in Opers : (IF B(k) THEN x ELSE o(k)) \in Opers
    BY <1>0
  <2> QED BY <2>1
<1>2. \A k \in 1..n, x \in Opers : h[k][x] = IF B(k) THEN x ELSE o(k)
  OBVIOUS
<1> HIDE DEF h
<1>b. PICK f : Along(f, n, Opers, "null", h)
  BY <1>0, <1>1, <1>z, PrefixExists
<1>3. f \in [0..n -> Opers] /\ f[0] = "null" /\ \A k \in 1..n : f[k] = h[k][f[k - 1]]
  BY <1>b DEF Along
<1>4. P(f)
  <2>1. ASSUME NEW k \in 0..n PROVE f[k] = IF k = 0 THEN "null" ELSE IF B(k) THEN f[k - 1] ELSE o(k)
    <3>1. k # 0 => k \in 1..n /\ k - 1 \in 0..n
      BY <1>0
    <3>2. k # 0 => f[k - 1] \in Opers
      BY <1>3, <3>1
    <3> QED BY <1>2, <1>3, <3>1, <3>2
  <2>2. f = [k \in 0..n |-> f[k]]
    BY <1>3
  <2> QED BY <2>1, <2>2
<1>5. P(N)
  <2>1. P(CHOOSE x : P(x))
    BY <1>4
  <2> HIDE DEF P
  <2> QED BY <2>1, <1>n
<1>6. N[0] = "null" /\ \A k \in 1..n : N[k] = IF B(k) THEN N[k - 1] ELSE o(k)
  <2>1. \A k \in 1..n : k \in 0..n /\ k # 0
    BY <1>0
  <2>2. 0 \in 0..n
    BY <1>0
  <2> QED BY <1>5, <2>1, <2>2
<1> HIDE DEF P
<1>7. \A k \in 0..n : N[k] \in Opers
  <2>1. \A k \in 1..n : N[k - 1] \in Opers => N[k] = h[k][N[k - 1]]
    BY <1>2, <1>6
  <2>2. N[0] \in Opers
    BY <1>6, <1>z
  <2>3. Follows(N, n, Opers, h)
    BY <2>1 DEF Follows
  <2> QED BY <1>0, <1>1, <2>2, <2>3, PrefixTyped
<1> QED BY <1>6, <1>7 DEF n, N, B, o

\* A step over an item.
LEMMA ItemStepIs ==
  ASSUME NEW r \in Worth, NEW op \in Opers, NEW w \in Worth
  PROVE  /\ ItemStep(r, op, w) \in Worth
         /\ ~ r.ok \/ ~ w.ok => ~ ItemStep(r, op, w).ok
         /\ w.ok => ItemStep(r, op, w) = Step(r, op, w.v)
<1>1. w.v \in LongRange /\ w.ok \in BOOLEAN
  BY DEF Worth
<1>2. Step(r, op, w.v) \in Worth /\ (~ r.ok => ~ Step(r, op, w.v).ok)
  BY <1>1, StepIs
<1>3. CASE w.ok
  BY <1>2, <1>3 DEF ItemStep
<1>4. CASE ~ w.ok
  BY <1>4 DEF ItemStep
<1> QED BY <1>3, <1>4

\* The values of the beginnings of an expression; once one has none, none behind it has.
LEMMA ItemValuesAre ==
  ASSUME NEW t \in Seq(Item), \A k \in 1..Len(t) : t[k].op \in Opers /\ ItemValue(t[k]) \in Worth
  PROVE  /\ \A k \in 0..Len(t) : ItemValues(t)[k] \in Worth
         /\ ItemValues(t)[0] = Nothing
         /\ \A k \in 1..Len(t) :
              ItemValues(t)[k] = ItemStep(ItemValues(t)[k - 1], Applied(t)[k], ItemValue(t[k]))
         /\ \A k \in 0..Len(t) : ~ ItemValues(t)[k].ok => ~ ValueOf(t).ok
<1> DEFINE n == Len(t)
           o(k) == Applied(t)[k]
           b(k) == ItemValue(t[k])
           P(f) == f = [k \in 0..n |-> IF k = 0 THEN Nothing ELSE ItemStep(f[k - 1], o(k), b(k))]
           h == [k \in 1..n |-> [x \in Worth |-> ItemStep(x, o(k), b(k))]]
           N == ItemValues(t)
<1>a. n \in Nat /\ \A k \in 1..n : k \in 0..n
  BY LenProperties
<1>0. \A k \in 1..n : o(k) \in Opers /\ b(k) \in Worth
  <2>1. \A k \in 0..n : o(k) \in Opers
    BY AppliedAre
  <2> QED BY <1>a, <2>1
<1>z. Nothing \in Worth
  BY EvalAssumption DEF Nothing, Worth, LongRange
<1>n. N = CHOOSE x : P(x)
  BY DEF ItemValues
<1> HIDE DEF n, o, b, N
<1>1. h \in [1..n -> [Worth -> Worth]]
  <2>1. \A k \in 1..n, x \in Worth : ItemStep(x, o(k), b(k)) \in Worth
    BY <1>0, ItemStepIs
  <2> QED BY <2>1
<1>2. \A k \in 1..n, x \in Worth : h[k][x] = ItemStep(x, o(k), b(k))
  OBVIOUS
<1> HIDE DEF h
<1>b. PICK f : Along(f, n, Worth, Nothing, h)
  BY <1>a, <1>1, <1>z, PrefixExists
<1>3. f \in [0..n -> Worth] /\ f[0] = Nothing /\ \A k \in 1..n : f[k] = h[k][f[k - 1]]
  BY <1>b DEF Along
<1>4. P(f)
  <2>1. ASSUME NEW k \in 0..n PROVE f[k] = IF k = 0 THEN Nothing ELSE ItemStep(f[k - 1], o(k), b(k))
    <3>1. k # 0 => k \in 1..n /\ k - 1 \in 0..n
      BY <1>a
    <3>2. k # 0 => f[k - 1] \in Worth
      BY <1>3, <3>1
    <3> QED BY <1>2, <1>3, <3>1, <3>2
  <2>2. f = [k \in 0..n |-> f[k]]
    BY <1>3
  <2> QED BY <2>1, <2>2
<1>5. P(N)
  <2>1. P(CHOOSE x : P(x))
    BY <1>4
  <2> HIDE DEF P
  <2> QED BY <2>1, <1>n
<1>6. N[0] = Nothing /\ \A k \in 1..n : N[k] = ItemStep(N[k - 1], o(k), b(k))
  <2>1. \A k \in 1..n : k \in 0..n /\ k # 0
    BY <1>a
  <2>2. 0 \in 0..n
    BY <1>a
  <2> QED BY <1>5, <2>1, <2>2
<1> HIDE DEF P
<1>7. \A k \in 0..n : N[k] \in Worth
  <2>1. \A k \in 1..n : N[k - 1] \in Worth => N[k] = h[k][N[k - 1]]
    BY <1>2, <1>6
  <2>2. N[0] \in Worth
    BY <1>6, <1>z
  <2>3. Follows(N, n, Worth, h)
    BY <2>1 DEF Follows
  <2> QED BY <1>a, <1>1, <2>2, <2>3, PrefixTyped
<1> DEFINE S == {k \in Nat : k <= n /\ ~ N[n - k].ok => ~ N[n].ok}
<1>8. 0 \in S
  <2>1. n - 0 = n
    BY <1>a
  <2> QED BY <2>1
<1>9. ASSUME NEW k \in Nat, k \in S PROVE k + 1 \in S
  <2> SUFFICES ASSUME k + 1 <= n, ~ N[n - (k + 1)].ok PROVE ~ N[n].ok
    OBVIOUS
  <2>1. n - k \in 1..n /\ (n - k) - 1 = n - (k + 1) /\ n - (k + 1) \in 0..n /\ k <= n
    BY <1>a
  <2>2. N[n - k] = ItemStep(N[n - (k + 1)], o(n - k), b(n - k))
    BY <1>6, <2>1
  <2>3. ~ N[n - k].ok
    BY <1>0, <1>7, <2>1, <2>2, ItemStepIs
  <2> QED BY <1>9, <2>1, <2>3
<1>10. \A k \in Nat : k \in S
  <2> HIDE DEF S
  <2> QED BY <1>8, <1>9, SetInduction
<1>11. \A k \in 0..n : ~ N[k].ok => ~ N[n].ok
  <2> TAKE k \in 0..n
  <2>1. n - k \in Nat /\ n - k <= n /\ n - (n - k) = k
    BY <1>a
  <2>2. n - k \in S
    BY <1>10, <2>1
  <2> QED BY <2>1, <2>2
<1> QED BY <1>6, <1>7, <1>11 DEF n, N, ValueOf, o, b

\* The value of a part of an expression is a long, or there is none.
LEMMA PlainWorth ==
  ASSUME NEW g \in Seq(Operand), WellFormed(g)
  PROVE  PlainValue(g) \in Worth /\ PlainValue(g).ok \in BOOLEAN /\ PlainValue(g).v \in LongRange
<1>1. Len(g) \in 0..Len(g)
  BY LenProperties
<1>2. PlainValue(g) \in Worth
  BY <1>1, ValuesAre DEF PlainValue
<1> QED BY <1>2 DEF Worth

\* A line that is an expression, in numbers.
LEMMA LineIs ==
  ASSUME NEW text, NEW t, LineFrom(text, t)
  PROVE  /\ t \in Seq(Item) /\ Len(t) \in Nat /\ Len(t) # 0 /\ text \in Seq(STRING)
         /\ Len(text) \in Nat /\ Len(text) = ItemEnds(t)[Len(t)] + 1 /\ text[Len(text)] = "nl"
         /\ \A k \in 1..Len(t) : SpellsItem(text, t, k)
<1>1. t \in Seq(Item) /\ t # <<>> /\ text \in Seq(STRING)
  BY DEF LineFrom, EvalTerm, NoTerm
<1>2. Len(t) \in Nat /\ Len(t) # 0 /\ Len(text) \in Nat
  BY <1>1, LenProperties, EmptySeq
<1> QED BY <1>1, <1>2 DEF LineFrom, WrittenFrom

\* What an item of such a line is worth.
LEMMA ItemWorth ==
  ASSUME NEW text, NEW t, LineFrom(text, t), NEW k \in 1..Len(t)
  PROVE  t[k] \in Item /\ t[k].op \in Opers /\ ItemValue(t[k]) \in Worth
<1>1. t[k] \in Item /\ SpellsItem(text, t, k)
  BY LineIs
<1>2. PICK i : i = t[k]
  OBVIOUS
<1>3. i.op \in Opers /\ i.group \in Seq(Operand) /\ i.digits \in Seq(0..9)
  BY <1>1, <1>2 DEF SpellsItem, Opers, Item
<1>4. CASE IsBracket(i)
  <2>1. WellFormed(i.group)
    BY <1>1, <1>2, <1>4 DEF SpellsItem
  <2>2. ItemValue(i) = PlainValue(i.group)
    BY <1>4 DEF ItemValue
  <2>3. PICK g : g = i.group
    OBVIOUS
  <2>4. PlainValue(g) \in Worth
    BY <1>3, <2>1, <2>3, PlainWorth
  <2> QED BY <1>1, <1>2, <1>3, <2>2, <2>3, <2>4
<1>5. CASE ~ IsBracket(i)
  <2>1. IsNumber(i.digits)
    BY <1>1, <1>2, <1>5 DEF SpellsItem
  <2>2. ItemValue(i) = [ok |-> TRUE, v |-> NumberOf(i.digits)]
    BY <1>5 DEF ItemValue
  <2>3. PICK d : d = i.digits
    OBVIOUS
  <2>4. NumberOf(d) \in LongRange
    BY <1>3, <2>1, <2>3, NumberIs
  <2>5. ItemValue(i) \in Worth
    BY <2>2, <2>3, <2>4 DEF Worth
  <2> QED BY <1>1, <1>2, <1>3, <2>5
<1> QED BY <1>4, <1>5

\* The value and the operator at an item: one step further.
LEMMA ItemCounts ==
  ASSUME NEW text, NEW t, LineFrom(text, t), NEW k \in 1..Len(t)
  PROVE  /\ Applied(t)[k] \in Opers
         /\ ItemValues(t)[k - 1] \in Worth /\ ItemValues(t)[k] \in Worth
         /\ ItemValues(t)[k] = ItemStep(ItemValues(t)[k - 1], Applied(t)[k], ItemValue(t[k]))
         /\ ~ ItemValues(t)[k].ok => ~ ValueOf(t).ok
         /\ k = Len(t) => ValueOf(t) = ItemValues(t)[k]
<1>1. t \in Seq(Item) /\ Len(t) \in Nat
  BY LineIs
<1>2. \A i \in 1..Len(t) : t[i].op \in Opers /\ ItemValue(t[i]) \in Worth
  BY ItemWorth
<1>3. k \in 0..Len(t) /\ k - 1 \in 0..Len(t)
  BY <1>1
<1>4. Applied(t)[k] \in Opers
  BY <1>1, <1>2, <1>3, AppliedAre
<1>5. /\ ItemValues(t)[k - 1] \in Worth /\ ItemValues(t)[k] \in Worth
      /\ ItemValues(t)[k] = ItemStep(ItemValues(t)[k - 1], Applied(t)[k], ItemValue(t[k]))
      /\ ~ ItemValues(t)[k].ok => ~ ValueOf(t).ok
  BY <1>1, <1>2, <1>3, ItemValuesAre
<1> QED BY <1>4, <1>5 DEF ValueOf

\* Where an item stands in the line.
LEMMA ItemPlace ==
  ASSUME NEW text, NEW t, LineFrom(text, t), NEW k \in 1..Len(t)
  PROVE  /\ ItemAt(t, k) \in Nat /\ ItemEnds(t)[k] \in Nat /\ ItemEnds(t)[k] < Len(text)
         /\ ~ IsBracket(t[k]) =>
              /\ t[k].digits \in Seq(0..9) /\ IsNumber(t[k].digits) /\ Len(t[k].digits) \in Nat
              /\ SpellsNumber(text, ItemEnds(t)[k], t[k].digits)
              /\ ItemEnds(t)[k] = ItemAt(t, k) + Len(t[k].digits)
         /\ IsBracket(t[k]) =>
              /\ t[k].group \in Seq(Operand) /\ WellFormed(t[k].group) /\ t[k].group # <<>>
              /\ Spells(text, ItemAt(t, k) + 1, t[k].group)
              /\ GroupEnd(ItemAt(t, k) + 1, t[k].group) \in Nat
              /\ ItemAt(t, k) + 1 <= GroupEnd(ItemAt(t, k) + 1, t[k].group)
              /\ ItemEnds(t)[k] = GroupEnd(ItemAt(t, k) + 1, t[k].group) + 1
              /\ text[ItemAt(t, k) + 1] = "(" /\ text[ItemEnds(t)[k]] = ")"
<1>1. t \in Seq(Item) /\ Len(t) \in Nat /\ t[k] \in Item /\ SpellsItem(text, t, k)
  BY LineIs, ItemWorth
<1>2. k \in 0..Len(t) /\ k - 1 \in 0..Len(t) /\ Len(t) \in 0..Len(t)
  BY <1>1
<1>3. PICK i, from, e, last : /\ i = t[k] /\ from = ItemEnds(t)[k - 1] /\ e = ItemEnds(t)[k]
                              /\ last = ItemEnds(t)[Len(t)]
  OBVIOUS
<1>4. from \in Nat /\ e \in Nat /\ last \in Nat /\ e <= last /\ e = ItemEnd(from, i)
  BY <1>1, <1>2, <1>3, ItemEndsAre
<1>5. Len(text) = last + 1
  BY <1>3, LineIs
<1>6. e < Len(text)
  BY <1>4, <1>5
<1>7. /\ i.group \in Seq(Operand) /\ i.digits \in Seq(0..9) /\ OpSize(i.op) \in Nat
      /\ Len(i.digits) \in Nat
      /\ ~ IsBracket(i) => e = from + OpSize(i.op) + Len(i.digits)
      /\ IsBracket(i) =>
           /\ GroupEnd(from + OpSize(i.op) + 1, i.group) \in Nat
           /\ from + OpSize(i.op) + 1 <= GroupEnd(from + OpSize(i.op) + 1, i.group)
           /\ e = GroupEnd(from + OpSize(i.op) + 1, i.group) + 1
  BY <1>1, <1>3, <1>4, ItemEndIs
<1>8. PICK a : a = from + OpSize(i.op)
  OBVIOUS
<1>9. a \in Nat
  BY <1>4, <1>7, <1>8
<1>10. ItemAt(t, k) = a
  BY <1>3, <1>8 DEF ItemAt
<1>11. CASE ~ IsBracket(i)
  <2>1. IsNumber(i.digits) /\ SpellsNumber(text, e, i.digits)
    BY <1>1, <1>3, <1>11 DEF SpellsItem
  <2> QED BY <1>3, <1>4, <1>6, <1>7, <1>8, <1>9, <1>10, <1>11, <2>1
<1>12. CASE IsBracket(i)
  <2>1. /\ WellFormed(i.group) /\ Spells(text, a + 1, i.group)
        /\ text[a + 1] = "(" /\ text[e] = ")"
    BY <1>1, <1>3, <1>10, <1>12 DEF SpellsItem
  <2>2. i.group # <<>>
    BY <1>12 DEF IsBracket
  <2>3. /\ GroupEnd(a + 1, i.group) \in Nat /\ a + 1 <= GroupEnd(a + 1, i.group)
        /\ e = GroupEnd(a + 1, i.group) + 1
    BY <1>7, <1>8, <1>12
  <2> QED BY <1>3, <1>4, <1>6, <1>7, <1>9, <1>10, <1>12, <2>1, <2>2, <2>3
<1> QED BY <1>11, <1>12

\* The item behind another one.
LEMMA NextItem ==
  ASSUME NEW text, NEW t, LineFrom(text, t), NEW k \in 1..Len(t), k # Len(t)
  PROVE  /\ k + 1 \in 1..Len(t)
         /\ text[ItemEnds(t)[k] + 1] \in OperBytes /\ text[ItemEnds(t)[k] + 1] = t[k + 1].op
         /\ ItemAt(t, k + 1) = ItemEnds(t)[k] + 1
         /\ Applied(t)[k + 1] = IF IsBracket(t[k]) THEN Applied(t)[k] ELSE t[k + 1].op
<1>1. Len(t) \in Nat /\ t \in Seq(Item)
  BY LineIs
<1>2. PICK m : m = k + 1
  OBVIOUS
<1>3. m \in 1..Len(t) /\ m # 1 /\ m > 1 /\ m - 1 = k
  BY <1>1, <1>2
<1>4. SpellsItem(text, t, m)
  BY <1>3, LineIs
<1>5. t[m].op \in OperBytes /\ text[ItemEnds(t)[k] + 1] = t[m].op
  BY <1>3, <1>4 DEF SpellsItem
<1>6. OpSize(t[m].op) = 1
  BY <1>5 DEF OpSize, OperBytes
<1>7. ItemAt(t, m) = ItemEnds(t)[k] + 1
  BY <1>3, <1>6 DEF ItemAt
<1>8. Applied(t)[m] = IF IsBracket(t[k]) THEN Applied(t)[k] ELSE t[m].op
  <2>1. \A i \in 1..Len(t) : t[i].op \in Opers
    BY ItemWorth
  <2>2. Applied(t)[m] = IF m > 1 /\ IsBracket(t[m - 1]) THEN Applied(t)[m - 1] ELSE t[m].op
    BY <1>1, <1>3, <2>1, AppliedAre
  <2> QED BY <1>3, <2>2
<1> QED BY <1>2, <1>3, <1>5, <1>7, <1>8

\* The frame in front of item k, and inside its number.
Waiting(t, k) == [ret |-> ItemValues(t)[k - 1].v, cur |-> 0, op |-> Applied(t)[k]]
NumberFrame(t, k, j) == DigitFrame(ItemValues(t)[k - 1].v, t[k].digits, j, Applied(t)[k])

\* Where the walk over a line written from t can be, with which frames: inside a number,
\* in front of a bracket, inside of one, or behind the newline.
AtItem(t, k) == k \in 1..Len(t) /\ ItemValues(t)[k - 1].ok
InNumber(t, k, j, p, fs) ==
  /\ AtItem(t, k) /\ ~ IsBracket(t[k])
  /\ Reading(t[k].digits, ItemEnds(t)[k], j, p) /\ fs = <<NumberFrame(t, k, j)>>
AtBracket(t, k, p, fs) ==
  /\ AtItem(t, k) /\ IsBracket(t[k]) /\ p = ItemAt(t, k) /\ fs = <<Waiting(t, k)>>
InBracket(t, k, f, p, fs) ==
  /\ AtItem(t, k) /\ IsBracket(t[k]) /\ fs = <<Waiting(t, k), f>>
  /\ InPiece(t[k].group, ItemAt(t, k) + 1, p, f)
PastLine(t, p, fs) ==
  /\ ValueOf(t).ok /\ p = ItemEnds(t)[Len(t)] + 1
  /\ \E f : fs = <<f>> /\ f.ret = ValueOf(t).v
WalkAt(t, p, fs) ==
  \/ \E k, j : InNumber(t, k, j, p, fs)
  \/ \E k : AtBracket(t, k, p, fs)
  \/ \E k, f : InBracket(t, k, f, p, fs)
  \/ PastLine(t, p, fs)

\* In front of an item the walk is in its number or at its bracket.
LEMMA ItemBegins ==
  ASSUME NEW text, NEW t, LineFrom(text, t), NEW k, AtItem(t, k), NEW p, p = ItemAt(t, k)
  PROVE  WalkAt(t, p, <<Waiting(t, k)>>)
<1>1. k \in 1..Len(t)
  BY DEF AtItem
<1>2. CASE IsBracket(t[k])
  <2>1. AtBracket(t, k, p, <<Waiting(t, k)>>)
    BY <1>2 DEF AtBracket
  <2> QED BY <2>1 DEF WalkAt
<1>3. CASE ~ IsBracket(t[k])
  <2>1. PICK d, e : d = t[k].digits /\ e = ItemEnds(t)[k]
    OBVIOUS
  <2>2. /\ d \in Seq(0..9) /\ Len(d) \in Nat /\ e = p + Len(d) /\ e \in Nat /\ p \in Nat
    BY <1>1, <1>3, <2>1, ItemPlace
  <2>3. 0 \in 0..Len(d) /\ p = e - Len(d) + 0
    BY <2>2
  <2>4. Numbers(d)[0] = 0
    BY <2>2, NumbersAre
  <2>5. NumberFrame(t, k, 0) = Waiting(t, k)
    BY <2>1, <2>4 DEF NumberFrame, DigitFrame, Waiting
  <2>6. InNumber(t, k, 0, p, <<Waiting(t, k)>>)
    BY <1>3, <2>1, <2>3, <2>5 DEF InNumber, Reading
  <2> QED BY <2>6 DEF WalkAt
<1> QED BY <1>2, <1>3

\* Behind an item and the byte that follows it begins the next item, or the line is over.
LEMMA ItemFollowed ==
  ASSUME NEW text, NEW t, LineFrom(text, t), NEW k \in 1..Len(t), ItemValues(t)[k].ok,
         NEW p, p = ItemEnds(t)[k] + 1,
         NEW o, k # Len(t) => o = Applied(t)[k + 1], NEW v, v = ItemValues(t)[k].v
  PROVE  WalkAt(t, p, <<[ret |-> v, cur |-> 0, op |-> o]>>)
<1> DEFINE h == [ret |-> v, cur |-> 0, op |-> o]
<1>1. CASE k = Len(t)
  <2>1. ValueOf(t) = ItemValues(t)[k]
    BY <1>1 DEF ValueOf
  <2>2. h.ret = v
    OBVIOUS
  <2> HIDE DEF h
  <2>3. PastLine(t, p, <<h>>)
    BY <1>1, <2>1, <2>2 DEF PastLine
  <2> QED BY <2>3 DEF WalkAt, h
<1>2. CASE k # Len(t)
  <2>1. PICK m : m = k + 1
    OBVIOUS
  <2>2. m \in 1..Len(t) /\ ItemAt(t, m) = p /\ o = Applied(t)[m]
    BY <1>2, <2>1, NextItem
  <2>3. m - 1 = k
    BY <2>1, LineIs
  <2>4. AtItem(t, m) /\ h = Waiting(t, m)
    BY <2>2, <2>3 DEF AtItem, Waiting
  <2> HIDE DEF h
  <2>5. WalkAt(t, p, <<Waiting(t, m)>>)
    BY <2>2, <2>4, ItemBegins
  <2> QED BY <2>4, <2>5 DEF h
<1> QED BY <1>1, <1>2

\* One frame, and two.
LEMMA OneFrame ==
  ASSUME NEW f, efrm = <<f>>
  PROVE  Top = f /\ ~ Nested /\ \A h : SetTop(h) = <<h>>
<1>1. Len(efrm) = 1 /\ efrm[1] = f
  OBVIOUS
<1> QED BY <1>1 DEF Top, Nested, SetTop

\* With two frames the lower one is the caller's.
LEMMA TwoFrames ==
  ASSUME NEW o, NEW f, efrm = <<o, f>>
  PROVE  /\ Top = f /\ Nested /\ \A h : SetTop(h) = <<o, h>> /\ PopTo(h) = <<h>>
         /\ \A v : Caller(v) = [o EXCEPT !.cur = v]
<1>1. Len(efrm) = 2 /\ efrm[2] = f /\ efrm[1] = o /\ 2 - 1 = 1
  OBVIOUS
<1>2. ASSUME NEW h PROVE PopTo(h) = <<h>>
  <2>1. SubSeq(efrm, 1, 0) = <<>>
    BY SubSeqEmpty
  <2>2. Append(<<>>, h) = <<h>>
    OBVIOUS
  <2>3. Len(efrm) - 2 = 0
    BY <1>1
  <2> QED BY <2>1, <2>2, <2>3 DEF PopTo
<1>3. ASSUME NEW h PROVE SetTop(h) = <<o, h>>
  BY <1>1 DEF SetTop
<1> QED BY <1>1, <1>2, <1>3 DEF Top, Nested, Caller

\* The byte the walk looks at is that of the line.
LEMMA ScanByte ==
  ASSUME NEW text \in Seq(STRING), Held(ebuf, text), NEW p \in Nat, epos = p, p <= Len(text)
  PROVE  /\ epos < EvalBuf
         /\ p < Len(text) => Byte = text[p + 1]
         /\ p = Len(text) => Byte = "nul"
<1>1. Len(text) \in Nat /\ EvalBuf \in Nat
  BY EvalAssumption, LenProperties
<1> QED BY <1>1 DEF Held, Byte

\* The steps of the walk inside its buffer, by what it looks at.
LEMMA ScanStep ==
  ASSUME EvalNext, epc = "scan", epos < EvalBuf, EvalBuf \in Nat, epos \in Nat
  PROVE  /\ Byte \in ToSet(DigitBytes) => EvalDigit
         /\ Byte \in OperBytes \cup {"nl"} => (EvalFault /\ FrameFaults(Top)) \/ EvalOther
         /\ Byte = "(" => EvalOpen
         /\ Byte \in {")", "nul"} => EvalFault \/ EvalReturn \/ EvalFinish
<1>1. EvalDigit \/ EvalOther \/ EvalOpen \/ EvalReturn \/ EvalFinish \/ EvalFault
  BY DEF EvalNext, EvalRead, EvalEof, EvalWild, EvalPrint
<1> DEFINE D == ToSet(DigitBytes)
<1>2. \A c \in OperBytes \cup {"(", ")", "nl", "nul"} : c \notin D
  BY DigitBytesAre
<1> HIDE DEF D
<1>3. /\ EvalDigit => Byte \in D
      /\ EvalOther => Byte \notin D \cup {"(", ")", "nul"}
      /\ EvalOpen => Byte = "("
      /\ EvalReturn => Byte \in {")", "nul"}
      /\ EvalFinish => Byte \in {")", "nul"}
      /\ EvalFault => (Byte \notin D \cup {"(", "nul"} /\ FrameFaults(Top)) \/ Byte \in {")", "nul"}
  BY DEF EvalDigit, EvalOther, EvalOpen, EvalReturn, EvalFinish, EvalFault, D
<1>4. Byte \in D => EvalDigit
  BY <1>1, <1>2, <1>3
<1>5. Byte \in OperBytes \cup {"nl"} => (EvalFault /\ FrameFaults(Top)) \/ EvalOther
  <2>1. \A c \in OperBytes \cup {"nl"} : c \notin {"(", ")", "nul"}
    BY DEF OperBytes
  <2> QED BY <1>1, <1>2, <1>3, <2>1
<1>6. Byte = "(" => EvalOpen
  BY <1>1, <1>2, <1>3
<1>7. Byte \in {")", "nul"} => EvalFault \/ EvalReturn \/ EvalFinish
  BY <1>1, <1>2, <1>3
<1> QED BY <1>4, <1>5, <1>6, <1>7 DEF D

\* What a step of the walk over a line written from t leads to.
WalkGoesOn(t) ==
  \/ epc' = "scan" /\ WalkAt(t, epos', efrm')
  \/ epc' = "fault" /\ ~ ValueOf(t).ok
  \/ epc' = "print" /\ ValueOf(t) = [ok |-> TRUE, v |-> evalue']

\* A frame pushed on one frame.
LEMMA AppendSecond ==
  ASSUME NEW o, NEW f
  PROVE  Append(<<o>>, f) = <<o, f>>
<1> DEFINE S == {o, f}
           s == Append(<<o>>, f)
<1>1. <<o>> \in Seq(S) /\ f \in S /\ <<o, f>> \in Seq(S)
  OBVIOUS
<1>2. s \in Seq(S) /\ Len(s) = 2 /\ s[1] = o /\ s[2] = f
  <2> HIDE DEF S
  <2>1. Len(<<o>>) = 1 /\ <<o>>[1] = o
    OBVIOUS
  <2> QED BY <1>1, <2>1, AppendProperties
<1> HIDE DEF S, s
<1>3. \A i \in 1..Len(s) : s[i] = <<o, f>>[i]
  BY <1>2
<1>4. Len(<<o, f>>) = 2
  OBVIOUS
<1>5. s = <<o, f>>
  BY <1>1, <1>2, <1>3, <1>4, SeqEqual
<1> QED BY <1>5 DEF s

\* The byte behind an item is the operator of the next one, or the newline.
LEMMA ByteBehind ==
  ASSUME NEW text, NEW t, LineFrom(text, t), NEW k \in 1..Len(t), NEW p, p = ItemEnds(t)[k]
  PROVE  /\ k # Len(t) => text[p + 1] \in OperBytes /\ text[p + 1] = t[k + 1].op
         /\ k = Len(t) => text[p + 1] = "nl"
BY LineIs, NextItem

\* What an item brings: the value so far is applied to that of the item.
LEMMA ItemApplies ==
  ASSUME NEW text, NEW t, LineFrom(text, t), NEW k, AtItem(t, k), ItemValue(t[k]).ok,
         NEW b, b = ItemValue(t[k]).v, NEW f,
         f = [ret |-> ItemValues(t)[k - 1].v, cur |-> b, op |-> Applied(t)[k]]
  PROVE  /\ FrameFaults(f) => ~ ValueOf(t).ok
         /\ ~ FrameFaults(f) =>
              /\ ItemValues(t)[k].ok
              /\ EvalSimple(f) = [ret |-> ItemValues(t)[k].v, cur |-> 0, op |-> Applied(t)[k]]
<1>1. k \in 1..Len(t)
  BY DEF AtItem
<1>2. PICK r, op, w : r = ItemValues(t)[k - 1] /\ op = Applied(t)[k] /\ w = ItemValue(t[k])
  OBVIOUS
<1>3. /\ r \in Worth /\ op \in Opers /\ w \in Worth
      /\ ItemValues(t)[k] = ItemStep(r, op, w)
      /\ ~ ItemValues(t)[k].ok => ~ ValueOf(t).ok
  BY <1>1, <1>2, ItemCounts, ItemWorth
<1>4. r.ok /\ w.ok /\ b = w.v
  BY <1>2 DEF AtItem
<1>5. b \in LongRange
  BY <1>3, <1>4 DEF Worth
<1>6. ItemValues(t)[k] = Step(r, op, b)
  BY <1>3, <1>4, ItemStepIs
<1>7. f = [ret |-> r.v, cur |-> b, op |-> op]
  BY <1>2
<1>8. /\ FrameFaults(f) => ~ Step(r, op, b).ok
      /\ ~ FrameFaults(f) => /\ Step(r, op, b).ok
                             /\ EvalSimple(f) = [ret |-> Step(r, op, b).v, cur |-> 0, op |-> op]
  BY <1>3, <1>4, <1>5, <1>7, FrameApplies
<1> QED BY <1>2, <1>3, <1>6, <1>8

\* Inside a number, and at its end.
LEMMA NumberStep ==
  ASSUME NEW text, NEW t, LineFrom(text, t), Held(ebuf, text), epc = "scan", EvalNext,
         NEW p, epos = p, NEW k, NEW j, InNumber(t, k, j, p, efrm)
  PROVE  WalkGoesOn(t)
<1>0. k \in 1..Len(t) /\ AtItem(t, k) /\ ~ IsBracket(t[k]) /\ efrm = <<NumberFrame(t, k, j)>>
  BY DEF InNumber, AtItem
<1>1. PICK d, e, v, op, f : /\ d = t[k].digits /\ e = ItemEnds(t)[k] /\ v = ItemValues(t)[k - 1].v
                            /\ op = Applied(t)[k] /\ f = NumberFrame(t, k, j)
  OBVIOUS
<1>2. /\ d \in Seq(0..9) /\ IsNumber(d) /\ Len(d) \in Nat /\ SpellsNumber(text, e, d)
      /\ e \in Nat /\ e < Len(text) /\ e = ItemAt(t, k) + Len(d) /\ ItemAt(t, k) \in Nat
  BY <1>0, <1>1, ItemPlace
<1>3. f = DigitFrame(v, d, j, op) /\ Reading(d, e, j, p) /\ efrm = <<f>>
  BY <1>0, <1>1 DEF NumberFrame, InNumber
<1>4. j \in 0..Len(d) /\ p = e - Len(d) + j
  BY <1>3 DEF Reading
<1>l. Len(text) \in Nat /\ text \in Seq(STRING)
  BY LineIs
<1>5. p \in Nat /\ p <= e /\ p < Len(text) /\ p <= Len(text)
  <2>1. PICK a, l : a = ItemAt(t, k) /\ l = Len(d)
    OBVIOUS
  <2>2. a \in Nat /\ l \in Nat /\ e = a + l /\ p = e - l + j /\ j \in 0..l
    BY <1>2, <1>4, <2>1
  <2>3. p \in Nat /\ p <= e
    BY <2>2
  <2> QED BY <1>2, <1>l, <2>3
<1>6. Byte = text[p + 1] /\ epos < EvalBuf /\ EvalBuf \in Nat
  BY <1>5, <1>l, ScanByte, EvalAssumption
<1>7. Top = f /\ ~ Nested /\ \A h : SetTop(h) = <<h>>
  BY <1>3, OneFrame
<1> DEFINE b == text[p + 1]
<1>8. /\ b \in ToSet(DigitBytes) => EvalDigit
      /\ b \in OperBytes \cup {"nl"} => (EvalFault /\ FrameFaults(f)) \/ EvalOther
  BY <1>5, <1>6, <1>7, ScanStep
<1>9. CASE j # Len(d)
  <2>1. DigitNext(v, d, j, op, e, text, p)
    BY <1>2, <1>3, <1>9, NumberDigit
  <2> DEFINE h == NextDigit(f, text, p)
  <2>2. b \in ToSet(DigitBytes) /\ Reading(d, e, j + 1, p + 1)
    BY <2>1 DEF DigitNext
  <2>3. h = DigitFrame(v, d, j + 1, op)
    BY <1>3, <2>1 DEF DigitNext, NextDigit
  <2>4. h = NumberFrame(t, k, j + 1)
    BY <1>1, <2>3 DEF NumberFrame
  <2>5. EvalDigit
    BY <1>8, <2>2
  <2>6. efrm' = SetTop(h) /\ epos' = p + 1 /\ epc' = "scan"
    BY <1>6, <1>7, <2>5 DEF EvalDigit, NextDigit
  <2> HIDE DEF h
  <2>7. efrm' = <<NumberFrame(t, k, j + 1)>>
    BY <1>7, <2>4, <2>6
  <2>8. InNumber(t, k, j + 1, epos', efrm')
    BY <1>0, <1>1, <2>2, <2>6, <2>7 DEF InNumber
  <2> QED BY <2>6, <2>8 DEF WalkGoesOn, WalkAt
<1>10. CASE j = Len(d)
  <2>1. p = e
    BY <1>2, <1>4, <1>10
  <2>2. /\ k # Len(t) => b \in OperBytes /\ b = t[k + 1].op /\ b = Applied(t)[k + 1]
        /\ k = Len(t) => b = "nl"
    BY <1>0, <1>1, <2>1, ByteBehind, NextItem
  <2>3. b \in OperBytes \cup {"nl"}
    BY <2>2
  <2>4. ItemValue(t[k]) = [ok |-> TRUE, v |-> NumberOf(d)]
    BY <1>0, <1>1 DEF ItemValue
  <2>5. f = [ret |-> ItemValues(t)[k - 1].v, cur |-> NumberOf(d), op |-> Applied(t)[k]]
    BY <1>1, <1>3, <1>10 DEF DigitFrame, NumberOf
  <2>6. ItemValue(t[k]).ok /\ NumberOf(d) = ItemValue(t[k]).v
    BY <2>4
  <2>n. PICK x : x = NumberOf(d)
    OBVIOUS
  <2>7. /\ FrameFaults(f) => ~ ValueOf(t).ok
        /\ ~ FrameFaults(f) =>
             /\ ItemValues(t)[k].ok
             /\ EvalSimple(f) = [ret |-> ItemValues(t)[k].v, cur |-> 0, op |-> Applied(t)[k]]
    BY <1>0, <2>5, <2>6, <2>n, ItemApplies
  <2>8. CASE EvalFault /\ FrameFaults(f)
    BY <2>7, <2>8 DEF EvalFault, WalkGoesOn
  <2>9. CASE EvalOther
    <3> DEFINE h == [EvalSimple(f) EXCEPT !.op = IF Byte \in OperBytes THEN Byte ELSE @]
    <3>1. ~ FrameFaults(f) /\ epos' = p + 1 /\ epc' = "scan" /\ efrm' = SetTop(h)
      BY <1>7, <2>9 DEF EvalOther
    <3>2. PICK c, y : c = (IF Byte \in OperBytes THEN Byte ELSE Applied(t)[k]) /\ y = ItemValues(t)[k].v
      OBVIOUS
    <3>3. h = [ret |-> y, cur |-> 0, op |-> c]
      <4>1. PICK z : z = Applied(t)[k]
        OBVIOUS
      <4>2. EvalSimple(f) = [ret |-> y, cur |-> 0, op |-> z]
        BY <2>7, <3>1, <3>2, <4>1
      <4>3. c = IF Byte \in OperBytes THEN Byte ELSE z
        BY <3>2, <4>1
      <4>4. PICK w : w = [[ret |-> y, cur |-> 0, op |-> z] EXCEPT !.op = c]
        OBVIOUS
      <4>5. w.ret = y /\ w.cur = 0 /\ w.op = c /\ w \in [ret : {y}, cur : {0}, op : {c}]
        BY <4>4
      <4>6. w = [ret |-> y, cur |-> 0, op |-> c]
        BY <4>5
      <4>7. w = h
        BY <4>2, <4>3, <4>4
      <4> QED BY <4>6, <4>7
    <3> HIDE DEF h
    <3>4. efrm' = <<[ret |-> y, cur |-> 0, op |-> c]>>
      BY <1>7, <3>1, <3>3
    <3>5. k # Len(t) => c = Applied(t)[k + 1]
      BY <1>6, <2>2, <3>2
    <3>6. ItemValues(t)[k].ok
      BY <2>7, <3>1
    <3>q. PICK q : q = p + 1
      OBVIOUS
    <3>7. WalkAt(t, q, <<[ret |-> y, cur |-> 0, op |-> c]>>)
      BY <1>0, <1>1, <2>1, <3>2, <3>5, <3>6, <3>q, ItemFollowed
    <3> QED BY <3>1, <3>4, <3>7, <3>q DEF WalkGoesOn
  <2> QED BY <1>8, <2>3, <2>8, <2>9
<1> QED BY <1>9, <1>10

\* In front of a bracket.
LEMMA BracketStep ==
  ASSUME NEW text, NEW t, LineFrom(text, t), Held(ebuf, text), epc = "scan", EvalNext,
         NEW p, epos = p, NEW k, AtBracket(t, k, p, efrm)
  PROVE  WalkGoesOn(t)
<1>0. k \in 1..Len(t) /\ AtItem(t, k) /\ IsBracket(t[k]) /\ p = ItemAt(t, k) /\ efrm = <<Waiting(t, k)>>
  BY DEF AtBracket, AtItem
<1>1. PICK g : g = t[k].group
  OBVIOUS
<1>2. /\ p \in Nat /\ GroupEnd(p + 1, g) \in Nat /\ p + 1 <= GroupEnd(p + 1, g)
      /\ ItemEnds(t)[k] = GroupEnd(p + 1, g) + 1 /\ ItemEnds(t)[k] < Len(text)
      /\ text[p + 1] = "(" /\ g \in Seq(Operand) /\ WellFormed(g) /\ g # <<>>
  BY <1>0, <1>1, ItemPlace
<1>l. Len(text) \in Nat /\ text \in Seq(STRING)
  BY LineIs
<1>3. p < Len(text) /\ p <= Len(text)
  BY <1>2, <1>l
<1>4. Byte = "(" /\ epos < EvalBuf /\ EvalBuf \in Nat
  BY <1>2, <1>3, <1>l, ScanByte, EvalAssumption
<1>5. EvalOpen
  BY <1>2, <1>4, ScanStep
<1>6. epc' = "scan" /\ epos' = p + 1 /\ efrm' = Append(efrm, FreshFrame)
  BY <1>5 DEF EvalOpen
<1>7. efrm' = <<Waiting(t, k), FreshFrame>>
  BY <1>0, <1>6, AppendSecond
<1>8. InPiece(g, p + 1, p + 1, FreshFrame)
  <2>1. PICK m : m = p + 1
    OBVIOUS
  <2>2. m \in Nat
    BY <1>2, <2>1
  <2> QED BY <1>2, <2>1, <2>2, PieceBegins
<1>9. InBracket(t, k, FreshFrame, epos', efrm')
  BY <1>0, <1>1, <1>6, <1>7, <1>8 DEF InBracket
<1> QED BY <1>6, <1>9 DEF WalkGoesOn, WalkAt

\* Behind the newline.
LEMMA EndStep ==
  ASSUME NEW text, NEW t, LineFrom(text, t), Held(ebuf, text), epc = "scan", EvalNext,
         NEW p, epos = p, PastLine(t, p, efrm)
  PROVE  WalkGoesOn(t)
<1>1. PICK f : efrm = <<f>> /\ f.ret = ValueOf(t).v
  BY DEF PastLine
<1>2. ValueOf(t).ok /\ p = Len(text) /\ p \in Nat /\ text \in Seq(STRING) /\ p <= Len(text)
  <2>1. ValueOf(t).ok /\ p = ItemEnds(t)[Len(t)] + 1
    BY DEF PastLine
  <2>2. Len(text) = ItemEnds(t)[Len(t)] + 1 /\ Len(text) \in Nat /\ text \in Seq(STRING)
    BY LineIs
  <2>3. p = Len(text) /\ p \in Nat /\ p <= Len(text)
    BY <2>1, <2>2
  <2> QED BY <2>1, <2>2, <2>3
<1>3. Byte = "nul" /\ epos < EvalBuf /\ EvalBuf \in Nat
  BY <1>2, ScanByte, EvalAssumption
<1>4. EvalFault \/ EvalReturn \/ EvalFinish
  BY <1>2, <1>3, ScanStep
<1>5. Top = f /\ ~ Nested
  BY <1>1, OneFrame
<1>6. EvalFinish
  BY <1>3, <1>4, <1>5 DEF EvalFault, EvalReturn
<1>7. epc' = "print" /\ evalue' = f.ret
  BY <1>3, <1>5, <1>6 DEF EvalFinish, ResultFrame
<1>8. ValueOf(t) = [ok |-> TRUE, v |-> ValueOf(t).v]
  <2>1. Len(t) \in 1..Len(t)
    BY LineIs
  <2>2. ValueOf(t) \in Worth
    BY <2>1, ItemCounts
  <2> QED BY <1>2, <2>2 DEF Worth
<1> QED BY <1>1, <1>7, <1>8 DEF WalkGoesOn

\* Inside a bracket: at its end the value goes to the frame that waits for it, and the
\* byte behind it is stepped over.
LEMMA GroupStep ==
  ASSUME NEW text, NEW t, LineFrom(text, t), Held(ebuf, text), epc = "scan", EvalNext,
         NEW p, epos = p, NEW k, NEW f, InBracket(t, k, f, p, efrm)
  PROVE  WalkGoesOn(t)
<1>0. k \in 1..Len(t) /\ AtItem(t, k) /\ IsBracket(t[k])
  BY DEF InBracket, AtItem
<1>1. PICK g, m, n, o, e : /\ g = t[k].group /\ m = ItemAt(t, k) + 1 /\ n = GroupEnd(m, g)
                           /\ o = Waiting(t, k) /\ e = ItemEnds(t)[k]
  OBVIOUS
<1>2. /\ g \in Seq(Operand) /\ WellFormed(g) /\ Spells(text, m, g) /\ n \in Nat /\ m \in Nat
      /\ e = n + 1 /\ e < Len(text) /\ text[n + 1] = ")"
  BY <1>0, <1>1, ItemPlace
<1>l. Len(text) \in Nat /\ text \in Seq(STRING)
  BY LineIs
<1>f. efrm = <<o, f>> /\ InPiece(g, m, p, f)
  BY <1>1 DEF InBracket
<1>3. /\ p \in Nat /\ p <= n
      /\ MeetsDigit(text, g, m, p, f) \/ MeetsOperator(text, g, m, p, f) \/ MeetsEnd(g, m, p, f)
  <2>1. n = Ends(m, g)[Len(g)]
    BY <1>1 DEF GroupEnd
  <2> QED BY <1>f, <1>2, <2>1, PieceStep
<1>5. p < Len(text) /\ p <= Len(text)
  BY <1>2, <1>3, <1>l
<1>6. Byte = text[p + 1] /\ epos < EvalBuf /\ EvalBuf \in Nat
  BY <1>3, <1>5, <1>l, ScanByte, EvalAssumption
<1>7. /\ Top = f /\ Nested /\ \A h : SetTop(h) = <<o, h>> /\ PopTo(h) = <<h>>
      /\ \A v : Caller(v) = [o EXCEPT !.cur = v]
  BY <1>f, TwoFrames
<1> DEFINE b == text[p + 1]
<1>8. /\ b \in ToSet(DigitBytes) => EvalDigit
      /\ b \in OperBytes \cup {"nl"} => (EvalFault /\ FrameFaults(f)) \/ EvalOther
      /\ b \in {")", "nul"} => EvalFault \/ EvalReturn \/ EvalFinish
  BY <1>3, <1>6, <1>7, ScanStep
<1>w. ~ PlainValue(g).ok => ~ ValueOf(t).ok
  <2>1. ItemValue(t[k]) = PlainValue(g)
    BY <1>0, <1>1 DEF ItemValue
  <2>2. PICK r, op, w : r = ItemValues(t)[k - 1] /\ op = Applied(t)[k] /\ w = ItemValue(t[k])
    OBVIOUS
  <2>3. /\ r \in Worth /\ op \in Opers /\ w \in Worth
        /\ ItemValues(t)[k] = ItemStep(r, op, w)
        /\ ~ ItemValues(t)[k].ok => ~ ValueOf(t).ok
    BY <1>0, <2>2, ItemCounts, ItemWorth
  <2>4. ~ w.ok => ~ ItemStep(r, op, w).ok
    BY <2>3, ItemStepIs
  <2> QED BY <2>1, <2>2, <2>3, <2>4
<1>9. CASE MeetsDigit(text, g, m, p, f)
  <2> DEFINE h == NextDigit(f, text, p)
  <2>1. EvalDigit /\ InPiece(g, m, p + 1, h)
    BY <1>8, <1>9 DEF MeetsDigit
  <2>2. efrm' = SetTop(h) /\ epos' = p + 1 /\ epc' = "scan"
    BY <1>6, <1>7, <2>1 DEF EvalDigit, NextDigit
  <2> HIDE DEF h
  <2>3. efrm' = <<o, h>>
    BY <1>7, <2>2
  <2>4. InBracket(t, k, h, epos', efrm')
    BY <1>0, <1>1, <2>1, <2>2, <2>3 DEF InBracket
  <2> QED BY <2>2, <2>4 DEF WalkGoesOn, WalkAt
<1>10. CASE MeetsOperator(text, g, m, p, f)
  <2>1. b \in OperBytes /\ (FrameFaults(f) => ~ PlainValue(g).ok)
        /\ (~ FrameFaults(f) => InPiece(g, m, p + 1, [EvalSimple(f) EXCEPT !.op = b]))
    BY <1>10 DEF MeetsOperator
  <2>2. CASE EvalFault /\ FrameFaults(f)
    BY <1>w, <2>1, <2>2 DEF EvalFault, WalkGoesOn
  <2>3. CASE EvalOther
    <3> DEFINE h == [EvalSimple(f) EXCEPT !.op = b]
    <3> HIDE DEF b
    <3>1. ~ FrameFaults(f) /\ efrm' = SetTop(h) /\ epos' = p + 1 /\ epc' = "scan"
      BY <1>6, <1>7, <2>1, <2>3 DEF EvalOther, b
    <3>2. efrm' = <<o, h>>
      BY <1>7, <3>1
    <3>3. InPiece(g, m, p + 1, h)
      BY <2>1, <3>1
    <3> HIDE DEF h
    <3>4. InBracket(t, k, h, epos', efrm')
      BY <1>0, <1>1, <3>1, <3>2, <3>3 DEF InBracket
    <3> QED BY <3>1, <3>4 DEF WalkGoesOn, WalkAt
  <2> QED BY <1>8, <2>1, <2>2, <2>3
<1>11. CASE MeetsEnd(g, m, p, f)
  <2>q. PICK q, x, y, u : /\ q = PlainValue(g) /\ x = q.v /\ y = ItemValues(t)[k - 1].v
                          /\ u = Applied(t)[k]
    OBVIOUS
  <2> DEFINE c == [ret |-> y, cur |-> x, op |-> u]
  <2>1. p = n /\ b = ")" /\ (FrameFaults(f) => ~ q.ok) /\ p + 2 = e + 1
    <3>1. p = n /\ (FrameFaults(f) => ~ q.ok)
      BY <1>1, <1>11, <2>q DEF MeetsEnd, GroupEnd
    <3> QED BY <1>2, <3>1
  <2>o. o = [ret |-> y, cur |-> 0, op |-> u]
    BY <1>1, <2>q DEF Waiting
  <2>c. [o EXCEPT !.cur = x] = c
    <3>1. PICK s : s = [o EXCEPT !.cur = x]
      OBVIOUS
    <3>2. s.ret = y /\ s.cur = x /\ s.op = u /\ s \in [ret : {y}, cur : {x}, op : {u}]
      BY <2>o, <3>1
    <3> QED BY <3>1, <3>2
  <2>2. ASSUME ~ FrameFaults(f)
        PROVE  /\ q.ok /\ EvalSimple(f).ret = x
               /\ FrameFaults(c) => ~ ValueOf(t).ok
               /\ ~ FrameFaults(c) => ItemValues(t)[k].ok
                                      /\ EvalSimple(c) = [ret |-> ItemValues(t)[k].v, cur |-> 0, op |-> u]
    <3>1. PICK z : EvalSimple(f) = [ret |-> q.v, cur |-> 0, op |-> z]
      BY <1>11, <2>q, <2>2 DEF MeetsEnd
    <3>2. q.ok
      BY <1>11, <2>q, <2>2 DEF MeetsEnd
    <3>3. EvalSimple(f).ret = x
      BY <2>q, <3>1
    <3>4. ItemValue(t[k]) = q
      BY <1>0, <1>1, <2>q DEF ItemValue
    <3>5. ItemValue(t[k]).ok /\ x = ItemValue(t[k]).v
      BY <2>q, <3>2, <3>4
    <3>6. PICK d : d = c
      OBVIOUS
    <3>7. d = [ret |-> ItemValues(t)[k - 1].v, cur |-> x, op |-> Applied(t)[k]]
      BY <2>q, <3>6
    <3>8. /\ FrameFaults(d) => ~ ValueOf(t).ok
          /\ ~ FrameFaults(d) =>
               /\ ItemValues(t)[k].ok
               /\ EvalSimple(d) = [ret |-> ItemValues(t)[k].v, cur |-> 0, op |-> Applied(t)[k]]
      BY <1>0, <3>5, <3>7, ItemApplies
    <3> HIDE DEF c
    <3> QED BY <2>q, <3>2, <3>3, <3>6, <3>8
  <2> HIDE DEF c
  <2>3. ~ FrameFaults(f) => ResultFrame.ret = x /\ Caller(ResultFrame.ret) = c
    BY <1>6, <1>7, <2>1, <2>2, <2>c DEF ResultFrame
  <2>5. CASE EvalFault
    <3>1. FrameFaults(f) \/ (~ FrameFaults(f) /\ FrameFaults(c))
      BY <1>6, <1>7, <2>1, <2>3, <2>5 DEF EvalFault
    <3>2. ~ ValueOf(t).ok
      BY <1>w, <2>q, <2>1, <2>2, <3>1
    <3>3. epc' = "fault"
      BY <2>5 DEF EvalFault
    <3> QED BY <3>2, <3>3 DEF WalkGoesOn
  <2>6. CASE EvalReturn
    <3>1. ~ FrameFaults(f)
      BY <1>6, <1>7, <2>1, <2>6 DEF EvalReturn
    <3>2. ~ FrameFaults(c) /\ efrm' = PopTo(EvalSimple(c)) /\ epos' = p + 2 /\ epc' = "scan"
      BY <1>6, <2>1, <2>3, <2>6, <3>1 DEF EvalReturn, AfterBracket
    <3>3. PICK v, s : v = ItemValues(t)[k].v /\ s = p + 2
      OBVIOUS
    <3>4. efrm' = <<[ret |-> v, cur |-> 0, op |-> u]>> /\ ItemValues(t)[k].ok
      BY <1>7, <2>2, <3>1, <3>2, <3>3
    <3>5. k # Len(t) => u = Applied(t)[k + 1]
      BY <1>0, <2>q, NextItem
    <3>6. s = ItemEnds(t)[k] + 1
      BY <1>1, <2>1, <3>3
    <3>7. WalkAt(t, s, <<[ret |-> v, cur |-> 0, op |-> u]>>)
      BY <1>0, <3>3, <3>4, <3>5, <3>6, ItemFollowed
    <3> QED BY <3>2, <3>3, <3>4, <3>7 DEF WalkGoesOn
  <2>7. ~ EvalFinish
    BY <1>7 DEF EvalFinish
  <2> QED BY <1>8, <2>1, <2>5, <2>6, <2>7
<1> QED BY <1>3, <1>9, <1>10, <1>11

\* In whichever place the walk is.
LEMMA WalkStep ==
  ASSUME NEW text, NEW t, LineFrom(text, t), Held(ebuf, text), epc = "scan", EvalNext,
         NEW p, epos = p, WalkAt(t, p, efrm)
  PROVE  WalkGoesOn(t)
<1>1. CASE \E k, j : InNumber(t, k, j, p, efrm)
  <2>1. PICK k, j : InNumber(t, k, j, p, efrm)
    BY <1>1
  <2> QED BY <2>1, NumberStep
<1>2. CASE \E k : AtBracket(t, k, p, efrm)
  <2>1. PICK k : AtBracket(t, k, p, efrm)
    BY <1>2
  <2> QED BY <2>1, BracketStep
<1>3. CASE \E k, f : InBracket(t, k, f, p, efrm)
  <2>1. PICK k, f : InBracket(t, k, f, p, efrm)
    BY <1>3
  <2> QED BY <2>1, GroupStep
<1>4. CASE PastLine(t, p, efrm)
  BY <1>4, EndStep
<1> QED BY <1>1, <1>2, <1>3, <1>4 DEF WalkAt

\* A fresh frame in front of the line.
LEMMA WalkBegins ==
  ASSUME NEW text, NEW t, LineFrom(text, t)
  PROVE  WalkAt(t, 0, <<FreshFrame>>)
<1>1. t \in Seq(Item) /\ 1 \in 1..Len(t) /\ 1 - 1 = 0 /\ Len(t) \in Nat
  BY LineIs
<1>2. \A i \in 1..Len(t) : t[i].op \in Opers /\ ItemValue(t[i]) \in Worth
  BY ItemWorth
<1>3. ItemValues(t)[0] = Nothing /\ ItemEnds(t)[0] = 0
  BY <1>1, <1>2, ItemValuesAre, ItemEndsAre
<1>4. t[1].op = "null"
  <2>1. SpellsItem(text, t, 1)
    BY <1>1, LineIs
  <2> QED BY <2>1 DEF SpellsItem
<1>5. Applied(t)[1] = "null"
  <2>1. \A i \in 1..Len(t) : t[i].op \in Opers
    BY <1>2
  <2>2. Applied(t)[1] = IF 1 > 1 /\ IsBracket(t[1 - 1]) THEN Applied(t)[1 - 1] ELSE t[1].op
    BY <1>1, <2>1, AppliedAre
  <2> QED BY <1>4, <2>2
<1>6. ItemAt(t, 1) = 0
  BY <1>1, <1>3, <1>4 DEF ItemAt, OpSize
<1>7. AtItem(t, 1)
  BY <1>1, <1>3 DEF AtItem, Nothing
<1>8. Waiting(t, 1) = FreshFrame
  BY <1>1, <1>3, <1>5 DEF Waiting, FreshFrame, Nothing
<1>9. PICK k, p : k = 1 /\ p = 0
  OBVIOUS
<1>10. WalkAt(t, p, <<Waiting(t, k)>>)
  BY <1>6, <1>7, <1>9, ItemBegins
<1> QED BY <1>8, <1>9, <1>10

\* LeftToRight with where the walk is.
WalkInv ==
  /\ eline.term # NoTerm =>
       /\ LineFrom(eline.text, eline.term)
       /\ epc = "scan" => WalkAt(eline.term, epos, efrm)
  /\ LeftToRight

\* A step of eval keeps it: a line that is read begins the walk, and the walk goes on.
LEMMA WalkKeeps ==
  ASSUME EvalInv, WalkInv, EvalNext
  PROVE  WalkInv'
<1>1. CASE EvalRead
  <2>1. eline' = Head(esess) /\ epos' = 0 /\ efrm' = <<FreshFrame>> /\ epc' = "scan" /\ esess # <<>>
    BY <1>1 DEF EvalRead
  <2>2. Head(esess) \in EvalInput
    BY <2>1, HeadTailProperties DEF EvalInv
  <2>3. eline'.term # NoTerm => LineFrom(eline'.text, eline'.term)
    BY <2>1, <2>2 DEF EvalInput, LineFrom
  <2>4. eline'.term # NoTerm => WalkAt(eline'.term, epos', efrm')
    BY <2>1, <2>3, WalkBegins
  <2> QED BY <2>1, <2>3, <2>4 DEF WalkInv, LeftToRight
<1>2. CASE epc = "scan"
  <2>1. UNCHANGED eline
    BY <1>2 DEF EvalNext, EvalRead, EvalEof, EvalDigit, EvalOther, EvalOpen, EvalReturn,
                EvalFinish, EvalFault, EvalWild, EvalPrint
  <2>2. CASE eline.term = NoTerm
    BY <2>1, <2>2 DEF WalkInv, LeftToRight
  <2>3. CASE eline.term # NoTerm
    <3>1. Held(ebuf, eline.text) /\ LineFrom(eline.text, eline.term) /\ WalkAt(eline.term, epos, efrm)
      BY <1>2, <2>3 DEF EvalInv, WalkInv
    <3>2. PICK t, text, p : t = eline.term /\ text = eline.text /\ p = epos
      OBVIOUS
    <3>3. WalkGoesOn(t)
      BY <1>2, <3>1, <3>2, WalkStep
    <3>4. eline'.term = t /\ eline'.text = text
      BY <2>1, <3>2
    <3>5. LineFrom(text, t)
      BY <3>1, <3>2
    <3>6. LeftToRight'
      BY <3>3, <3>4 DEF LeftToRight, WalkGoesOn
    <3>7. epc' = "scan" => WalkAt(t, epos', efrm')
      BY <3>3 DEF WalkGoesOn
    <3> QED BY <3>4, <3>5, <3>6, <3>7 DEF WalkInv
  <2> QED BY <2>2, <2>3
<1>3. CASE ~ EvalRead /\ epc # "scan"
  <2>1. EvalEof \/ EvalPrint
    BY <1>3 DEF EvalNext, EvalDigit, EvalOther, EvalOpen, EvalReturn, EvalFinish, EvalFault, EvalWild
  <2>2. UNCHANGED <<eline, epos, efrm, evalue>> /\ epc' \in {"read", "ended"}
    BY <2>1 DEF EvalEof, EvalPrint
  <2> QED BY <2>2 DEF WalkInv, LeftToRight
<1> QED BY <1>1, <1>2, <1>3

\* No expression has been read when the programs begin.
LEMMA WalkInvBegins == ProgramsInit => WalkInv
<1> SUFFICES ASSUME ProgramsInit PROVE WalkInv
  OBVIOUS
<1>1. EvalInit \/ EvalIdle
  BY DEF ProgramsInit
<1>2. eline.term = NoTerm
  BY <1>1 DEF EvalInit, EvalIdle
<1> QED BY <1>2 DEF WalkInv, LeftToRight

\* Nothing the other programs do matters to the walk.
LEMMA WalkInvStep ==
  ASSUME EvalInv, WalkInv, [PNext]_progVars
  PROVE  WalkInv'
<1>1. CASE EvalNext
  BY <1>1, WalkKeeps
<1>2. CASE UNCHANGED evalVars
  <2>1. UNCHANGED <<eline, epos, efrm, evalue, epc>>
    BY <1>2 DEF evalVars
  <2> QED BY <2>1 DEF WalkInv, LeftToRight
<1> QED BY <1>1, <1>2, EvalStepIs

\* For any number of numbers and brackets (brackets that do not nest), with numbers of any
\* number of digits that fit a long, and for a long and a buffer of any size: eval_recur
\* and eval_simple compute what ValueOf says, from left to right, whatever earlier lines
\* left in the buffer, and the program faults only where that value does not exist.  It
\* is the value of what is written only up to the first bracket: an operator behind a
\* bracket does not count, and the one in front of the bracket counts again.
THEOREM EvalLeftToRight == ProgramsSpec => []LeftToRight
<1>1. EvalInv /\ WalkInv /\ [ProgramStep \/ OthersStep \/ Rest]_progVars => (EvalInv /\ WalkInv)'
  BY EvalStep, WalkInvStep DEF PNext
<1>2. WalkInv => LeftToRight
  BY DEF WalkInv
<1> QED BY <1>1, <1>2, EvalBegins, WalkInvBegins, PTL DEF ProgramsSpec

----------------------------------------------------------------------------
(* mkdir.  The place a path leads to, from a walk along it.                *)

PathByte == STRING \cup {"/", "nul"}
Name == Seq(PathByte)
Walked == [names : Seq(Name), run : Seq(PathByte)]
NoByte == [names |-> <<>>, run |-> <<>>]
OneByte(path, n, w) ==
  IF path[n] = "/" THEN [names |-> NamesOf(w), run |-> <<>>]
  ELSE [names |-> w.names, run |-> Append(w.run, path[n])]

\* u is the walk along a path, byte by byte.
Walks(u, path) ==
  u = [n \in 0..Len(path) |->
         IF n = 0 THEN [names |-> <<>>, run |-> <<>>]
         ELSE IF path[n] = "/" THEN [names |-> NamesOf(u[n - 1]), run |-> <<>>]
         ELSE [names |-> u[n - 1].names, run |-> Append(u[n - 1].run, path[n])]]
Walk(path) == CHOOSE u : Walks(u, path)
WalksOn(u, path) ==
  /\ u[0] = NoByte
  /\ \A n \in 1..Len(path) : u[n] = OneByte(path, n, u[n - 1])

\* A sequence is one over any larger set.
LEMMA Widened ==
  ASSUME NEW A, NEW B, A \subseteq B, NEW s \in Seq(A)
  PROVE  s \in Seq(B)
<1>1. Len(s) \in Nat /\ \A i \in 1..Len(s) : s[i] \in B
  OBVIOUS
<1>2. s = [i \in 1..Len(s) |-> s[i]]
  OBVIOUS
<1> QED BY <1>1, <1>2

\* The indices and the elements of a sequence.
LEMMA SequenceIs ==
  ASSUME NEW A, NEW s \in Seq(A)
  PROVE  Len(s) \in Nat /\ DOMAIN s = 1..Len(s) /\ \A k \in 1..Len(s) : s[k] \in A
OBVIOUS

\* The arguments and the places of the file system, as sequences of bytes and names.
LEMMA BytesOfPath ==
  /\ \A p : p \in Seq(STRING) => p \in Seq(PathByte)
  /\ \A p : p \in Seq(Seq(STRING)) => p \in Seq(Name)
<1>1. STRING \subseteq PathByte
  BY DEF PathByte
<1>2. Seq(STRING) \subseteq Name
  BY <1>1, Widened DEF Name
<1>3. Seq(Seq(STRING)) \subseteq Seq(Name)
  <2> HIDE DEF Name
  <2> QED BY <1>2, Widened
<1> QED BY <1>2, <1>3 DEF Name

\* The walk begins nowhere, and the names it has seen are names.
LEMMA WalkedIs == NoByte \in Walked /\ \A w \in Walked : NamesOf(w) \in Seq(Name)
<1>1. NoByte \in Walked
  BY DEF NoByte, Walked
<1>2. ASSUME NEW w \in Walked PROVE NamesOf(w) \in Seq(Name)
  <2>1. w.names \in Seq(Name) /\ w.run \in Name
    BY DEF Walked, Name
  <2> HIDE DEF Name
  <2> QED BY <2>1 DEF NamesOf
<1> QED BY <1>1, <1>2

\* One byte further.
LEMMA OneByteIs ==
  ASSUME NEW path \in Seq(PathByte), NEW n \in 1..Len(path), NEW w \in Walked
  PROVE  OneByte(path, n, w) \in Walked
<1>1. w.names \in Seq(Name) /\ w.run \in Seq(PathByte) /\ NamesOf(w) \in Seq(Name)
  BY WalkedIs DEF Walked
<1>2. path[n] \in PathByte
  OBVIOUS
<1>3. Append(w.run, path[n]) \in Seq(PathByte) /\ <<>> \in Seq(PathByte)
  <2> HIDE DEF PathByte
  <2> QED BY <1>1, <1>2
<1> HIDE DEF Name, PathByte
<1> QED BY <1>1, <1>3 DEF OneByte, Walked

\* The recursion of Place defines a function.
LEMMA WalkExists ==
  ASSUME NEW path \in Seq(PathByte)
  PROVE  \E u : Walks(u, path)
<1> DEFINE m == Len(path)
           h == [k \in Nat |-> [x \in Walked |-> IF k \in 1..m THEN OneByte(path, k, x) ELSE x]]
<1>0. m \in Nat
  OBVIOUS
<1>1. PICK g : DefinedBy(g, NoByte, h)
  <2> HIDE DEF h
  <2> QED BY RecursionExists
<1>2. g[0] = NoByte /\ \A n \in Nat : g[n + 1] = h[n + 1][g[n]]
  <2> HIDE DEF h
  <2>1. g = [k \in Nat |-> IF k = 0 THEN NoByte ELSE h[k][g[k - 1]]]
    BY <1>1 DEF DefinedBy
  <2>2. \A n \in Nat : n + 1 \in Nat /\ n + 1 # 0 /\ (n + 1) - 1 = n
    OBVIOUS
  <2> QED BY <2>1, <2>2
<1>3. \A n \in Nat : g[n] \in Walked
  <2> DEFINE T == {n \in Nat : g[n] \in Walked}
  <2>1. 0 \in T
    BY <1>2, WalkedIs
  <2>2. ASSUME NEW n \in Nat, n \in T PROVE n + 1 \in T
    <3>1. g[n] \in Walked /\ n + 1 \in Nat
      BY <2>2
    <3>2. g[n + 1] = IF n + 1 \in 1..m THEN OneByte(path, n + 1, g[n]) ELSE g[n]
      BY <1>2, <3>1
    <3>3. n + 1 \in 1..m => OneByte(path, n + 1, g[n]) \in Walked
      BY <3>1, OneByteIs
    <3> QED BY <3>1, <3>2, <3>3
  <2> HIDE DEF T
  <2>3. \A n \in Nat : n \in T
    BY <2>1, <2>2, SetInduction
  <2> QED BY <2>3 DEF T
<1> DEFINE u == [n \in 0..m |-> g[n]]
<1>4. ASSUME NEW n \in 0..m
      PROVE  u[n] = IF n = 0 THEN NoByte ELSE OneByte(path, n, u[n - 1])
  <2>1. CASE n = 0
    BY <1>2, <2>1
  <2>2. CASE n # 0
    <3> DEFINE l == n - 1
    <3>1. l \in Nat /\ l + 1 = n /\ l \in 0..m /\ n \in 1..m /\ n \in Nat
      BY <1>0, <2>2
    <3> HIDE DEF l
    <3>2. g[n] = h[n][g[l]] /\ g[l] \in Walked
      BY <1>2, <1>3, <3>1
    <3>3. g[n] = OneByte(path, n, g[l])
      BY <3>1, <3>2
    <3>5. u[n] = g[n] /\ u[l] = g[l] /\ l = n - 1
      BY <3>1 DEF l
    <3> QED BY <2>2, <3>3, <3>5
  <2> QED BY <2>1, <2>2
<1>5. u = [n \in 0..m |-> u[n]]
  OBVIOUS
<1> HIDE DEF u
<1>6. Walks(u, path)
  <2>1. u = [n \in 0..m |-> IF n = 0 THEN NoByte ELSE OneByte(path, n, u[n - 1])]
    <3> HIDE DEF m
    <3> QED BY <1>4, <1>5
  <2> QED BY <2>1, Zenon DEF Walks, OneByte, NoByte, m
<1> QED BY <1>6

\* What the recursion gives, byte by byte.
LEMMA WalkIs ==
  ASSUME NEW path \in Seq(PathByte)
  PROVE  /\ WalksOn(Walk(path), path) /\ Place(path) = NamesOf(Walk(path)[Len(path)])
         /\ \A n \in 0..Len(path) : Walk(path)[n] \in Walked
<1> DEFINE u == Walk(path)
           m == Len(path)
<1>1. Walks(u, path)
  BY WalkExists DEF Walk
<1>2. Place(path) = NamesOf(u[m])
  BY DEF Place, Walk, Walks
<1> HIDE DEF u
<1>3. m \in Nat
  OBVIOUS
<1>4. u = [n \in 0..m |-> IF n = 0 THEN NoByte ELSE OneByte(path, n, u[n - 1])]
  BY <1>1, Zenon DEF Walks, OneByte, NoByte
<1>5. WalksOn(u, path)
  <2>1. 0 \in 0..m /\ \A n \in 1..m : n \in 0..m /\ n # 0
    BY <1>3
  <2> HIDE DEF m
  <2>2. u[0] = NoByte /\ \A n \in 1..m : u[n] = OneByte(path, n, u[n - 1])
    BY <1>4, <2>1
  <2> QED BY <2>2 DEF WalksOn, m
<1> DEFINE T == {n \in Nat : n <= m => u[n] \in Walked}
<1>6. 0 \in T
  BY <1>5, WalkedIs DEF WalksOn
<1>7. ASSUME NEW n \in Nat, n \in T PROVE n + 1 \in T
  <2>1. n + 1 \in Nat /\ (n <= m => u[n] \in Walked)
    BY <1>7
  <2> SUFFICES ASSUME n + 1 <= m PROVE u[n + 1] \in Walked
    BY <2>1
  <2>2. n + 1 \in 1..m /\ (n + 1) - 1 = n /\ n <= m
    BY <1>3
  <2>3. u[n + 1] = OneByte(path, n + 1, u[n])
    BY <1>5, <2>2 DEF WalksOn
  <2> QED BY <2>1, <2>2, <2>3, OneByteIs
<1>8. \A n \in Nat : n \in T
  <2> HIDE DEF T
  <2> QED BY <1>6, <1>7, SetInduction
<1>9. \A n \in 0..m : u[n] \in Walked
  BY <1>3, <1>8
<1> QED BY <1>2, <1>5, <1>9 DEF u

\* A place is a sequence of names.
LEMMA PlaceIs ==
  ASSUME NEW path \in Seq(PathByte)
  PROVE  Place(path) \in Seq(Name)
<1>1. Len(path) \in 0..Len(path)
  OBVIOUS
<1> QED BY <1>1, WalkIs, WalkedIs

\* The empty path leads nowhere.
LEMMA PlaceEmpty == Place(<<>>) = <<>>
<1>1. <<>> \in Seq(PathByte) /\ Len(<<>>) = 0
  OBVIOUS
<1>2. Walk(<<>>)[0] = NoByte
  BY <1>1, WalkIs DEF WalksOn
<1>3. Place(<<>>) = NamesOf(NoByte)
  BY <1>1, <1>2, WalkIs
<1> QED BY <1>3 DEF NoByte, NamesOf

\* A slash at the end leads nowhere else.
LEMMA PlaceSlash ==
  ASSUME NEW path \in Seq(PathByte), NEW q, q = Append(path, "/")
  PROVE  Place(q) = Place(path)
<1> DEFINE m == Len(path)
           u == Walk(path)
           v == Walk(q)
<1>0. "/" \in PathByte
  BY DEF PathByte
<1>1. q \in Seq(PathByte) /\ Len(q) = m + 1 /\ m \in Nat
  BY <1>0
<1>2. q[m + 1] = "/" /\ \A i \in 1..m : q[i] = path[i]
  OBVIOUS
<1>3. \A i \in 1..m : \A w : OneByte(q, i, w) = OneByte(path, i, w)
  BY <1>2, Zenon DEF OneByte
<1>4. WalksOn(u, path) /\ Place(path) = NamesOf(u[m])
  BY WalkIs
<1>5. WalksOn(v, q) /\ Place(q) = NamesOf(v[m + 1])
  BY <1>1, WalkIs
<1> HIDE DEF u, v
<1> DEFINE T == {n \in Nat : n <= m => v[n] = u[n]}
<1>6. 0 \in T
  BY <1>4, <1>5 DEF WalksOn
<1>7. ASSUME NEW n \in Nat, n \in T PROVE n + 1 \in T
  <2>1. n + 1 \in Nat /\ (n <= m => v[n] = u[n])
    BY <1>7
  <2> SUFFICES ASSUME n + 1 <= m PROVE v[n + 1] = u[n + 1]
    BY <2>1
  <2>2. n + 1 \in 1..m /\ n + 1 \in 1..Len(q) /\ (n + 1) - 1 = n /\ n <= m
    BY <1>1
  <2>3. v[n + 1] = OneByte(q, n + 1, v[n]) /\ u[n + 1] = OneByte(path, n + 1, u[n])
    BY <1>4, <1>5, <2>2 DEF WalksOn
  <2> QED BY <1>3, <2>1, <2>2, <2>3
<1>8. \A n \in Nat : n \in T
  <2> HIDE DEF T
  <2> QED BY <1>6, <1>7, SetInduction
<1>9. v[m] = u[m]
  BY <1>1, <1>8
<1>10. v[m + 1] = OneByte(q, m + 1, u[m])
  <2>1. m + 1 \in 1..Len(q) /\ (m + 1) - 1 = m
    BY <1>1
  <2> QED BY <1>5, <1>9, <2>1 DEF WalksOn
<1>11. v[m + 1] = [names |-> NamesOf(u[m]), run |-> <<>>]
  BY <1>2, <1>10 DEF OneByte
<1>12. NamesOf(v[m + 1]) = NamesOf(u[m])
  BY <1>11 DEF NamesOf
<1> QED BY <1>4, <1>5, <1>12

\* The bytes up to the first zero byte are the string.
LEMMA CStringIs ==
  ASSUME NEW bytes, Len(bytes) \in Nat, NEW m \in 0..Len(bytes),
         m < Len(bytes) => bytes[m + 1] = "nul", \A j \in 1..m : bytes[j] # "nul"
  PROVE  CString(bytes) = [j \in 1..m |-> bytes[j]]
<1> DEFINE L == Len(bytes)
           Z(k) == bytes[k] = "nul"
           P(k) == (k < L => Z(k + 1)) /\ \A j \in 1..k : ~ Z(j)
           n == CHOOSE k \in 0..L : P(k)
<1>1. P(m)
  OBVIOUS
<1>2. n \in 0..L /\ P(n)
  <2> HIDE DEF P
  <2> QED BY <1>1
<1>3. CString(bytes) = [j \in 1..n |-> bytes[j]]
  BY DEF CString
<1> HIDE DEF n, Z, L
<1>4. n = m
  <2>1. L \in Nat /\ m \in 0..L
    BY DEF L
  <2>2. ~ (n < m)
    <3> SUFFICES ASSUME n < m PROVE FALSE
      OBVIOUS
    <3>1. n < L /\ n + 1 \in 1..m
      BY <1>2, <2>1
    <3> QED BY <1>1, <1>2, <3>1
  <2>3. ~ (m < n)
    <3> SUFFICES ASSUME m < n PROVE FALSE
      OBVIOUS
    <3>1. m < L /\ m + 1 \in 1..n
      BY <1>2, <2>1
    <3> QED BY <1>1, <1>2, <3>1
  <2> QED BY <1>2, <2>1, <2>2, <2>3
<1> QED BY <1>3, <1>4

\* The first n bytes of a path.
FirstBytes(path, n) == [j \in 1..n |-> path[j]]

\* The first bytes of a path, one more of them, all of them and none.
LEMMA FirstBytesAre ==
  ASSUME NEW path \in Seq(PathByte), NEW n \in 0..Len(path)
  PROVE  /\ FirstBytes(path, n) \in Seq(PathByte) /\ Len(FirstBytes(path, n)) = n
         /\ n < Len(path) => FirstBytes(path, n + 1) = Append(FirstBytes(path, n), path[n + 1])
         /\ FirstBytes(path, Len(path)) = path /\ FirstBytes(path, 0) = <<>>
<1> DEFINE f == FirstBytes(path, n)
<1>1. f \in Seq(PathByte) /\ Len(f) = n /\ \A j \in 1..n : f[j] = path[j]
  <2>1. \A j \in 1..n : path[j] \in PathByte
    OBVIOUS
  <2> QED BY <2>1 DEF FirstBytes
<1>2. FirstBytes(path, Len(path)) = path
  BY DEF FirstBytes
<1>3. FirstBytes(path, 0) = <<>>
  <2>1. 1..0 = {}
    OBVIOUS
  <2> QED BY <2>1 DEF FirstBytes
<1>4. ASSUME n < Len(path)
      PROVE  FirstBytes(path, n + 1) = Append(f, path[n + 1])
  <2> DEFINE g == FirstBytes(path, n + 1)
             a == Append(f, path[n + 1])
  <2>1. path[n + 1] \in PathByte /\ n + 1 \in Nat
    BY <1>4
  <2>2. g \in Seq(PathByte) /\ Len(g) = n + 1 /\ \A j \in 1..n + 1 : g[j] = path[j]
    <3>1. \A j \in 1..n + 1 : path[j] \in PathByte
      BY <1>4
    <3> QED BY <2>1, <3>1 DEF FirstBytes
  <2> HIDE DEF f, g
  <2>3. /\ a \in Seq(PathByte) /\ Len(a) = n + 1 /\ a[n + 1] = path[n + 1]
        /\ \A j \in 1..n : a[j] = f[j]
    BY <1>1, <2>1
  <2> HIDE DEF a
  <2>4. \A j \in 1..n + 1 : j \in 1..n \/ j = n + 1
    OBVIOUS
  <2>5. \A j \in 1..n + 1 : g[j] = a[j]
    BY <1>1, <2>2, <2>3, <2>4
  <2>6. Len(g) = Len(a) /\ \A j \in 1..Len(g) : g[j] = a[j]
    BY <2>2, <2>3, <2>5
  <2>7. g = a
    BY <2>2, <2>3, <2>6, SeqEqual
  <2> QED BY <2>7 DEF g, a
<1> QED BY <1>1, <1>2, <1>3, <1>4

\* The first n + 1 bytes lead where the first n do if the next one is a slash.
LEMMA SlashBehind ==
  ASSUME NEW path \in Seq(PathByte), NEW n \in 0..Len(path), n < Len(path), path[n + 1] = "/"
  PROVE  Place(FirstBytes(path, n + 1)) = Place(FirstBytes(path, n))
BY FirstBytesAre, PlaceSlash

\* The paths of the arguments.
LEMMA ArgsAre ==
  ASSUME NEW as \in MkdirArgs \cup {<<>>}
  PROVE  /\ Len(as) \in Nat /\ DOMAIN as = 1..Len(as)
         /\ \A k \in 1..Len(as) : /\ as[k] \in Seq(PathByte) /\ Len(as[k]) \in Nat
                                  /\ \A i \in 1..Len(as[k]) : as[k][i] # "nul"
<1>1. CASE as = <<>>
  BY <1>1
<1>2. CASE as \in MkdirArgs
  <2>1. as \in Seq(Seq(STRING)) /\ \A k \in 1..Len(as) : \A i \in 1..Len(as[k]) : as[k][i] # "nul"
    BY <1>2, MkdirAssumption
  <2> DEFINE A == STRING
             B == Seq(A)
  <2>2. as \in Seq(B)
    BY <2>1
  <2> HIDE DEF B
  <2>3. Len(as) \in Nat /\ DOMAIN as = 1..Len(as) /\ \A k \in 1..Len(as) : as[k] \in B
    BY <2>2, SequenceIs
  <2>4. \A k \in 1..Len(as) : as[k] \in Seq(PathByte)
    BY <2>3, BytesOfPath DEF B
  <2>5. \A k \in 1..Len(as) : Len(as[k]) \in Nat
    BY <2>3, SequenceIs DEF B
  <2> QED BY <2>1, <2>3, <2>4, <2>5
<1> QED BY <1>1, <1>2

\* An argument leaves its bytes, and behind them what was there.
LEMMA LeftStep ==
  ASSUME margs \in MkdirArgs \cup {<<>>}, NEW i \in Nat \ {0}
  PROVE  /\ Left(0, i) = "nul"
         /\ \A k \in 1..Len(margs) :
              Left(k, i) = IF i <= Len(margs[k]) THEN margs[k][i] ELSE Left(k - 1, i)
<1> DEFINE long(k) == {j \in 1..k : Len(margs[j]) >= i}
<1>1. Left(0, i) = "nul"
  BY DEF Left
<1>2. ASSUME NEW k \in 1..Len(margs)
      PROVE  Left(k, i) = IF i <= Len(margs[k]) THEN margs[k][i] ELSE Left(k - 1, i)
  <2>1. /\ k \in Nat /\ k - 1 \in Nat /\ \A j \in 1..k : Len(margs[j]) \in Nat
        /\ k \in 1..k
    BY ArgsAre
  <2>2. CASE i <= Len(margs[k])
    <3>1. k \in long(k) /\ \A h \in long(k) : h <= k
      BY <2>1, <2>2
    <3> DEFINE c == CHOOSE j \in long(k) : \A h \in long(k) : h <= j
    <3>2. c \in long(k) /\ \A h \in long(k) : h <= c
      BY <3>1
    <3>3. c \in 1..k
      BY <3>2
    <3>4. k <= c
      BY <3>1, <3>2
    <3>5. Left(k, i) = margs[c][i]
      BY <3>1 DEF Left
    <3> HIDE DEF c
    <3>6. c = k
      BY <3>3, <3>4, <2>1
    <3> QED BY <2>2, <3>5, <3>6
  <2>3. CASE ~ (i <= Len(margs[k]))
    <3>1. \A j : j \in long(k) <=> j \in long(k - 1)
      <4>1. \A j \in 1..k : j \in 1..k - 1 \/ j = k
        BY <2>1
      <4>2. \A j \in 1..k - 1 : j \in 1..k
        BY <2>1
      <4>3. ~ (Len(margs[k]) >= i)
        BY <2>1, <2>3
      <4> QED BY <4>1, <4>2, <4>3
    <3>2. long(k) = long(k - 1)
      BY <3>1
    <3> DEFINE most(S) == CHOOSE j \in S : \A h \in S : h <= j
               value(S) == IF S = {} THEN "nul" ELSE margs[most(S)][i]
    <3>3. Left(k, i) = value(long(k)) /\ Left(k - 1, i) = value(long(k - 1))
      BY Zenon DEF Left
    <3> HIDE DEF long, value
    <3>4. Left(k, i) = Left(k - 1, i)
      BY <3>2, <3>3
    <3> QED BY <2>3, <3>4
  <2> QED BY <2>2, <2>3
<1> QED BY <1>1, <1>2

----------------------------------------------------------------------------
(* The directories of a place.                                             *)

Tree(D, F) ==
  \A d \in D \cup F : /\ d \in Seq(Name) /\ d # <<>>
                      /\ SubSeq(d, 1, Len(d) - 1) \in {<<>>} \cup D

\* Whatever is there can be reached over directories.
LEMMA PrefixesReached ==
  ASSUME NEW D, NEW F, Tree(D, F), NEW place \in {<<>>} \cup D \cup F
  PROVE  \A p \in Prefixes(place) \ {<<>>} : p \in D \/ (p = place /\ p \in F)
<1>0. place \in Seq(Name)
  <2>1. <<>> \in Seq(Name)
    OBVIOUS
  <2> QED BY <2>1 DEF Tree
<1> DEFINE L == Len(place)
           S(l) == SubSeq(place, 1, l)
<1>1. L \in Nat
  BY <1>0
<1>2. \A l \in 0..L : S(l) \in Seq(Name) /\ Len(S(l)) = l
  <2> HIDE DEF Name
  <2> QED BY <1>0
<1>3. S(0) = <<>> /\ S(L) = place
  <2>1. S(0) = <<>>
    BY SubSeqEmpty
  <2>2. S(L) = place
    <3> HIDE DEF Name
    <3> QED BY <1>0, SubSeqFull
  <2> QED BY <2>1, <2>2
<1>4. \A l \in 1..L : S(l) # <<>>
  <2>1. \A l \in 1..L : l \in 0..L /\ l # 0
    BY <1>1
  <2>2. Len(<<>>) = 0
    OBVIOUS
  <2> HIDE DEF S, L
  <2> QED BY <1>2, <2>1, <2>2
<1>5. \A l \in 1..L : S(l) \in D \cup F => S(l - 1) \in {<<>>} \cup D
  <2> SUFFICES ASSUME NEW l \in 1..L, S(l) \in D \cup F PROVE S(l - 1) \in {<<>>} \cup D
    OBVIOUS
  <2>1. l \in 0..L /\ l - 1 \in 0..L /\ l \in Nat
    BY <1>1
  <2>2. Len(S(l)) = l
    BY <1>2, <2>1
  <2>3. SubSeq(S(l), 1, l - 1) \in {<<>>} \cup D
    <3> HIDE DEF S
    <3> QED BY <2>2 DEF Tree
  <2>4. SubSeq(S(l), 1, l - 1) = S(l - 1)
    <3>1. CASE l = 1
      <4>1. SubSeq(S(l), 1, 0) = <<>>
        BY SubSeqEmpty
      <4>2. l - 1 = 0
        BY <3>1
      <4> QED BY <1>3, <4>1, <4>2
    <3>2. CASE l # 1
      <4>1. l \in 1..Len(place) /\ 1 \in 1..Len(place) /\ l - 1 \in 1..l - 1 + 1 /\ 1 \in 1..l - 1 + 1
        BY <3>2, <1>1
      <4>2. 1 + 1 - 1 = 1 /\ 1 + (l - 1) - 1 = l - 1
        BY <2>1
      <4> HIDE DEF Name
      <4> QED BY <1>0, <4>1, <4>2, SubSeqOfSubSeq
    <3> QED BY <3>1, <3>2
  <2> QED BY <2>3, <2>4
<1> HIDE DEF S
<1> DEFINE T == {n \in Nat : n + 1 < L => S(L - 1 - n) \in D}
<1>6. 0 \in T
  <2> SUFFICES ASSUME 1 < L PROVE S(L - 1) \in D
    BY <1>1
  <2>1. L \in 1..L /\ L - 1 \in 1..L
    BY <1>1
  <2>2. place # <<>>
    BY <1>3, <1>4, <2>1
  <2> QED BY <1>3, <1>4, <1>5, <2>1, <2>2
<1>7. ASSUME NEW n \in Nat, n \in T PROVE n + 1 \in T
  <2>1. n + 1 \in Nat /\ (n + 1 < L => S(L - 1 - n) \in D)
    BY <1>7
  <2> SUFFICES ASSUME n + 1 + 1 < L PROVE S(L - 1 - (n + 1)) \in D
    BY <2>1
  <2>2. /\ n + 1 < L /\ L - 1 - n \in 1..L /\ L - 1 - (n + 1) \in 1..L
        /\ L - 1 - (n + 1) = (L - 1 - n) - 1
    BY <1>1
  <2>3. S((L - 1 - n) - 1) \in {<<>>} \cup D
    BY <1>5, <2>1, <2>2
  <2> QED BY <1>4, <2>2, <2>3
<1>8. \A n \in Nat : n \in T
  <2> HIDE DEF T
  <2> QED BY <1>6, <1>7, SetInduction
<1>9. \A l \in 1..L - 1 : S(l) \in D
  <2> SUFFICES ASSUME NEW l \in 1..L - 1 PROVE S(l) \in D
    OBVIOUS
  <2>1. L - 1 - l \in Nat /\ (L - 1 - l) + 1 < L /\ L - 1 - (L - 1 - l) = l
    BY <1>1
  <2> QED BY <1>8, <2>1
<1> SUFFICES ASSUME NEW p \in Prefixes(place), p # <<>> PROVE p \in D \/ (p = place /\ p \in F)
  OBVIOUS
<1>10. PICK l \in 0..L : p = S(l)
  BY DEF Prefixes, S
<1>11. l = 0 \/ l = L \/ l \in 1..L - 1
  BY <1>1
<1> QED BY <1>3, <1>9, <1>10, <1>11

\* A string is found in bytes.
LEMMA CStringFound ==
  ASSUME NEW bytes \in Seq(PathByte)
  PROVE  CString(bytes) \in Seq(PathByte)
<1> DEFINE L == Len(bytes)
           Z(k) == bytes[k] = "nul"
           E == {k \in Nat : k = L \/ (k < L /\ Z(k + 1))}
<1>1. L \in Nat
  OBVIOUS
<1>2. E \subseteq Nat /\ L \in E
  BY <1>1
<1>3. PICK x \in E : \A y \in E : x <= y
  <2> HIDE DEF E
  <2> QED BY <1>2, LeastNatural
<1> HIDE DEF L, Z
<1>4. x \in 0..L /\ (x < L => Z(x + 1))
  BY <1>1
<1>5. ASSUME NEW j \in 1..x PROVE ~ Z(j)
  <2>1. j - 1 \in Nat /\ ~ (x <= j - 1) /\ j - 1 < L /\ (j - 1) + 1 = j
    BY <1>1, <1>4
  <2>2. j - 1 \notin E
    BY <1>3, <2>1
  <2> QED BY <2>1, <2>2
<1>6. CString(bytes) = FirstBytes(bytes, x)
  BY <1>1, <1>4, <1>5, CStringIs DEF L, Z, FirstBytes
<1> QED BY <1>4, <1>6, FirstBytesAre DEF L

----------------------------------------------------------------------------
(* The buffer, the argument and what has been made.                        *)

Cut == mpc \in {"level", "makelevel", "slash"}
AtEnd == mpc \in {"last", "makelast", "return"}
Copying == mpc = "loop" \/ Cut \/ AtEnd
MkdirPcs == {"none", "main", "loop", "level", "makelevel", "slash", "last", "makelast",
             "return", "exit", "overrun"}
Reached(path) == Place(path) \in {<<>>} \cup mdirs \cup mfiles
Delivered(k) == Reached(CString(Meant(k)))
Arg == margs[marg]

MkdirStates ==
  /\ margs \in MkdirArgs \cup {<<>>} /\ marg \in Nat \ {0}
  /\ mpc \in MkdirPcs
  /\ mpc # "none" => mbuf \in [0..MkdirBuf - 1 -> PathByte]
  /\ Tree(mdirs, mfiles)

EarlierInv ==
  /\ mcode = 0 => \A k \in 1..Len(margs) : k < marg => Delivered(k)
  /\ mpc = "exit" /\ mcode = 0 => marg > Len(margs)
  /\ mpc = "main" => /\ marg <= Len(margs) + 1
                     /\ \A j \in 1..MkdirBuf : mbuf[j - 1] = Left(marg - 1, j)

\* b holds the first i bytes of the argument, a zero byte at gap, and behind them what
\* earlier arguments left.
Spelled(b, i, gap) ==
  \A j \in 1..MkdirBuf :
    b[j - 1] = IF j <= i THEN Arg[j] ELSE IF j = gap THEN "nul" ELSE Left(marg - 1, j)

PathInv ==
  Copying =>
    /\ marg <= Len(margs) /\ mi \in 0..Len(Arg) /\ mi <= MkdirBuf
    /\ mend <=> mi = 0 \/ Arg[mi] = "/"
    /\ Cut => /\ mi < Len(Arg) /\ mi < MkdirBuf /\ Arg[mi + 1] = "/"
              /\ Spelled(mbuf, mi, mi + 1)
    /\ ~ Cut => Spelled(mbuf, mi, 0)
    /\ AtEnd => mi = Len(Arg)

LevelInv ==
  /\ mpc = "loop" /\ mend /\ mret = 0 => Reached(FirstBytes(Arg, mi))
  /\ mpc = "slash" /\ mret = 0 => Reached(FirstBytes(Arg, mi))
  /\ mpc \in {"last", "makelast"} => ~ mend
  /\ mpc = "return" /\ mret = 0 => Delivered(marg)

MkdirInv == MkdirStates /\ EarlierInv /\ PathInv /\ LevelInv

\* A step of the composition, seen by mkdir.
LEMMA MkdirStepIs ==
  ASSUME [PNext]_progVars
  PROVE  [MkdirNext]_mkdirVars
BY DEF PNext, ProgramStep, OthersStep, Rest, progVars, NotEval, NotWc, NotMkdir, NotUtil,
   NotDev, NotLoader, NotGettext, MkdirNext

\* The current argument.
LEMMA ArgIs ==
  ASSUME MkdirStates, marg <= Len(margs)
  PROVE  /\ marg \in 1..Len(margs) /\ Arg \in Seq(PathByte) /\ Len(Arg) \in Nat
         /\ \A i \in 1..Len(Arg) : Arg[i] # "nul"
<1>1. margs \in MkdirArgs \cup {<<>>} /\ marg \in Nat \ {0}
  BY DEF MkdirStates
<1>2. Len(margs) \in Nat
  BY <1>1, ArgsAre
<1>3. marg \in 1..Len(margs)
  BY <1>1, <1>2
<1> QED BY <1>1, <1>3, ArgsAre DEF Arg

\* The byte at an index of the argument, zero only behind its end.
LEMMA ArgByteIs ==
  ASSUME MkdirStates, marg <= Len(margs), NEW k \in 0..Len(Arg)
  PROVE  /\ k < Len(Arg) => ArgByte(k) = Arg[k + 1] /\ ArgByte(k) # "nul"
         /\ ~ (k < Len(Arg)) => ArgByte(k) = "nul" /\ k = Len(Arg)
<1>1. Len(Arg) \in Nat /\ \A i \in 1..Len(Arg) : Arg[i] # "nul"
  BY ArgIs
<1>2. k < Len(Arg) => k + 1 \in 1..Len(Arg)
  BY <1>1
<1>3. ArgByte(k) = IF k < Len(Arg) THEN Arg[k + 1] ELSE "nul"
  BY DEF ArgByte, Arg
<1>4. ~ (k < Len(Arg)) => k = Len(Arg)
  BY <1>1
<1> QED BY <1>1, <1>2, <1>3, <1>4

\* What the arguments mean does not change.
LEMMA SameArgs ==
  ASSUME margs' = margs
  PROVE  /\ \A k, i : Left(k, i)' = Left(k, i)
         /\ \A k : Meant(k)' = Meant(k)
         /\ marg' = marg => Meant(marg)' = Meant(marg)
<1>1. \A k, i : Left(k, i)' = Left(k, i)
  BY DEF Left
<1>2. ASSUME NEW k PROVE Meant(k)' = Meant(k)
  <2>1. [i \in 1..MkdirBuf |-> Left(k, i)'] = [i \in 1..MkdirBuf |-> Left(k, i)]
    BY <1>1
  <2> QED BY <2>1 DEF Meant
<1>3. ASSUME marg' = marg PROVE Meant(marg)' = Meant(marg)
  <2>1. \A i : Left(marg, i)' = Left(marg, i)
    BY <1>3 DEF Left
  <2>2. [i \in 1..MkdirBuf |-> Left(marg, i)'] = [i \in 1..MkdirBuf |-> Left(marg, i)]
    BY <2>1
  <2> QED BY <1>3, <2>2 DEF Meant
<1> QED BY <1>1, <1>2, <1>3

\* Nothing is removed: what has been reached stays.
LEMMA StillThere ==
  ASSUME margs' = margs, mdirs \subseteq mdirs', mfiles' = mfiles
  PROVE  /\ \A p : Place(p) \in {<<>>} \cup mdirs \cup mfiles
                     => Place(p) \in {<<>>} \cup mdirs' \cup mfiles'
         /\ \A k : Delivered(k) => Delivered(k)'
         /\ marg' = marg /\ Delivered(marg) => Delivered(marg)'
<1>1. \A x : x \in {<<>>} \cup mdirs \cup mfiles => x \in {<<>>} \cup mdirs' \cup mfiles'
  OBVIOUS
<1>2. ASSUME NEW k, Delivered(k) PROVE Delivered(k)'
  <2>1. Meant(k)' = Meant(k)
    BY SameArgs
  <2>2. Place(CString(Meant(k))) \in {<<>>} \cup mdirs \cup mfiles
    BY <1>2 DEF Delivered, Reached
  <2>3. Place(CString(Meant(k)')) \in {<<>>} \cup mdirs' \cup mfiles'
    BY <1>1, <2>1, <2>2
  <2> QED BY <2>3 DEF Delivered, Reached
<1>3. ASSUME marg' = marg, Delivered(marg) PROVE Delivered(marg)'
  <2>1. Meant(marg)' = Meant(marg)
    BY <1>3, SameArgs
  <2>2. Place(CString(Meant(marg))) \in {<<>>} \cup mdirs \cup mfiles
    BY <1>3 DEF Delivered, Reached
  <2>3. Place(CString(Meant(marg)')) \in {<<>>} \cup mdirs' \cup mfiles'
    BY <1>1, <2>1, <2>2
  <2> QED BY <2>3 DEF Delivered, Reached
<1> QED BY <1>1, <1>2, <1>3

\* The buffer holds the same bytes of the same argument.
LEMMA StillCopied ==
  ASSUME margs' = margs, marg' = marg, NEW b, NEW i, NEW gap, Spelled(b, i, gap)
  PROVE  /\ Arg' = Arg
         /\ \A j \in 1..MkdirBuf :
              b[j - 1] = IF j <= i THEN Arg'[j] ELSE IF j = gap THEN "nul" ELSE Left(marg - 1, j)'
<1>1. Arg' = Arg
  BY DEF Arg
<1> QED BY <1>1, SameArgs DEF Spelled

\* The path in the buffer at a slash.
LEMMA LevelString ==
  ASSUME MkdirStates, PathInv, Cut
  PROVE  BufString = FirstBytes(Arg, mi) /\ BufString \in Seq(PathByte)
<1> DEFINE bytes == [k \in 1..MkdirBuf |-> mbuf[k - 1]]
<1>1. /\ marg <= Len(margs) /\ mi \in 0..Len(Arg) /\ mi < MkdirBuf /\ Spelled(mbuf, mi, mi + 1)
      /\ mi < Len(Arg)
  BY DEF PathInv, Copying
<1>2. /\ Arg \in Seq(PathByte) /\ Len(Arg) \in Nat /\ MkdirBuf \in Nat
      /\ \A i \in 1..Len(Arg) : Arg[i] # "nul"
  BY <1>1, ArgIs, MkdirAssumption
<1>3. Len(bytes) = MkdirBuf
  BY <1>2
<1>4. \A j \in 1..mi : j \in 1..MkdirBuf /\ j <= mi /\ j \in 1..Len(Arg)
  BY <1>1, <1>2
<1>5. mi + 1 \in 1..MkdirBuf /\ ~ (mi + 1 <= mi) /\ mi \in 0..MkdirBuf
  BY <1>1, <1>2
<1>6. \A j \in 1..mi : bytes[j] = Arg[j]
  BY <1>1, <1>4 DEF Spelled
<1>7. bytes[mi + 1] = "nul"
  BY <1>1, <1>5 DEF Spelled
<1> HIDE DEF bytes
<1>8. \A j \in 1..mi : bytes[j] # "nul"
  BY <1>2, <1>4, <1>6
<1>9. CString(bytes) = [j \in 1..mi |-> bytes[j]]
  BY <1>2, <1>3, <1>5, <1>7, <1>8, CStringIs
<1>10. CString(bytes) = FirstBytes(Arg, mi)
  BY <1>6, <1>9 DEF FirstBytes
<1>11. FirstBytes(Arg, mi) \in Seq(PathByte)
  BY <1>1, <1>2, FirstBytesAre
<1> QED BY <1>10, <1>11 DEF BufString, bytes

\* The path in the buffer at the last level.
LEMMA LastString ==
  ASSUME MkdirStates, PathInv, AtEnd, ~ mend
  PROVE  BufString = CString(Meant(marg)) /\ BufString \in Seq(PathByte)
<1> DEFINE bytes == [k \in 1..MkdirBuf |-> mbuf[k - 1]]
           L == Len(Arg)
<1>1. /\ marg <= Len(margs) /\ mi = L /\ Spelled(mbuf, mi, 0)
      /\ ~ (mi = 0 \/ Arg[mi] = "/") /\ mpc # "none"
  BY DEF PathInv, Copying, AtEnd, Cut
<1>2. marg \in 1..Len(margs) /\ MkdirBuf \in Nat /\ margs \in MkdirArgs \cup {<<>>}
  BY <1>1, ArgIs, MkdirAssumption DEF MkdirStates
<1>3. Meant(marg) = [i \in 1..MkdirBuf |-> Left(marg, i)]
  <2>1. Len(<<>>) = 0
    OBVIOUS
  <2>2. Arg # <<>> /\ Last(Arg) # "/"
    BY <1>1, <2>1 DEF Last
  <2> QED BY <2>2 DEF Meant, Arg
<1>4. ASSUME NEW i \in 1..MkdirBuf PROVE Left(marg, i) = bytes[i]
  <2>1. i \in Nat \ {0} /\ i # 0
    OBVIOUS
  <2>2. Left(marg, i) = IF i <= L THEN Arg[i] ELSE Left(marg - 1, i)
    BY <1>2, <2>1, LeftStep DEF Arg
  <2>3. mbuf[i - 1] = IF i <= L THEN Arg[i] ELSE Left(marg - 1, i)
    BY <1>1, <2>1 DEF Spelled
  <2> HIDE DEF L
  <2> QED BY <2>2, <2>3
<1>5. Meant(marg) = bytes
  BY <1>3, <1>4
<1>6. bytes \in Seq(PathByte)
  <2>1. mbuf \in [0..MkdirBuf - 1 -> PathByte]
    BY <1>1 DEF MkdirStates
  <2>2. \A k \in 1..MkdirBuf : k - 1 \in 0..MkdirBuf - 1
    BY <1>2
  <2>3. \A k \in 1..MkdirBuf : mbuf[k - 1] \in PathByte
    BY <2>1, <2>2
  <2> QED BY <1>2, <2>3
<1> QED BY <1>5, <1>6, CStringFound DEF BufString

\* An argument that ends in a slash, or is empty, is its own path.
LEMMA EndedString ==
  ASSUME MkdirStates, PathInv, mi = Len(Arg), marg <= Len(margs), mi = 0 \/ Arg[mi] = "/"
  PROVE  CString(Meant(marg)) = FirstBytes(Arg, mi)
<1>1. /\ Arg \in Seq(PathByte) /\ Len(Arg) \in Nat /\ \A i \in 1..Len(Arg) : Arg[i] # "nul"
  BY ArgIs
<1>2. Len(Arg) = 0 => Arg = <<>>
  BY <1>1
<1>3. Meant(marg) = Arg
  BY <1>2 DEF Meant, Arg, Last
<1>4. Len(Arg) \in 0..Len(Arg) /\ ~ (Len(Arg) < Len(Arg))
  BY <1>1
<1>5. CString(Arg) = [j \in 1..Len(Arg) |-> Arg[j]]
  BY <1>1, <1>4, CStringIs
<1> QED BY <1>3, <1>5 DEF FirstBytes

----------------------------------------------------------------------------
(* Every step keeps the invariant.                                         *)

\* What was done for the arguments before stays done.
LEMMA EarlierKept ==
  ASSUME EarlierInv, margs' = margs, marg' = marg, mcode' = mcode, mdirs \subseteq mdirs',
         mfiles' = mfiles, mpc' \notin {"main", "exit"}
  PROVE  EarlierInv'
<1>1. mcode' = 0 => \A k \in 1..Len(margs') : k < marg' => Delivered(k)'
  BY StillThere DEF EarlierInv
<1> QED BY <1>1 DEF EarlierInv

\* A step that makes nothing and writes bytes to the buffer.
LEMMA StatesKept ==
  ASSUME MkdirStates, margs' = margs, marg' = marg, mdirs' = mdirs, mfiles' = mfiles,
         mpc' \in MkdirPcs, mbuf' \in [0..MkdirBuf - 1 -> PathByte]
  PROVE  MkdirStates'
BY DEF MkdirStates, MkdirPcs

\* The buffer is left alone.
LEMMA CopyKept ==
  ASSUME PathInv, Copying, margs' = margs, marg' = marg, mi' = mi, mbuf' = mbuf,
         mend' = mend, Cut' <=> Cut, AtEnd' => mi = Len(Arg)
  PROVE  PathInv'
<1>1. Arg' = Arg
  BY DEF Arg
<1>2. ASSUME NEW g, Spelled(mbuf, mi, g)
      PROVE  \A j \in 1..MkdirBuf : mbuf'[j - 1] = IF j <= mi' THEN Arg'[j]
                                                   ELSE IF j = g THEN "nul" ELSE Left(marg - 1, j)'
  BY <1>2, StillCopied
<1>3. /\ marg <= Len(margs) /\ mi \in 0..Len(Arg) /\ mi <= MkdirBuf
      /\ mend <=> mi = 0 \/ Arg[mi] = "/"
      /\ Cut => /\ mi < Len(Arg) /\ mi < MkdirBuf /\ Arg[mi + 1] = "/"
                /\ Spelled(mbuf, mi, mi + 1)
      /\ ~ Cut => Spelled(mbuf, mi, 0)
  BY DEF PathInv, Copying
<1>4. Cut' => Spelled(mbuf, mi, mi + 1)'
  <2> SUFFICES ASSUME Cut' PROVE Spelled(mbuf, mi, mi + 1)'
    OBVIOUS
  <2>1. Spelled(mbuf, mi, mi + 1)
    BY <1>3
  <2> QED BY <1>2, <2>1 DEF Spelled
<1>5. ~ Cut' => Spelled(mbuf, mi, 0)'
  <2> SUFFICES ASSUME ~ Cut' PROVE Spelled(mbuf, mi, 0)'
    OBVIOUS
  <2>1. Spelled(mbuf, mi, 0)
    BY <1>3
  <2> QED BY <1>2, <2>1 DEF Spelled
<1> QED BY <1>1, <1>3, <1>4, <1>5 DEF PathInv

\* One byte written to the buffer.
LEMMA BufKept ==
  ASSUME MkdirStates, mpc # "none"
  PROVE  /\ mbuf \in [0..MkdirBuf - 1 -> PathByte]
         /\ \A k \in 0..MkdirBuf - 1 : \A v \in PathByte :
              /\ [mbuf EXCEPT ![k] = v] \in [0..MkdirBuf - 1 -> PathByte]
              /\ \A j \in 1..MkdirBuf : [mbuf EXCEPT ![k] = v][j - 1] = IF j = k + 1 THEN v ELSE mbuf[j - 1]
<1>1. mbuf \in [0..MkdirBuf - 1 -> PathByte]
  BY DEF MkdirStates
<1>2. MkdirBuf \in Nat
  BY MkdirAssumption
<1>3. ASSUME NEW k \in 0..MkdirBuf - 1, NEW v \in PathByte
      PROVE  /\ [mbuf EXCEPT ![k] = v] \in [0..MkdirBuf - 1 -> PathByte]
             /\ \A j \in 1..MkdirBuf : [mbuf EXCEPT ![k] = v][j - 1] = IF j = k + 1 THEN v ELSE mbuf[j - 1]
  <2>1. [mbuf EXCEPT ![k] = v] \in [0..MkdirBuf - 1 -> PathByte]
    BY <1>1
  <2>2. ASSUME NEW j \in 1..MkdirBuf
        PROVE  [mbuf EXCEPT ![k] = v][j - 1] = IF j = k + 1 THEN v ELSE mbuf[j - 1]
    <3>1. j - 1 \in 0..MkdirBuf - 1 /\ (j - 1 = k <=> j = k + 1)
      BY <1>2
    <3> QED BY <1>1, <3>1
  <2> QED BY <2>1, <2>2
<1> QED BY <1>1, <1>3

\* mkdir without an argument.
LEMMA UsageKeeps == ASSUME MkdirInv, MkdirUsage PROVE MkdirInv'
<1>1. /\ mpc = "main" /\ mcode' = 1 /\ mpc' = "exit" /\ margs' = margs /\ marg' = marg
      /\ mbuf' = mbuf /\ mdirs' = mdirs /\ mfiles' = mfiles
  BY DEF MkdirUsage
<1>2. MkdirStates'
  BY <1>1 DEF MkdirInv, MkdirStates, MkdirPcs
<1>3. EarlierInv' /\ PathInv' /\ LevelInv'
  BY <1>1 DEF EarlierInv, PathInv, LevelInv, Copying, Cut, AtEnd
<1> QED BY <1>2, <1>3 DEF MkdirInv

\* The argument does not fit.
LEMMA OverrunKeeps == ASSUME MkdirInv, MkdirOverrun PROVE MkdirInv'
<1>1. /\ mpc = "loop" /\ mcode' = mcode /\ mpc' = "overrun" /\ margs' = margs /\ marg' = marg
      /\ mbuf' = mbuf /\ mdirs' = mdirs /\ mfiles' = mfiles
  BY DEF MkdirOverrun
<1>2. MkdirStates'
  BY <1>1 DEF MkdirInv, MkdirStates, MkdirPcs
<1>3. EarlierInv'
  BY <1>1, EarlierKept DEF MkdirInv
<1>4. PathInv' /\ LevelInv'
  BY <1>1 DEF PathInv, LevelInv, Copying, Cut, AtEnd
<1> QED BY <1>2, <1>3, <1>4 DEF MkdirInv

\* An argument is begun.
LEMMA CallKeeps == ASSUME MkdirInv, MkdirCall PROVE MkdirInv'
<1>1. /\ mpc = "main" /\ marg \in DOMAIN margs /\ margs' = margs /\ marg' = marg
      /\ mcode' = mcode /\ mdirs' = mdirs /\ mfiles' = mfiles
      /\ mi' = IF ArgByte(0) = "/" THEN 1 ELSE 0
      /\ mbuf' = IF ArgByte(0) = "/" THEN [mbuf EXCEPT ![0] = "/"] ELSE mbuf
      /\ mend' = TRUE /\ mret' = 0 /\ mpc' = "loop"
  BY DEF MkdirCall
<1>2. MkdirStates /\ EarlierInv /\ margs \in MkdirArgs \cup {<<>>}
  BY DEF MkdirInv, MkdirStates
<1>3. marg <= Len(margs) /\ marg \in 1..Len(margs)
  <2>1. marg \in 1..Len(margs) /\ Len(margs) \in Nat
    BY <1>1, <1>2, ArgsAre
  <2> QED BY <2>1
<1>4. Arg \in Seq(PathByte) /\ Len(Arg) \in Nat /\ MkdirBuf \in Nat \ {0}
  BY <1>2, <1>3, ArgIs, MkdirAssumption
<1>5. /\ 0 < Len(Arg) => ArgByte(0) = Arg[1]
      /\ ~ (0 < Len(Arg)) => ArgByte(0) = "nul"
  BY <1>2, <1>3, <1>4, ArgByteIs
<1>6. Arg' = Arg
  BY <1>1 DEF Arg
<1>7. \A j \in 1..MkdirBuf : mbuf[j - 1] = Left(marg - 1, j)
  BY <1>1, <1>2 DEF EarlierInv
<1>8. \A k, j : Left(k, j)' = Left(k, j)
  BY <1>1, SameArgs
<1>9. EarlierInv'
  BY <1>1, <1>2, EarlierKept
<1>10. CASE ArgByte(0) = "/"
  <2>1. mi' = 1 /\ mbuf' = [mbuf EXCEPT ![0] = "/"] /\ 0 < Len(Arg) /\ Arg[1] = "/"
    BY <1>1, <1>5, <1>10
  <2>2. 0 \in 0..MkdirBuf - 1 /\ "/" \in PathByte /\ 0 + 1 = 1
    BY <1>4 DEF PathByte
  <2>3. /\ mbuf' \in [0..MkdirBuf - 1 -> PathByte]
        /\ \A j \in 1..MkdirBuf : mbuf'[j - 1] = IF j = 1 THEN "/" ELSE mbuf[j - 1]
    BY <1>1, <1>2, <2>1, <2>2, BufKept
  <2>4. MkdirStates'
    BY <1>1, <1>2, <2>3, StatesKept DEF MkdirPcs
  <2>5. ASSUME NEW j \in 1..MkdirBuf
        PROVE  mbuf'[j - 1] = IF j <= 1 THEN Arg[j] ELSE IF j = 0 THEN "nul" ELSE Left(marg - 1, j)
    <3>1. (j <= 1 <=> j = 1) /\ j # 0
      OBVIOUS
    <3>2. mbuf'[j - 1] = IF j = 1 THEN "/" ELSE Left(marg - 1, j)
      BY <1>7, <2>3
    <3> QED BY <2>1, <3>1, <3>2
  <2>6. Spelled(mbuf, mi, 0)'
    BY <1>1, <1>6, <1>8, <2>1, <2>5 DEF Spelled
  <2>7. 1 \in 0..Len(Arg) /\ 1 <= MkdirBuf
    BY <1>4, <2>1
  <2>8. PathInv'
    BY <1>1, <1>3, <1>6, <2>1, <2>6, <2>7 DEF PathInv, Copying, Cut, AtEnd
  <2>9. Place(FirstBytes(Arg, 1)) = <<>>
    <3>1. 0 \in 0..Len(Arg) /\ 0 + 1 = 1
      BY <1>4
    <3> QED BY <1>4, <2>1, <3>1, SlashBehind, FirstBytesAre, PlaceEmpty
  <2>10. LevelInv'
    BY <1>1, <1>6, <2>1, <2>9 DEF LevelInv, Reached
  <2> QED BY <1>9, <2>4, <2>8, <2>10 DEF MkdirInv
<1>11. CASE ArgByte(0) # "/"
  <2>1. mi' = 0 /\ mbuf' = mbuf
    BY <1>1, <1>11
  <2>2. MkdirStates'
    BY <1>1, <1>2, <2>1, BufKept, StatesKept DEF MkdirPcs
  <2>3. \A j \in 1..MkdirBuf : ~ (j <= 0) /\ j # 0
    OBVIOUS
  <2>4. Spelled(mbuf, mi, 0)'
    BY <1>1, <1>7, <1>8, <2>1, <2>3 DEF Spelled
  <2>5. 0 \in 0..Len(Arg) /\ 0 <= MkdirBuf
    BY <1>4
  <2>6. PathInv'
    BY <1>1, <1>3, <1>6, <2>1, <2>4, <2>5 DEF PathInv, Copying, Cut, AtEnd
  <2>7. Place(FirstBytes(Arg, 0)) = <<>>
    BY <1>4, <2>5, FirstBytesAre, PlaceEmpty
  <2>8. LevelInv'
    BY <1>1, <1>6, <2>1, <2>7 DEF LevelInv, Reached
  <2> QED BY <1>9, <2>2, <2>6, <2>8 DEF MkdirInv
<1> QED BY <1>10, <1>11

\* One more byte of the argument is in the buffer, over the zero byte if there is one.
LEMMA ByteWritten ==
  ASSUME MkdirStates, mpc # "none", marg <= Len(margs), mi \in 0..Len(Arg), mi < Len(Arg),
         mi < MkdirBuf, NEW g \in {0, mi + 1}, Spelled(mbuf, mi, g),
         mbuf' = [mbuf EXCEPT ![mi] = Arg[mi + 1]], mi' = mi + 1, margs' = margs, marg' = marg
  PROVE  mbuf' \in [0..MkdirBuf - 1 -> PathByte] /\ Spelled(mbuf, mi, 0)'
<1>1. Arg \in Seq(PathByte) /\ Len(Arg) \in Nat /\ MkdirBuf \in Nat
  BY ArgIs, MkdirAssumption
<1>2. mi \in 0..MkdirBuf - 1 /\ mi + 1 \in 1..Len(Arg) /\ mi \in Nat
  BY <1>1
<1>3. Arg[mi + 1] \in PathByte
  BY <1>1, <1>2
<1>4. /\ mbuf' \in [0..MkdirBuf - 1 -> PathByte]
      /\ \A j \in 1..MkdirBuf : mbuf'[j - 1] = IF j = mi + 1 THEN Arg[mi + 1] ELSE mbuf[j - 1]
  BY <1>2, <1>3, BufKept
<1>5. ASSUME NEW j \in 1..MkdirBuf
      PROVE  mbuf'[j - 1] = IF j <= mi + 1 THEN Arg[j] ELSE IF j = 0 THEN "nul" ELSE Left(marg - 1, j)
  <2>1. (j <= mi + 1 <=> j <= mi \/ j = mi + 1) /\ j # 0 /\ (j = g => j = mi + 1)
    BY <1>2
  <2>2. mbuf[j - 1] = IF j <= mi THEN Arg[j] ELSE IF j = g THEN "nul" ELSE Left(marg - 1, j)
    BY DEF Spelled
  <2>3. CASE j = mi + 1
    BY <1>4, <2>1, <2>3
  <2>4. CASE j # mi + 1
    BY <1>4, <2>1, <2>2, <2>4
  <2> QED BY <2>3, <2>4
<1>6. Arg' = Arg /\ \A k, j : Left(k, j)' = Left(k, j)
  BY SameArgs DEF Arg
<1> QED BY <1>4, <1>5, <1>6 DEF Spelled

\* A byte of a name.
LEMMA CharKeeps == ASSUME MkdirInv, MkdirChar PROVE MkdirInv'
<1>1. /\ mpc = "loop" /\ mi < MkdirBuf /\ ArgByte(mi) # "nul" /\ ArgByte(mi) # "/"
      /\ mbuf' = [mbuf EXCEPT ![mi] = ArgByte(mi)] /\ mend' = FALSE /\ mi' = mi + 1
      /\ margs' = margs /\ marg' = marg /\ mcode' = mcode /\ mdirs' = mdirs /\ mfiles' = mfiles
      /\ mpc' = mpc
  BY DEF MkdirChar
<1>2. MkdirStates /\ EarlierInv
  BY DEF MkdirInv
<1>3. marg <= Len(margs) /\ mi \in 0..Len(Arg) /\ Spelled(mbuf, mi, 0)
  BY <1>1 DEF MkdirInv, PathInv, Copying, Cut
<1>4. mi < Len(Arg) /\ ArgByte(mi) = Arg[mi + 1]
  BY <1>1, <1>2, <1>3, ArgByteIs
<1>5. mbuf' \in [0..MkdirBuf - 1 -> PathByte] /\ Spelled(mbuf, mi, 0)'
  BY <1>1, <1>2, <1>3, <1>4, ByteWritten
<1>6. MkdirStates' /\ EarlierInv'
  BY <1>1, <1>2, <1>5, StatesKept, EarlierKept DEF MkdirPcs
<1>7. Arg' = Arg
  BY <1>1 DEF Arg
<1>8. mi + 1 \in 0..Len(Arg) /\ mi + 1 <= MkdirBuf /\ mi + 1 # 0
  <2>1. Len(Arg) \in Nat /\ MkdirBuf \in Nat
    BY <1>2, <1>3, ArgIs, MkdirAssumption
  <2> QED BY <1>1, <1>3, <1>4, <2>1
<1>9. PathInv'
  BY <1>1, <1>3, <1>4, <1>5, <1>7, <1>8 DEF PathInv, Copying, Cut, AtEnd
<1>10. LevelInv'
  BY <1>1 DEF LevelInv
<1> QED BY <1>6, <1>9, <1>10 DEF MkdirInv

\* A slash: the string in the buffer ends here for the time being.
LEMMA SlashKeeps == ASSUME MkdirInv, MkdirSlash PROVE MkdirInv'
<1>1. /\ mpc = "loop" /\ mi < MkdirBuf /\ ArgByte(mi) = "/"
      /\ mbuf' = [mbuf EXCEPT ![mi] = "nul"] /\ mend' = mend /\ mi' = mi
      /\ margs' = margs /\ marg' = marg /\ mcode' = mcode /\ mdirs' = mdirs /\ mfiles' = mfiles
      /\ mpc' = "level"
  BY DEF MkdirSlash
<1>2. MkdirStates /\ EarlierInv
  BY DEF MkdirInv
<1>3. /\ marg <= Len(margs) /\ mi \in 0..Len(Arg) /\ Spelled(mbuf, mi, 0)
      /\ mend <=> mi = 0 \/ Arg[mi] = "/"
  BY <1>1 DEF MkdirInv, PathInv, Copying, Cut
<1>4. mi < Len(Arg) /\ Arg[mi + 1] = "/"
  BY <1>1, <1>2, <1>3, ArgByteIs
<1>5. mi \in 0..MkdirBuf - 1 /\ mi <= MkdirBuf /\ "nul" \in PathByte
  <2>1. Len(Arg) \in Nat /\ MkdirBuf \in Nat
    BY <1>2, <1>3, ArgIs, MkdirAssumption
  <2> QED BY <1>1, <1>3, <2>1 DEF PathByte
<1>6. /\ mbuf' \in [0..MkdirBuf - 1 -> PathByte]
      /\ \A j \in 1..MkdirBuf : mbuf'[j - 1] = IF j = mi + 1 THEN "nul" ELSE mbuf[j - 1]
  BY <1>1, <1>2, <1>5, BufKept
<1>7. MkdirStates' /\ EarlierInv'
  BY <1>1, <1>2, <1>6, StatesKept, EarlierKept DEF MkdirPcs
<1>8. Arg' = Arg /\ \A k, j : Left(k, j)' = Left(k, j)
  BY <1>1, SameArgs DEF Arg
<1>9. ASSUME NEW j \in 1..MkdirBuf
      PROVE  mbuf'[j - 1] = IF j <= mi THEN Arg[j] ELSE IF j = mi + 1 THEN "nul" ELSE Left(marg - 1, j)
  <2>1. (j <= mi => j # mi + 1) /\ j # 0
    BY <1>5
  <2>2. mbuf[j - 1] = IF j <= mi THEN Arg[j] ELSE IF j = 0 THEN "nul" ELSE Left(marg - 1, j)
    BY <1>3 DEF Spelled
  <2> QED BY <1>6, <2>1, <2>2
<1>10. Spelled(mbuf, mi, mi + 1)'
  BY <1>1, <1>8, <1>9 DEF Spelled
<1>11. PathInv'
  BY <1>1, <1>3, <1>4, <1>5, <1>8, <1>10 DEF PathInv, Copying, Cut, AtEnd
<1>12. LevelInv'
  BY <1>1 DEF LevelInv
<1> QED BY <1>7, <1>11, <1>12 DEF MkdirInv

\* The slash takes the place of the zero byte.
LEMMA NextByteKeeps == ASSUME MkdirInv, MkdirNextByte PROVE MkdirInv'
<1>1. /\ mpc = "slash" /\ mbuf' = [mbuf EXCEPT ![mi] = "/"] /\ mend' = TRUE /\ mi' = mi + 1
      /\ margs' = margs /\ marg' = marg /\ mcode' = mcode /\ mdirs' = mdirs /\ mfiles' = mfiles
      /\ mret' = mret /\ mpc' = "loop"
  BY DEF MkdirNextByte
<1>2. MkdirStates /\ EarlierInv
  BY DEF MkdirInv
<1>3. /\ marg <= Len(margs) /\ mi \in 0..Len(Arg) /\ Spelled(mbuf, mi, mi + 1)
      /\ mi < Len(Arg) /\ mi < MkdirBuf /\ Arg[mi + 1] = "/"
  BY <1>1 DEF MkdirInv, PathInv, Copying, Cut
<1>4. mbuf' \in [0..MkdirBuf - 1 -> PathByte] /\ Spelled(mbuf, mi, 0)'
  BY <1>1, <1>2, <1>3, ByteWritten
<1>5. MkdirStates' /\ EarlierInv'
  BY <1>1, <1>2, <1>4, StatesKept, EarlierKept DEF MkdirPcs
<1>6. Arg' = Arg
  BY <1>1 DEF Arg
<1>7. mi + 1 \in 0..Len(Arg) /\ mi + 1 <= MkdirBuf
  <2>1. Len(Arg) \in Nat /\ MkdirBuf \in Nat
    BY <1>2, <1>3, ArgIs, MkdirAssumption
  <2> QED BY <1>1, <1>3, <2>1
<1>8. PathInv'
  BY <1>1, <1>3, <1>4, <1>6, <1>7 DEF PathInv, Copying, Cut, AtEnd
<1>9. Place(FirstBytes(Arg, mi + 1)) = Place(FirstBytes(Arg, mi))
  BY <1>2, <1>3, ArgIs, SlashBehind
<1>10. mret = 0 => Place(FirstBytes(Arg, mi + 1)) \in {<<>>} \cup mdirs \cup mfiles
  BY <1>1, <1>9 DEF MkdirInv, LevelInv, Reached
<1>11. LevelInv'
  BY <1>1, <1>6, <1>10 DEF LevelInv, Reached
<1> QED BY <1>5, <1>8, <1>11 DEF MkdirInv

\* The zero byte of the argument.
LEMMA LastLevelKeeps == ASSUME MkdirInv, LastLevel PROVE MkdirInv'
<1>1. /\ mpc = "loop" /\ ArgByte(mi) = "nul" /\ mpc' = IF mend THEN "return" ELSE "last"
      /\ margs' = margs /\ marg' = marg /\ mcode' = mcode /\ mdirs' = mdirs /\ mfiles' = mfiles
      /\ mi' = mi /\ mbuf' = mbuf /\ mend' = mend /\ mret' = mret
  BY DEF LastLevel
<1>2. MkdirStates /\ EarlierInv /\ PathInv
  BY DEF MkdirInv
<1>3. marg <= Len(margs) /\ mi \in 0..Len(Arg) /\ (mend <=> mi = 0 \/ Arg[mi] = "/")
  BY <1>1, <1>2 DEF PathInv, Copying, Cut
<1>4. mi = Len(Arg)
  BY <1>1, <1>2, <1>3, ArgByteIs
<1>5. mpc' \in {"return", "last"} /\ (mend <=> mpc' = "return")
  BY <1>1
<1>6. MkdirStates' /\ EarlierInv'
  BY <1>1, <1>2, <1>5, BufKept, StatesKept, EarlierKept DEF MkdirPcs
<1>7. PathInv'
  <2>1. Copying /\ ~ Cut /\ ~ Cut'
    BY <1>1, <1>5 DEF Copying, Cut
  <2> QED BY <1>1, <1>2, <1>4, <2>1, CopyKept
<1>8. mend /\ mret = 0 => Delivered(marg)
  <2>1. mend => CString(Meant(marg)) = FirstBytes(Arg, mi)
    BY <1>2, <1>3, <1>4, EndedString
  <2> QED BY <1>1, <2>1 DEF MkdirInv, LevelInv, Delivered, Reached
<1>9. Delivered(marg) => Delivered(marg)'
  BY <1>1, StillThere
<1>10. LevelInv'
  <2>1. mpc' = "return" /\ mret' = 0 => Delivered(marg)'
    BY <1>1, <1>5, <1>8, <1>9
  <2> QED BY <1>1, <1>5, <2>1 DEF LevelInv
<1> QED BY <1>6, <1>7, <1>10 DEF MkdirInv

\* The path can be opened.
LEMMA OpensKeeps == ASSUME MkdirInv, MkdirOpens PROVE MkdirInv'
<1>1. /\ mpc \in {"level", "last"} /\ Opens(BufString)
      /\ mpc' = IF mpc = "level" THEN "slash" ELSE "return"
      /\ margs' = margs /\ marg' = marg /\ mcode' = mcode /\ mdirs' = mdirs /\ mfiles' = mfiles
      /\ mi' = mi /\ mbuf' = mbuf /\ mend' = mend /\ mret' = mret
  BY DEF MkdirOpens
<1>2. MkdirStates /\ EarlierInv /\ PathInv /\ mpc # "none"
  BY <1>1 DEF MkdirInv
<1>3. Place(BufString) \in {<<>>} \cup mdirs \cup mfiles
  BY <1>1 DEF Opens, IsDir
<1>4. MkdirStates' /\ EarlierInv'
  BY <1>1, <1>2, BufKept, StatesKept, EarlierKept DEF MkdirPcs
<1>5. PathInv'
  <2>1. Copying /\ (Cut' <=> Cut) /\ (AtEnd' <=> AtEnd)
    BY <1>1 DEF Copying, Cut, AtEnd
  <2>2. AtEnd => mi = Len(Arg)
    BY <1>2 DEF PathInv, Copying
  <2> QED BY <1>1, <1>2, <2>1, <2>2, CopyKept
<1>6. CASE mpc = "level"
  <2>1. Reached(FirstBytes(Arg, mi))
    BY <1>2, <1>3, <1>6, LevelString DEF Cut, Reached
  <2>2. Arg' = Arg
    BY <1>1 DEF Arg
  <2>3. LevelInv'
    BY <1>1, <1>6, <2>1, <2>2 DEF LevelInv, Reached
  <2> QED BY <1>4, <1>5, <2>3 DEF MkdirInv
<1>7. CASE mpc = "last"
  <2>1. ~ mend
    BY <1>7 DEF MkdirInv, LevelInv
  <2>2. Delivered(marg)
    BY <1>2, <1>3, <1>7, <2>1, LastString DEF AtEnd, Delivered, Reached
  <2>3. Delivered(marg)'
    BY <1>1, <2>2, StillThere
  <2>4. LevelInv'
    BY <1>1, <1>7, <2>3 DEF LevelInv
  <2> QED BY <1>4, <1>5, <2>4 DEF MkdirInv
<1> QED BY <1>1, <1>6, <1>7

\* The call fails.
LEMMA CannotKeeps == ASSUME MkdirInv, MkdirCannotOpen \/ MkdirCannotMake PROVE MkdirInv'
<1>1. /\ \/ mpc \in {"level", "last"} /\ mpc' = IF mpc = "level" THEN "makelevel" ELSE "makelast"
         \/ /\ mpc \in {"makelevel", "makelast"} /\ mret' = 1
            /\ mpc' = IF mpc = "makelevel" THEN "slash" ELSE "return"
      /\ margs' = margs /\ marg' = marg /\ mcode' = mcode /\ mdirs' = mdirs /\ mfiles' = mfiles
      /\ mi' = mi /\ mbuf' = mbuf /\ mend' = mend
  BY DEF MkdirCannotOpen, MkdirCannotMake
<1>2. MkdirStates /\ EarlierInv /\ PathInv /\ mpc # "none"
  BY <1>1 DEF MkdirInv
<1>3. mpc' \in {"makelevel", "makelast", "slash", "return"}
  BY <1>1
<1>4. MkdirStates' /\ EarlierInv'
  BY <1>1, <1>2, <1>3, BufKept, StatesKept, EarlierKept DEF MkdirPcs
<1>5. PathInv'
  <2>1. Copying /\ (Cut' <=> Cut) /\ (AtEnd' <=> AtEnd)
    BY <1>1 DEF Copying, Cut, AtEnd
  <2>2. AtEnd => mi = Len(Arg)
    BY <1>2 DEF PathInv, Copying
  <2> QED BY <1>1, <1>2, <2>1, <2>2, CopyKept
<1>6. LevelInv'
  <2>1. mpc' = "makelast" => ~ mend
    BY <1>1 DEF MkdirInv, LevelInv
  <2>2. mpc' \in {"slash", "return"} => mret' = 1
    BY <1>1
  <2> QED BY <1>1, <1>3, <2>1, <2>2 DEF LevelInv
<1> QED BY <1>4, <1>5, <1>6 DEF MkdirInv

\* A directory is made in one that is there.
LEMMA TreeGrows ==
  ASSUME Tree(mdirs, mfiles), NEW d \in Seq(Name), d # <<>>, ParentIsDir(d),
         mdirs' = mdirs \cup {d}, mfiles' = mfiles
  PROVE  Tree(mdirs, mfiles)' /\ mdirs \subseteq mdirs'
BY DEF Tree, ParentIsDir, IsDir

\* The directory is made.
LEMMA MakesKeeps == ASSUME MkdirInv, MkdirMakes PROVE MkdirInv'
<1>1. /\ mpc \in {"makelevel", "makelast"} /\ CanMake(BufString)
      /\ mpc' = IF mpc = "makelevel" THEN "slash" ELSE "return"
      /\ mdirs' = mdirs \cup {Place(BufString)}
      /\ margs' = margs /\ marg' = marg /\ mcode' = mcode /\ mfiles' = mfiles
      /\ mi' = mi /\ mbuf' = mbuf /\ mend' = mend /\ mret' = mret
  BY DEF MkdirMakes
<1>2. MkdirStates /\ EarlierInv /\ PathInv /\ mpc # "none" /\ (mpc = "makelast" => ~ mend)
  BY <1>1 DEF MkdirInv, LevelInv
<1>3. BufString \in Seq(PathByte)
  BY <1>1, <1>2, LevelString, LastString DEF Cut, AtEnd
<1>4. Place(BufString) \in Seq(Name) /\ Place(BufString) # <<>> /\ ParentIsDir(Place(BufString))
  BY <1>1, <1>3, PlaceIs DEF CanMake
<1>5. Tree(mdirs, mfiles)' /\ mdirs \subseteq mdirs'
  BY <1>1, <1>2, <1>4, TreeGrows DEF MkdirStates
<1>6. MkdirStates' /\ EarlierInv'
  <2>1. MkdirStates'
    BY <1>1, <1>2, <1>5 DEF MkdirPcs, MkdirStates
  <2> QED BY <1>1, <1>2, <1>5, <2>1, EarlierKept
<1>7. PathInv'
  <2>1. Copying /\ (Cut' <=> Cut) /\ (AtEnd' <=> AtEnd)
    BY <1>1 DEF Copying, Cut, AtEnd
  <2>2. AtEnd => mi = Len(Arg)
    BY <1>2 DEF PathInv, Copying
  <2> QED BY <1>1, <1>2, <2>1, <2>2, CopyKept
<1>8. Place(BufString) \in {<<>>} \cup mdirs' \cup mfiles'
  BY <1>1
<1>9. CASE mpc = "makelevel"
  <2>1. BufString = FirstBytes(Arg, mi)
    BY <1>2, <1>9, LevelString DEF Cut
  <2>2. Arg' = Arg
    BY <1>1 DEF Arg
  <2>3. LevelInv'
    BY <1>1, <1>8, <1>9, <2>1, <2>2 DEF LevelInv, Reached
  <2> QED BY <1>6, <1>7, <2>3 DEF MkdirInv
<1>10. CASE mpc = "makelast"
  <2>1. BufString = CString(Meant(marg))
    BY <1>2, <1>10, LastString DEF AtEnd
  <2>2. Meant(marg)' = Meant(marg)
    BY <1>1, SameArgs
  <2>3. Place(CString(Meant(marg)')) \in {<<>>} \cup mdirs' \cup mfiles'
    BY <1>8, <2>1, <2>2
  <2>4. Delivered(marg)'
    BY <2>3 DEF Delivered, Reached
  <2>5. LevelInv'
    BY <1>1, <1>10, <2>4 DEF LevelInv
  <2> QED BY <1>6, <1>7, <2>5 DEF MkdirInv
<1> QED BY <1>1, <1>9, <1>10

\* The next argument finds the buffer as this one left it.
LEMMA ReturnKeeps == ASSUME MkdirInv, MkdirReturn PROVE MkdirInv'
<1>1. /\ mpc = "return" /\ mcode' = IF mret # 0 THEN 1 ELSE mcode
      /\ marg' = marg + 1 /\ mpc' = IF marg = Len(margs) THEN "exit" ELSE "main"
      /\ margs' = margs /\ mbuf' = mbuf /\ mdirs' = mdirs /\ mfiles' = mfiles
  BY DEF MkdirReturn
<1>2. MkdirStates /\ EarlierInv /\ margs \in MkdirArgs \cup {<<>>}
  BY DEF MkdirInv, MkdirStates
<1>3. marg <= Len(margs) /\ mi = Len(Arg) /\ Spelled(mbuf, mi, 0)
  BY <1>1 DEF MkdirInv, PathInv, Copying, AtEnd, Cut
<1>4. marg \in 1..Len(margs) /\ Len(margs) \in Nat /\ mret = 0 => Delivered(marg)
  BY <1>1 DEF MkdirInv, LevelInv
<1>5. marg \in 1..Len(margs) /\ Len(margs) \in Nat
  BY <1>2, <1>3, ArgIs, ArgsAre
<1>6. mpc' \in {"exit", "main"} /\ marg' \in Nat \ {0} /\ marg' <= Len(margs) + 1
  BY <1>1, <1>5
<1>7. MkdirStates'
  BY <1>1, <1>2, <1>6 DEF MkdirPcs, MkdirStates
<1>8. PathInv' /\ LevelInv'
  BY <1>6 DEF PathInv, LevelInv, Copying, Cut, AtEnd
<1>9. mcode' = 0 => \A k \in 1..Len(margs') : k < marg' => Delivered(k)'
  <2> SUFFICES ASSUME mcode' = 0, NEW k \in 1..Len(margs), k < marg' PROVE Delivered(k)'
    BY <1>1
  <2>1. mret = 0 /\ mcode = 0
    BY <1>1
  <2>2. k < marg \/ k = marg
    BY <1>1, <1>5
  <2>3. Delivered(k)
    BY <1>2, <1>4, <1>5, <2>1, <2>2 DEF EarlierInv
  <2> QED BY <1>1, <2>3, StillThere
<1>10. mpc' = "exit" => marg' > Len(margs')
  BY <1>1, <1>5
<1>11. ASSUME NEW j \in 1..MkdirBuf PROVE mbuf'[j - 1] = Left(marg - 1, j)'
  <2>1. j \in Nat \ {0} /\ j # 0
    OBVIOUS
  <2>2. Left(marg, j) = IF j <= Len(Arg) THEN Arg[j] ELSE Left(marg - 1, j)
    BY <1>2, <1>5, <2>1, LeftStep DEF Arg
  <2>3. mbuf[j - 1] = IF j <= Len(Arg) THEN Arg[j] ELSE Left(marg - 1, j)
    BY <1>3, <2>1 DEF Spelled
  <2>4. mbuf[j - 1] = Left(marg, j)
    BY <2>2, <2>3
  <2>5. marg' - 1 = marg
    BY <1>1, <1>5
  <2> DEFINE longer(a) == {h \in 1..a : Len(margs[h]) >= j}
             last(S) == CHOOSE h \in S : \A l \in S : l <= h
             byte(S) == IF S = {} THEN "nul" ELSE margs[last(S)][j]
  <2>6. Left(marg - 1, j)' = Left(marg, j)
    <3>1. Left(marg - 1, j)' = byte(longer(marg' - 1))
      BY <1>1 DEF Left
    <3>2. Left(marg, j) = byte(longer(marg))
      BY DEF Left
    <3> HIDE DEF byte
    <3> QED BY <2>5, <3>1, <3>2
  <2> QED BY <1>1, <2>4, <2>6
<1>12. EarlierInv'
  BY <1>1, <1>6, <1>9, <1>10, <1>11 DEF EarlierInv
<1> QED BY <1>7, <1>8, <1>12 DEF MkdirInv

\* Directories appear while mkdir stands still.
LEMMA OnlyTreeGrows ==
  ASSUME MkdirInv, margs' = margs, marg' = marg, mcode' = mcode, mfiles' = mfiles, mi' = mi,
         mbuf' = mbuf, mend' = mend, mret' = mret, mpc' = mpc, Tree(mdirs, mfiles)',
         mdirs \subseteq mdirs'
  PROVE  MkdirInv'
<1>1. MkdirStates /\ EarlierInv /\ PathInv /\ LevelInv
  BY DEF MkdirInv
<1>2. MkdirStates'
  BY <1>1 DEF MkdirStates
<1>3. EarlierInv'
  <2>1. mcode' = 0 => \A k \in 1..Len(margs') : k < marg' => Delivered(k)'
    BY <1>1, StillThere DEF EarlierInv
  <2>2. \A j : Left(marg - 1, j)' = Left(marg - 1, j)
    BY DEF Left
  <2> QED BY <1>1, <2>1, <2>2 DEF EarlierInv
<1>4. PathInv'
  <2>1. (Cut' <=> Cut) /\ (AtEnd' <=> AtEnd) /\ (Copying' <=> Copying)
    BY DEF Copying, Cut, AtEnd
  <2>2. CASE Copying
    BY <1>1, <2>1, <2>2, CopyKept DEF PathInv
  <2>3. CASE ~ Copying
    BY <2>1, <2>3 DEF PathInv, Copying
  <2> QED BY <2>2, <2>3
<1>5. LevelInv'
  <2>1. Arg' = Arg
    BY DEF Arg
  <2>2. Reached(FirstBytes(Arg, mi)) => Reached(FirstBytes(Arg, mi))'
    BY <2>1, StillThere DEF Reached
  <2>3. Delivered(marg) => Delivered(marg)'
    BY StillThere
  <2> QED BY <1>1, <2>2, <2>3 DEF LevelInv
<1> QED BY <1>2, <1>3, <1>4, <1>5 DEF MkdirInv

\* Another process makes a directory, at any moment.
LEMMA OtherKeeps == ASSUME MkdirInv, OtherMakes PROVE MkdirInv'
<1>1. /\ margs' = margs /\ marg' = marg /\ mcode' = mcode /\ mfiles' = mfiles /\ mi' = mi
      /\ mbuf' = mbuf /\ mend' = mend /\ mret' = mret /\ mpc' = mpc
  BY DEF OtherMakes
<1>2. PICK d \in MkdirOthers : ParentIsDir(d) /\ mdirs' = mdirs \cup {d}
  BY DEF OtherMakes
<1>3. d \in Seq(Name) /\ d # <<>>
  BY MkdirAssumption, BytesOfPath
<1>4. Tree(mdirs, mfiles)' /\ mdirs \subseteq mdirs'
  BY <1>1, <1>2, <1>3, TreeGrows DEF MkdirInv, MkdirStates
<1> QED BY <1>1, <1>4, OnlyTreeGrows

\* The invariant holds before the first argument.
LEMMA MkdirBegins == ProgramsInit => MkdirInv
<1> SUFFICES ASSUME ProgramsInit PROVE MkdirInv
  OBVIOUS
<1>1. MkdirInit \/ MkdirIdle
  BY DEF ProgramsInit
<1>2. CASE MkdirIdle
  BY <1>2 DEF MkdirIdle, MkdirInv, MkdirStates, MkdirPcs, EarlierInv, PathInv, LevelInv, Copying, Cut, AtEnd, Tree
<1>3. CASE MkdirInit
  <2>1. /\ margs \in MkdirArgs /\ marg = 1 /\ mpc = "main" /\ mcode = 0
        /\ mbuf = [k \in 0..MkdirBuf - 1 |-> "nul"]
    BY <1>3 DEF MkdirInit
  <2>2. PICK t \in MkdirTrees : mdirs = t.dirs /\ mfiles = t.files
    BY <1>3 DEF MkdirInit
  <2>3. \A d \in t.dirs \cup t.files : /\ d \in Seq(Seq(STRING)) /\ d # <<>>
                                       /\ SubSeq(d, 1, Len(d) - 1) \in {<<>>} \cup t.dirs
    BY MkdirAssumption
  <2>4. Tree(mdirs, mfiles)
    BY <2>2, <2>3, BytesOfPath DEF Tree
  <2>5. mbuf \in [0..MkdirBuf - 1 -> PathByte]
    BY <2>1 DEF PathByte
  <2>6. MkdirStates
    BY <2>1, <2>4, <2>5 DEF MkdirPcs, MkdirStates
  <2>7. Len(margs) \in Nat
    BY <2>1, ArgsAre
  <2>8. MkdirBuf \in Nat
    BY MkdirAssumption
  <2>9. ASSUME NEW j \in 1..MkdirBuf PROVE mbuf[j - 1] = Left(marg - 1, j)
    <3>1. j - 1 \in 0..MkdirBuf - 1 /\ j \in Nat \ {0} /\ 1 - 1 = 0
      BY <2>8
    <3>2. Left(0, j) = "nul"
      BY <2>1, <3>1, LeftStep
    <3> QED BY <2>1, <3>1, <3>2
  <2>10. 1 <= Len(margs) + 1 /\ \A k \in 1..Len(margs) : ~ (k < 1)
    BY <2>7
  <2>11. EarlierInv
    BY <2>1, <2>9, <2>10 DEF EarlierInv
  <2>12. PathInv /\ LevelInv
    BY <2>1 DEF PathInv, LevelInv, Copying, Cut, AtEnd
  <2> QED BY <2>6, <2>11, <2>12 DEF MkdirInv
<1> QED BY <1>1, <1>2, <1>3

\* Nothing the other programs do matters to mkdir.
LEMMA MkdirStepKeeps ==
  ASSUME MkdirInv, [PNext]_progVars
  PROVE  MkdirInv'
<1>1. CASE MkdirStep
  BY <1>1, UsageKeeps, CallKeeps, CharKeeps, SlashKeeps, OverrunKeeps, LastLevelKeeps, OpensKeeps,
     CannotKeeps, MakesKeeps, NextByteKeeps, ReturnKeeps DEF MkdirStep
<1>2. CASE UNCHANGED mkdirVars
  <2>1. /\ margs' = margs /\ marg' = marg /\ mi' = mi /\ mbuf' = mbuf /\ mend' = mend
        /\ mret' = mret /\ mcode' = mcode /\ mdirs' = mdirs /\ mfiles' = mfiles /\ mpc' = mpc
    BY <1>2 DEF mkdirVars
  <2>2. Tree(mdirs, mfiles)' /\ mdirs \subseteq mdirs'
    BY <2>1 DEF MkdirInv, MkdirStates, Tree
  <2> QED BY <2>1, <2>2, OnlyTreeGrows
<1> QED BY <1>1, <1>2, OtherKeeps, MkdirStepIs DEF MkdirNext

\* For arguments of any number and length, every buffer, every file system to begin with
\* and every interleaving with processes that make directories: exit code 0 means that
\* each path the buffer held at the end of an argument is there with every directory on
\* it.  It need not be the argument's own path.
THEOREM MkdirDeliversPaths == ProgramsSpec => []MkdirDelivers
<1>1. MkdirInv /\ [ProgramStep \/ OthersStep \/ Rest]_progVars => MkdirInv'
  BY MkdirStepKeeps DEF PNext
<1>2. MkdirInv => MkdirDelivers
  <2> SUFFICES ASSUME MkdirInv, mpc = "exit", mcode = 0, NEW k \in DOMAIN margs,
                      NEW p \in Prefixes(Place(CString(Meant(k)))) \ {<<>>}
               PROVE  p \in mdirs \/ (p = Place(CString(Meant(k))) /\ p \in mfiles)
    BY DEF MkdirDelivers
  <2>1. margs \in MkdirArgs \cup {<<>>} /\ marg \in Nat /\ Tree(mdirs, mfiles)
    BY DEF MkdirInv, MkdirStates
  <2>2. k \in 1..Len(margs) /\ Len(margs) \in Nat
    BY <2>1, ArgsAre
  <2>3. k < marg
    BY <2>1, <2>2 DEF MkdirInv, EarlierInv
  <2>4. Place(CString(Meant(k))) \in {<<>>} \cup mdirs \cup mfiles
    BY <2>2, <2>3 DEF MkdirInv, EarlierInv, Delivered, Reached
  <2> QED BY <2>1, <2>4, PrefixesReached
<1> QED BY <1>1, <1>2, MkdirBegins, PTL DEF ProgramsSpec
=============================================================================
