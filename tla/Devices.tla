------------------------------ MODULE Devices ------------------------------
(***************************************************************************)
(* The kernel modules of device/: null and zero, two character devices.    *)
(* A module is inserted and removed; its init function registers a device  *)
(* and its exit function does nothing, so that the device stays registered *)
(* when the code behind it is gone.  One file is open at a time.           *)
(*                                                                         *)
(* external: the kernel loads code, keeps a module while a file of its     *)
(* device is open (file_operations.owner), and copies to a user buffer     *)
(* that may end before the count does.                                     *)
(***************************************************************************)
EXTENDS Integers, FiniteSets

CONSTANTS
  ZeroBuf,      \* sizeof(buf) of zero/init.c
  Counts,       \* byte counts of read and write
  Buffers,      \* sizes of user buffers
  MaxInserts,   \* bound: times each module is inserted
  MaxPos        \* bound: file position up to which a file is used

ASSUME DevicesAssumption ==
  /\ ZeroBuf \in Nat \ {0} /\ MaxInserts \in Nat
  /\ Counts \subseteq Nat /\ Buffers \subseteq Nat

Devs == {"null", "zero"}

VARIABLES
  dloaded,      \* is the code of each module in the kernel
  dgen,         \* how often it was inserted
  dreg,         \* registered devices: [dev, gen]
  dgone,        \* history: the [dev, gen] whose module was removed
  dfile,        \* the open file: [dev, gen, pos], or NoDevFile
  dcall,        \* the read that runs: [count, done, size, start]
  dzero,        \* offsets of the user buffer that hold a zero of this read
  dret, dpc

devVars == <<dloaded, dgen, dreg, dgone, dfile, dcall, dzero, dret, dpc>>

NoDevFile == [dev |-> "none", gen |-> 0, pos |-> 0]
NoCall == [count |-> 0, done |-> 0, size |-> 0, start |-> 0]
EFAULT == 14

DevRest ==
  /\ dloaded = [d \in Devs |-> FALSE] /\ dgen = [d \in Devs |-> 0] /\ dreg = {} /\ dgone = {}
  /\ dfile = NoDevFile /\ dcall = NoCall /\ dzero = {} /\ dret = 0
DevInit == DevRest /\ dpc = "user"
DevIdle == DevRest /\ dpc = "none"

----------------------------------------------------------------------------
\* insmod runs the init function; the module stays if that returns 0.
Inserts(d, stays) ==
  /\ dpc = "user" /\ ~ dloaded[d] /\ dgen[d] < MaxInserts
  /\ dgen' = [dgen EXCEPT ![d] = @ + 1] /\ dloaded' = [dloaded EXCEPT ![d] = stays]
  /\ UNCHANGED <<dgone, dfile, dcall, dzero, dret, dpc>>
Registers(d) == dreg' = dreg \cup {[dev |-> d, gen |-> dgen[d] + 1]}

\* null gives up if register_chrdev fails, zero does not look.
InsmodNull ==
  \/ Inserts("null", TRUE) /\ Registers("null")
  \/ Inserts("null", FALSE) /\ UNCHANGED dreg

InsmodZero == Inserts("zero", TRUE) /\ (Registers("zero") \/ UNCHANGED dreg)

RmmodAnyway(d) ==    \* mutant: the operations name no owner
  /\ dpc = "user" /\ dloaded[d]
  /\ dloaded' = [dloaded EXCEPT ![d] = FALSE]
  /\ dgone' = dgone \cup {[dev |-> d, gen |-> dgen[d]]}
  /\ UNCHANGED <<dgen, dreg, dfile, dcall, dzero, dret, dpc>>

\* my_exit unregisters nothing; the kernel refuses while a file of the device is open.
Rmmod(d) ==
  /\ dpc = "user" /\ dloaded[d] /\ dfile.dev # d
  /\ dloaded' = [dloaded EXCEPT ![d] = FALSE]
  /\ dgone' = dgone \cup {[dev |-> d, gen |-> dgen[d]]}
  /\ UNCHANGED <<dgen, dreg, dfile, dcall, dzero, dret, dpc>>

Current(r) == dloaded[r.dev] /\ r.gen = dgen[r.dev]

\* Opening a device whose module is gone goes through its freed operations.
OpenDev(r) ==
  /\ dpc = "user" /\ dfile = NoDevFile /\ r \in dreg
  /\ IF Current(r) THEN dfile' = [dev |-> r.dev, gen |-> r.gen, pos |-> 0] /\ UNCHANGED dpc
                   ELSE dpc' = "stale" /\ UNCHANGED dfile
  /\ UNCHANGED <<dloaded, dgen, dreg, dgone, dcall, dzero, dret>>

CloseDev ==
  /\ dpc = "user" /\ dfile # NoDevFile
  /\ dfile' = NoDevFile
  /\ UNCHANGED <<dloaded, dgen, dreg, dgone, dcall, dzero, dret, dpc>>

NullRead ==
  /\ dpc = "user" /\ dfile.dev = "null"
  /\ dret' = 0
  /\ UNCHANGED <<dloaded, dgen, dreg, dgone, dfile, dcall, dzero, dpc>>

NullWrite(n) ==
  /\ dpc = "user" /\ dfile.dev = "null" /\ dfile.pos + n <= MaxPos
  /\ dfile' = [dfile EXCEPT !.pos = @ + n] /\ dret' = n
  /\ UNCHANGED <<dloaded, dgen, dreg, dgone, dcall, dzero, dpc>>

\* Unlike null_write, the write of zero does not move the position.
ZeroWrite(n) ==
  /\ dpc = "user" /\ dfile.dev = "zero"
  /\ dret' = n
  /\ UNCHANGED <<dloaded, dgen, dreg, dgone, dfile, dcall, dzero, dpc>>

ZeroCalled(n, size) ==
  /\ dpc = "user" /\ dfile.dev = "zero" /\ dfile.pos + n <= MaxPos
  /\ dcall' = [count |-> n, done |-> 0, size |-> size, start |-> dfile.pos] /\ dzero' = {}
  /\ dpc' = "read"
  /\ UNCHANGED <<dloaded, dgen, dreg, dgone, dfile, dret>>

Bread == LET left == dcall.count - dcall.done IN IF ZeroBuf > left THEN left ELSE ZeroBuf

Filled == dcall.done..dcall.done + Bread - 1

\* One round of device_file_read.
ZeroRound ==
  /\ dpc = "read" /\ dcall.done # dcall.count /\ dcall.done + Bread <= dcall.size
  /\ dzero' = dzero \cup Filled /\ dcall' = [dcall EXCEPT !.done = @ + Bread]
  /\ UNCHANGED <<dloaded, dgen, dreg, dgone, dfile, dret, dpc>>

\* copy_to_user stops at the end of the buffer.
ZeroFaults ==
  /\ dpc = "read" /\ dcall.done # dcall.count /\ dcall.done + Bread > dcall.size
  /\ dzero' = dzero \cup dcall.done..dcall.size - 1 /\ dret' = -EFAULT /\ dpc' = "done"
  /\ UNCHANGED <<dloaded, dgen, dreg, dgone, dfile, dcall>>

ZeroReturns ==
  /\ dpc = "read" /\ dcall.done = dcall.count
  /\ dfile' = [dfile EXCEPT !.pos = @ + dcall.count] /\ dret' = dcall.done /\ dpc' = "done"
  /\ UNCHANGED <<dloaded, dgen, dreg, dgone, dcall, dzero>>

\* The user looks at the result.
UserTakes ==
  /\ dpc = "done"
  /\ dpc' = "user" /\ dcall' = NoCall /\ dzero' = {}
  /\ UNCHANGED <<dloaded, dgen, dreg, dgone, dfile, dret>>

DevNext ==
  \/ InsmodNull \/ InsmodZero \/ \E d \in Devs : Rmmod(d)
  \/ \E r \in dreg : OpenDev(r)
  \/ \E n \in Counts : NullWrite(n) \/ ZeroWrite(n) \/ \E s \in Buffers : ZeroCalled(n, s)
  \/ CloseDev \/ NullRead \/ ZeroRound \/ ZeroFaults \/ ZeroReturns \/ UserTakes

----------------------------------------------------------------------------
(* Properties.                                                             *)

\* Only rmmod takes the code from behind a registered device: one whose module was
\* not removed can be opened, and an open file keeps the module that made it, not a
\* later one.  After rmmod the device is still registered, and opening it runs freed
\* operations; there is no other way to get there.  A read of zero fills the buffer
\* with exactly count zeros and moves the position by count, or it fails for a buffer
\* that is too small and moves nothing, though it has filled the buffer; it never
\* touches a byte behind the count.
DeviceCalls ==
  /\ \A r \in dreg : r \notin dgone => Current(r)
  /\ dpc = "stale" => dreg \cap dgone # {}
  /\ dfile # NoDevFile => Current(dfile)
  /\ dzero \subseteq 0..dcall.count - 1
  /\ dpc = "done" =>
       IF dcall.count <= dcall.size
       THEN dret = dcall.count /\ dzero = 0..dcall.count - 1
            /\ dfile.pos = dcall.start + dcall.count
       ELSE dret = -EFAULT /\ dzero = 0..dcall.size - 1 /\ dfile.pos = dcall.start
=============================================================================
