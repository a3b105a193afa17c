------------------------------ MODULE Payload ------------------------------
(***************************************************************************)
(* bootloader/getpayload.c, run on the kernel file of a disk that was      *)
(* booted: it writes the payload of a bzImage, usually a compressed ELF    *)
(* file, to a file of its own.  It finds the payload with the arithmetic   *)
(* the loader uses to place it, in code of its own.                        *)
(***************************************************************************)
EXTENDS Boot

VARIABLES
  ppc,      \* where getpayload is
  pout      \* what it wrote: [off, len], a part of the kernel file

payload == <<ppc, pout>>
pvars == <<bvars, payload>>

Nowhere == [off |-> 0, len |-> 0]
PayloadInit == BootInit /\ ppc = "idle" /\ pout = Nowhere

SkipSectsBare(h) ==    \* mutant: skip_sects += 1 is missing
  IF h.setup_sects = 0 THEN 4 ELSE h.setup_sects
\* uint8_t skip_sects
SkipSects(h) == ((IF h.setup_sects = 0 THEN 4 ELSE h.setup_sects) + 1) % 256
PayloadOffset(h) == h.poff + 512 * SkipSects(h)

----------------------------------------------------------------------------
\* open, fstat and mmap of the kernel file; any of them may fail.
PayloadOpen ==
  /\ ppc = "idle" /\ stage \in {"running", "die"}
  /\ ppc' \in {"check", "exit1"}
  /\ UNCHANGED <<bvars, pout>>

\* BiCheck
PayloadCheck ==
  /\ ppc = "check"
  /\ ppc' = IF khdr.valid THEN "write" ELSE "exit1"
  /\ UNCHANGED <<bvars, pout>>

\* One write, which must be complete.  Nobody compares the range with the mapping: what
\* is behind it may be mapped, too.
PayloadWrite ==
  /\ ppc = "write"
  /\ pout' = [off |-> PayloadOffset(khdr), len |-> khdr.plen] /\ ppc' = "exit0"
  /\ UNCHANGED bvars

\* The output cannot be opened, or a part of the payload is left in it.
PayloadWriteFails ==
  /\ ppc = "write"
  /\ \E n \in {0, khdr.plen \div 2} : pout' = [off |-> PayloadOffset(khdr), len |-> n]
  /\ ppc' = "exit1"
  /\ UNCHANGED bvars

GetPayload == PayloadOpen \/ PayloadCheck \/ PayloadWrite \/ PayloadWriteFails
PayloadNext == (BootNext /\ UNCHANGED payload) \/ GetPayload
PayloadSpec ==
  PayloadInit /\ [][PayloadNext]_pvars /\ WF_pvars(Tool /\ UNCHANGED <<boot, payload>>)

----------------------------------------------------------------------------
(* Properties.                                                             *)

\* Byte b of the kernel file is in memory at address a.
Holds(a, b) ==
  /\ SectorAt(mem, a) = FirstSector("kernel") + b \div 512
  /\ (a - KernelAddr) % 512 = b % 512

\* bzimage.c and getpayload.c agree on where the kernel's payload is: what getpayload
\* wrote is what the running kernel finds payload_offset bytes behind its load
\* address, as far as the loader has read it in (full sectors only), even for the 255
\* setup sectors at which the 8-bit counts of both wrap to 0.  With fewer it begins
\* where the payload does, and exit code 0 means payload_length bytes: of those the
\* header places behind the end of the file nothing is said.
PayloadWhereLoaded ==
  ppc = "exit0" =>
    /\ stage = "running" /\ pout.len > 0 =>
         \A k \in {0, pout.len \div 2, pout.len - 1} :
           pout.off + k < 512 * (ImageSize(khdr) \div 512) =>
             Holds(KernelAddr + khdr.poff + k, pout.off + k)
    /\ khdr.setup_sects < 255 => pout.off = 512 * RealModeSectors(khdr) + khdr.poff
    /\ pout.len = khdr.plen
=============================================================================
