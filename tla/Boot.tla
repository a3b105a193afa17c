-------------------------------- MODULE Boot --------------------------------
(***************************************************************************)
(* The boot chain of bootloader/ on a disk one of the image tools made:    *)
(* the boot code (mbr.c, mbr.S) reads one sector of the loader, the loader *)
(* (bzimage.S, bzimage.c) reads its second sector and the Linux kernel,    *)
(* and bzsetup.S returns to real mode and enters the kernel.  None of them *)
(* reads the file system: the sectors are written into the code.           *)
(*                                                                         *)
(* Memory is the list of reads, each of n sectors from sector to addr; the *)
(* last one that covers an address counts.  Switching modes and talking to *)
(* the disk's ports have no state here beyond where control goes.          *)
(***************************************************************************)
EXTENDS Installer

CONSTANT Headers    \* kernels: [setup_sects, syssize, valid, high, poff, plen]

\* setup_sects is an unsigned char, syssize, payload_offset and payload_length are
\* unsigned.
ASSUME BootAssumption ==
  Headers \subseteq [setup_sects : 0..255, syssize : Nat, valid : BOOLEAN, high : BOOLEAN,
                     poff : Nat, plen : Nat]

VARIABLES
  khdr,     \* header of the kernel that was installed
  stage,    \* where the boot chain is
  mem,      \* what was read: sequence of [addr, sector, n]
  ip        \* linear address of the instruction executed next

boot == <<khdr, stage, mem, ip>>
bvars == <<vars, boot>>

\* Addresses and sectors that are constants of the code.
LoaderAddr == \h1200
LoaderSector == 3 + 528
SetupAddr == \h2000
KernelSector == 539
KernelAddr == \h100000
Code16Addr == SetupAddr + \h8000
CmdLineAddr == SetupAddr + \h10000
StackTop == \hA000

\* A bzImage: a boot sector, setup_sects sectors of real-mode code (0 stands for 4),
\* and syssize times 16 bytes of protected-mode code.
RealModeSectors(h) == 1 + (IF h.setup_sects = 0 THEN 4 ELSE h.setup_sects)
FileSize(h) == 512 * RealModeSectors(h) + 16 * h.syssize

\* The loader's count: uint8_t setup_sects, with the boot sector counted in.
SetupSectsBare(h) ==    \* mutant: setup_sects++ is missing
  IF h.setup_sects = 0 THEN 4 ELSE h.setup_sects
SetupSects(h) == (IF h.setup_sects = 0 THEN 5 ELSE h.setup_sects + 1) % 256
ImageSize(h) == U32(512 * SetupSects(h) + 16 * h.syssize)    \* uint32_t img_size

\* read_disk, n times.
Read(addr, sector, n) == Append(mem, [addr |-> addr, sector |-> sector, n |-> n])

\* The sector that was read to address a, 0 if none was.
SectorAt(m, a) ==
  LET over == {k \in DOMAIN m : m[k].addr <= a /\ a < m[k].addr + 512 * m[k].n}
  IN IF over = {} THEN 0
     ELSE LET last == m[CHOOSE k \in over : \A j \in over : j <= k]
          IN last.sector + (a - last.addr) \div 512

NoHeader == [setup_sects |-> 0, syssize |-> 0, valid |-> FALSE, high |-> FALSE,
             poff |-> 0, plen |-> 0]

BootInit == Init /\ khdr = NoHeader /\ stage = "off" /\ mem = <<>> /\ ip = 0

----------------------------------------------------------------------------
\* The firmware puts block 0 at 0x7C00 and jumps there; the kernel that was installed
\* is any one of the size of the kernel file.
PowerOn ==
  /\ stage = "off" /\ pc = "exit0"
  /\ \E h \in Headers : file["kernel"] = FileSize(h) /\ khdr' = h
  /\ mem' = Read(\h7C00, 0, 1) /\ ip' = \h7C00 /\ stage' = "mbr"
  /\ UNCHANGED vars

\* The code in the boot sector is cut off at 440 bytes, the file may have more.
RunMbr ==
  /\ stage = "mbr"
  /\ IF mbr = file["mbr"] /\ mbr > 0
       THEN mem' = Read(LoaderAddr, LoaderSector, 1) /\ ip' = LoaderAddr /\ stage' = "loader"
       ELSE stage' = "lost" /\ UNCHANGED <<mem, ip>>
  /\ UNCHANGED <<vars, khdr>>

LoaderCutShort == file["loader"] > 1024

\* What was read to 0x1200 runs, whatever it is.
RunLoader ==
  /\ stage = "loader"
  /\ IF at["loader"] # 0 /\ SectorAt(mem, ip) = FirstSector("loader") /\ file["loader"] > 0
       THEN /\ mem' = Read(LoaderAddr + 512, LoaderSector + 1, 1)
            /\ stage' = IF LoaderCutShort THEN "lost" ELSE "header"
       ELSE stage' = "lost" /\ UNCHANGED mem
  /\ UNCHANGED <<vars, khdr, ip>>

\* Only the kernel's own first sector carries the two magic numbers.
HeaderFound == at["kernel"] # 0 /\ FirstSector("kernel") = KernelSector /\ khdr.valid

ReadHeader ==
  /\ stage = "header"
  /\ mem' = Read(SetupAddr, KernelSector, 2)
  /\ stage' = IF HeaderFound THEN "setup" ELSE "die"
  /\ UNCHANGED <<vars, khdr, ip>>

\* Real-mode code that reaches the stack right below 0xA000.
HitsStack(h) == SetupAddr + 512 * SetupSects(h) > StackTop - 512

\* The rest of the real-mode code, then the check of loadflags and version.  If the
\* stack was overwritten, the loader may go anywhere.
ReadSetup ==
  /\ stage = "setup"
  /\ mem' = IF SetupSects(khdr) > 2
              THEN Read(SetupAddr + 1024, KernelSector + 2, SetupSects(khdr) - 2) ELSE mem
  /\ \/ stage' = IF khdr.high THEN "kernel" ELSE "die"
     \/ HitsStack(khdr) /\ stage' = "lost"
  /\ UNCHANGED <<vars, khdr, ip>>

\* img_size / LINUX_SECTOR_SIZE rounds down.
ReadKernel ==
  /\ stage = "kernel"
  /\ LET last == ImageSize(khdr) \div 512 IN
       mem' = IF last > SetupSects(khdr)
                THEN Read(KernelAddr, KernelSector + SetupSects(khdr), last - SetupSects(khdr))
                ELSE mem
  /\ stage' = "jump"
  /\ UNCHANGED <<vars, khdr, ip>>

JumpToSegment ==    \* mutant: the offset is not relative to the segment
  /\ stage = "jump"
  /\ ip' = 16 * \h220 + \hA000 /\ stage' = "code16"
  /\ UNCHANGED <<vars, khdr, mem>>

\* jump_to_setup: cs:ip = 0x220:(0xa000 - 0x2200), where code16 was copied to.
Jump ==
  /\ stage = "jump"
  /\ ip' = 16 * \h220 + (\hA000 - \h2200) /\ stage' = "code16"
  /\ UNCHANGED <<vars, khdr, mem>>

\* code16 loads the data segments and jumps to offset 0 of the same code segment.
RunCode16 ==
  /\ stage = "code16"
  /\ ip' = 16 * \h220 /\ stage' = "running"
  /\ UNCHANGED <<vars, khdr, mem>>

Booting == \/ PowerOn \/ RunMbr \/ RunLoader \/ ReadHeader \/ ReadSetup \/ ReadKernel
           \/ Jump \/ RunCode16
BootNext == (Next /\ UNCHANGED boot) \/ Booting

\* The tools wait for nobody; whether a machine is ever switched on is open.
BootSpec == BootInit /\ [][BootNext]_bvars /\ WF_bvars(Tool /\ UNCHANGED boot)

----------------------------------------------------------------------------
(* Properties.                                                             *)

\* What was built and installed is in order: the boot code fits in front of the
\* partition table, the loader in the two sectors that are read, the kernel is one
\* the loader supports, smaller than 2^32 bytes and with at most 62 sectors of setup
\* code, and both were copied in.
Sane == /\ FileSize(khdr) < Word
        /\ file["mbr"] \in 1..440 /\ file["loader"] \in 1..1024
        /\ khdr.setup_sects <= 62 /\ khdr.valid /\ khdr.high /\ at["loader"] # 0 /\ at["kernel"] # 0

\* The partition sizes for which the sectors in the code are right.
Matching == tool = "mkgpt" \/ opts["-s"] = 128

InPlace(addr, first, count) ==
  \A k \in 0..count - 1 : SectorAt(mem, addr + 512 * k) = FirstSector("kernel") + first + k

\* mkgpt, createFAT32, FAT32Copyin, mbr.c, bzimage.S and bzimage.c agree on where the
\* loader and the kernel are: on a disk of mkgpt, and on one of the installer with a
\* boot partition of 128 MiB, the chain is never lost, every sector of the real-mode
\* code and every full sector of the kernel is in its place when the kernel runs,
\* and it is entered at its second sector.
BootFindsKernel ==
  Sane /\ Matching =>
    /\ stage \notin {"lost", "die"}
    /\ stage = "running" =>
         /\ InPlace(SetupAddr, 0, RealModeSectors(khdr))
         /\ InPlace(KernelAddr, RealModeSectors(khdr), khdr.syssize \div 32)
         /\ SectorAt(mem, ip) = KernelSector + 1

\* Bytes the loader has at an address, besides what it read; its stack is taken to
\* need at most one sector.
Own == {[addr |-> StackTop - 512, size |-> 512], [addr |-> Code16Addr, size |-> 18],
        [addr |-> CmdLineAddr, size |-> 73]}
Overlap(a, m, b, n) == a < b + n /\ b < a + m

\* Nothing the chain reads lands on code it still runs: two reads never overlap, but
\* for the boot sector, which is done by then (real-mode code of 47 sectors covers
\* it), and none touches the stack, the 16-bit code or the command line, with up to
\* 62 sectors of setup code; control is always at an address something was put at.
MemoryApart ==
  /\ khdr.setup_sects <= 62 => \A j, k \in 2..Len(mem) :
       /\ j # k => ~ Overlap(mem[j].addr, 512 * mem[j].n, mem[k].addr, 512 * mem[k].n)
       /\ \A o \in Own : ~ Overlap(mem[j].addr, 512 * mem[j].n, o.addr, o.size)
  /\ stage # "off" => SectorAt(mem, ip) # 0 \/ ip \in {\h7C00, Code16Addr}

\* installer.c:2: "After this operation, the block device can be booted by hardware."
InstalledDiskBoots == Sane => stage \notin {"lost", "die"}
=============================================================================
