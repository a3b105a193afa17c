-------------------------------- MODULE Elf --------------------------------
(***************************************************************************)
(* The two programs of bootloader/ that walk over the program headers of   *)
(* an ELF file: vmlinux.c, a loader that reads a kernel from the disk one  *)
(* sector at a time, and gettext.c, which copies executable segments out   *)
(* of a linked program to make a boot image.                               *)
(*                                                                         *)
(* A file is [class, size, phoff, phdrs]; its byte at offset o is known by *)
(* o.  A header is [type, exec, off, paddr, filesz, memsz], 64-bit fields  *)
(* as the 32 bits of them vmlinux.c uses.  Memory holds file offsets,      *)
(* Zeroed or Untouched; the loader's own code and stack are not part of it.*)
(***************************************************************************)
EXTENDS Integers, Sequences, SequencesExt

CONSTANTS
  SECTSIZE,    \* bytes of a sector, and of the buffer of gettext.c
  PhdrSize,    \* sizeof(Elf32_Phdr) and sizeof(Elf64_Phdr), at 32 and at 64
  EhdrSize,    \* the same of Elf32_Ehdr and Elf64_Ehdr
  FieldEnd,    \* where each field of an Elf64_Phdr that vmlinux.c uses ends
  StackBytes,  \* what a field may hold whose bytes come from the stack
  SectorStart, \* SECTOR_DATA_START
  ElfKernels,  \* 64-bit files vmlinux.c is given
  ElfPrograms, \* files gettext.c is given
  ElfMemory    \* addresses that matter

ASSUME ElfAssumption ==
  /\ SECTSIZE \in Nat \ {0}
  /\ EhdrSize[64] \in 1..SECTSIZE /\ PhdrSize[64] \in 1..SECTSIZE /\ PhdrSize[32] \in Nat
  /\ ElfKernels \cup ElfPrograms \subseteq
       [class : {32, 64}, size : Nat, phoff : Nat,
        phdrs : Seq([type : Nat, exec : BOOLEAN, off : Nat, paddr : Nat, filesz : Nat, memsz : Nat])]
  /\ FieldEnd \in [{"type", "off", "paddr", "filesz", "memsz"} -> Nat]
  /\ FieldEnd["type"] <= FieldEnd["off"] /\ FieldEnd["off"] <= FieldEnd["paddr"]
  /\ FieldEnd["paddr"] <= FieldEnd["filesz"] /\ FieldEnd["filesz"] <= FieldEnd["memsz"]
  /\ FieldEnd["memsz"] <= PhdrSize[64]
  /\ StackBytes \subseteq Nat /\ SectorStart \in Nat /\ ElfMemory \subseteq Nat

VARIABLES
  kfile, ki,             \* vmlinux.c: the kernel, and the header it is at
  kseg,                  \* *phdr
  kfoff, kleft, kdst,    \* foff, fsize and dst of __k_readfile
  kmem, kpc,
  gfile, gi,             \* gettext.c: the same
  goff, gleft, gout,     \* offset and count of xfcopy, and the image
  gpc

kernelVars == <<kfile, ki, kseg, kfoff, kleft, kdst, kmem, kpc>>
gettextVars == <<gfile, gi, goff, gleft, gout, gpc>>

Zeroed == -1
Untouched == -2
NoElf == [class |-> 64, size |-> 0, phoff |-> 0, phdrs |-> <<>>]
PT_LOAD == 1

Lesser(m, n) == IF m < n THEN m ELSE n
HeaderOffset(f, i) == f.phoff + (i - 1) * PhdrSize[f.class]

----------------------------------------------------------------------------
(* vmlinux.c                                                               *)

NoPhdr == [type |-> 0, off |-> 0, paddr |-> 0, filesz |-> 0, memsz |-> 0]
LoaderInit ==
  /\ kfile \in ElfKernels /\ ki = 1 /\ kseg = NoPhdr /\ kfoff = 0 /\ kleft = 0 /\ kdst = 0
  /\ kmem = [a \in ElfMemory |-> Untouched] /\ kpc = "header"
LoaderIdle ==
  /\ kfile = NoElf /\ ki = 1 /\ kseg = NoPhdr /\ kfoff = 0 /\ kleft = 0 /\ kdst = 0
  /\ kmem = [a \in ElfMemory |-> Untouched] /\ kpc = "none"

\* One sector is read for each header; what does not end in it is whatever the stack
\* holds behind data.
InSector(f, i, x) == (HeaderOffset(f, i) % SECTSIZE) + FieldEnd[x] <= SECTSIZE
Seen(f, i, x) == IF InSector(f, i, x) THEN {f.phdrs[i][x]} ELSE StackBytes

\* phdr->p_type & PT_LOAD is set in every odd type.
LoadedType(t) == t % 2 = PT_LOAD

LoadHeader ==
  /\ kpc = "header" /\ ki \in DOMAIN kfile.phdrs
  /\ \E t \in Seen(kfile, ki, "type"), o \in Seen(kfile, ki, "off"),
        a \in Seen(kfile, ki, "paddr"), n \in Seen(kfile, ki, "filesz"),
        m \in Seen(kfile, ki, "memsz") :
       /\ kseg' = [type |-> t, off |-> o, paddr |-> a, filesz |-> n, memsz |-> m]
       /\ IF LoadedType(t)
            THEN kfoff' = o /\ kleft' = n /\ kdst' = a /\ kpc' = "read" /\ UNCHANGED ki
            ELSE ki' = ki + 1 /\ UNCHANGED <<kfoff, kleft, kdst, kpc>>
  /\ UNCHANGED <<kfile, kmem>>

ReadCountFull ==    \* mutant: a read that starts inside a sector takes a whole one
  Lesser(SECTSIZE, kleft)
\* One round of __k_readfile.
ReadCount == Lesser(SECTSIZE - (kfoff % SECTSIZE), kleft)

\* The i-th byte the loop of a round stores.  sector_data holds one sector: an index
\* past its end is no byte of the file.  A segment that reaches into sector_data from
\* behind the byte read overwrites what is read next, and repeats its first bytes.
Shift == kdst - (SectorStart + (kfoff % SECTSIZE))
Copied(i) ==
  IF (kfoff % SECTSIZE) + i < SECTSIZE
  THEN kfoff + (IF Shift \in 1..i THEN i % Shift ELSE i) ELSE Untouched

SectorBuffer == SectorStart..SectorStart + SECTSIZE - 1

\* The sector goes to sector_data, and from there to the segment.
ReadRound ==
  /\ kpc = "read" /\ kleft # 0
  /\ kmem' = [a \in ElfMemory |->
                IF a \in kdst..kdst + ReadCount - 1 THEN Copied(a - kdst)
                ELSE IF a \in SectorBuffer THEN kfoff - (kfoff % SECTSIZE) + (a - SectorStart)
                ELSE kmem[a]]
  /\ kfoff' = kfoff + ReadCount /\ kleft' = kleft - ReadCount /\ kdst' = kdst + ReadCount
  /\ UNCHANGED <<kfile, ki, kseg, kpc>>

\* __k_memzero of what the segment has in memory and not in the file.  The uint32_t
\* size of a segment that has less in memory wraps: all other addresses are cleared.
Cleared(p, a) ==
  IF p.filesz <= p.memsz THEN a \in p.paddr + p.filesz..p.paddr + p.memsz - 1
  ELSE a \notin p.paddr + p.memsz..p.paddr + p.filesz - 1

ZeroRest ==
  /\ kpc = "read" /\ kleft = 0
  /\ kmem' = [a \in ElfMemory |-> IF Cleared(kseg, a) THEN Zeroed ELSE kmem[a]]
  /\ ki' = ki + 1 /\ kpc' = "header"
  /\ UNCHANGED <<kfile, kseg, kfoff, kleft, kdst>>

EnterKernel ==
  /\ kpc = "header" /\ ki \notin DOMAIN kfile.phdrs
  /\ kpc' = "kernel"
  /\ UNCHANGED <<kfile, ki, kseg, kfoff, kleft, kdst, kmem>>

LoaderNext == LoadHeader \/ ReadRound \/ ZeroRest \/ EnterKernel
LoaderEnded == kpc \in {"none", "kernel"}

----------------------------------------------------------------------------
(* gettext.c                                                               *)

GettextInit ==
  /\ gfile \in ElfPrograms /\ gi = 1 /\ goff = 0 /\ gleft = 0 /\ gout = <<>> /\ gpc = "open"
GettextIdle ==
  /\ gfile = NoElf /\ gi = 1 /\ goff = 0 /\ gleft = 0 /\ gout = <<>> /\ gpc = "none"

\* Any call may fail, and a short read counts as a failure: _exit(1).
GettextFails ==
  /\ gpc \in {"open", "header", "copy"}
  /\ gpc' = "exit1"
  /\ UNCHANGED <<gfile, gi, goff, gleft, gout>>

\* Both files are opened and the header is read, as a 32-bit one and then, if
\* e_machine says so, as a 64-bit one.
GettextOpen ==
  /\ gpc = "open" /\ \A c \in {32, gfile.class} : EhdrSize[c] <= gfile.size
  /\ gpc' = "header"
  /\ UNCHANGED <<gfile, gi, goff, gleft, gout>>

WantedLoad(p) == p.type = PT_LOAD    \* mutant: data segments are copied, too
Wanted(p) == p.exec /\ p.type = PT_LOAD

GettextHeader ==
  /\ gpc = "header" /\ gi \in DOMAIN gfile.phdrs
  /\ HeaderOffset(gfile, gi) + PhdrSize[gfile.class] <= gfile.size
  /\ LET p == gfile.phdrs[gi] IN
       IF Wanted(p)
         THEN goff' = p.off /\ gleft' = p.filesz /\ gpc' = "copy" /\ UNCHANGED gi
         ELSE gi' = gi + 1 /\ UNCHANGED <<goff, gleft, gpc>>
  /\ UNCHANGED <<gfile, gout>>

\* One round of xfcopy.
CopyRound ==
  LET nr == Lesser(SECTSIZE, gleft) IN
  /\ gpc = "copy" /\ gleft # 0 /\ goff + nr <= gfile.size
  /\ gout' = gout \o [k \in 1..nr |-> goff + k - 1]
  /\ goff' = goff + nr /\ gleft' = gleft - nr
  /\ UNCHANGED <<gfile, gi, gpc>>

\* A short write, too; its bytes stay in the image.
ShortWrite ==
  LET nr == Lesser(SECTSIZE, gleft) IN
  /\ gpc = "copy" /\ gleft # 0 /\ goff + nr <= gfile.size
  /\ \E m \in 1..nr - 1 : gout' = gout \o [k \in 1..m |-> goff + k - 1]
  /\ gpc' = "exit1"
  /\ UNCHANGED <<gfile, gi, goff, gleft>>

CopyDone ==
  /\ gpc = "copy" /\ gleft = 0
  /\ gi' = gi + 1 /\ gpc' = "header"
  /\ UNCHANGED <<gfile, goff, gleft, gout>>

GettextExit ==
  /\ gpc = "header" /\ gi \notin DOMAIN gfile.phdrs
  /\ gpc' = "exit0"
  /\ UNCHANGED <<gfile, gi, goff, gleft, gout>>

GettextNext == \/ GettextFails \/ GettextOpen \/ GettextHeader \/ CopyRound \/ ShortWrite
               \/ CopyDone \/ GettextExit
GettextEnded == gpc \in {"none", "exit0", "exit1"}

----------------------------------------------------------------------------
(* Properties.                                                             *)

SegmentRange(p) == p.paddr..p.paddr + p.memsz - 1
Linked(p, a) == IF a < p.paddr + p.filesz THEN p.off + (a - p.paddr) ELSE Zeroed

\* What the loader needs of a header lies in one sector, if it is to be loaded at all,
\* and its segment keeps clear of the reserved sector buffer and is no longer in the
\* file than in memory.
Sound(f, i) ==
  LET p == f.phdrs[i] IN
  /\ InSector(f, i, "type")
  /\ LoadedType(p.type) =>
       /\ InSector(f, i, "memsz") /\ p.filesz <= p.memsz
       /\ \A a \in SegmentRange(p) : a \notin SectorBuffer

\* When __elf_main jumps to a kernel all of whose headers are Sound, every byte of its
\* loadable segments is in memory as it was linked, however segments lie across
\* sectors, and the rest of each segment is zero.  Headers of the other odd types,
\* which the test p_type & PT_LOAD takes for loadable, do no harm unless they cover
\* the same addresses; memory outside all of these and of the sector buffer is left
\* alone.  Of a kernel with a header that is not Sound nothing is said: the loader
\* goes on with what it has, and jumps to it all the same.
KernelLoaded ==
  kpc = "kernel" /\ (\A i \in DOMAIN kfile.phdrs : Sound(kfile, i)) =>
    LET taken == {i \in DOMAIN kfile.phdrs : LoadedType(kfile.phdrs[i].type)}
        Over(a) == {i \in taken : a \in SegmentRange(kfile.phdrs[i])}
    IN \A a \in ElfMemory \ SectorBuffer :
         /\ Over(a) = {} => kmem[a] = Untouched
         /\ \A i \in Over(a) : Over(a) = {i} => kmem[a] = Linked(kfile.phdrs[i], a)

Segment(p) == [k \in 1..p.filesz |-> p.off + k - 1]
Text(f) ==
  LET upto[n \in 0..Len(f.phdrs)] ==
        IF n = 0 THEN <<>>
        ELSE IF f.phdrs[n].exec /\ f.phdrs[n].type = PT_LOAD
             THEN upto[n - 1] \o Segment(f.phdrs[n]) ELSE upto[n - 1]
  IN upto[Len(f.phdrs)]

\* What gettext has written is always a beginning of the executable segments, one
\* after the other, and it exits with 0 only when all of them are there: no failing
\* or short call leaves a hole in a boot image.
TextExtracted ==
  /\ IsPrefix(gout, Text(gfile))
  /\ gpc = "exit0" => gout = Text(gfile)
=============================================================================
