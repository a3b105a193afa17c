# A formal model of tlibc

tlibc builds everything between a blank disk and a shell prompt: a GPT and FAT32
image builder (`gpt/`), a boot sector and a loader for a Linux bzImage
(`bootloader/`), and a freestanding C library with a shell and small utilities
(`tlibc/`). This directory holds TLA+ specifications of those parts, configurations
that check them with TLC, and proofs checked with TLAPS.

Contents: [Inventory](#inventory) · [Modules](#modules-and-the-code) ·
[Runs](#runs) · [Disagreements](#what-disagrees-with-the-repositorys-own-text) ·
[Bounds](#bounds) · [Fairness](#fairness) · [Proofs](#proofs) ·
[Not modelled](#what-is-not-modelled) · [Plan](#plan)

## Inventory

| Component | State | Operations | Hard behaviour | Correct means |
|---|---|---|---|---|
| FAT32 volume builder, `gpt/fat.c` | BPB and FSInfo with backups, two tables, root directory, data clusters, all in a shared mapping of the disk | `createFAT32`, `FAT32Copyin` (`FAT32Mkdir` is a stub) | the process can die between any two stores and the next one continues on what it finds; 32-bit arithmetic; allocation trusts `nextFree` without reading the table | stored files survive everything but a new format; tables agree about them; no store outside its structure |
| GPT, `gpt/gpt.c` | protective MBR, entry array, two headers | `GPTGenerate` | each round of the entry loop clears memory; CRCs depend on the order of stores; limits of tiny disks | partitions apart and inside the usable area, the longest prefix of the request placed, headers consistent |
| Image tools, `gpt/installer.c`, `gpt/mkgpt.c` | options, mapping, partition sizes, sector numbers of the files | option loop, `mkpart`, `createFAT32`, four copies, boot code | results that are ignored, sizes at their limits, options in any order | exit status 0 means installed; files inside the partition; the tool ends |
| Boot chain, `bootloader/` | memory, instruction pointer | boot sector, loader, kernel header check, reading setup and kernel, jump | sector numbers and addresses are constants that must fit what the tools chose | the kernel is found, complete, and nothing still needed is overwritten |
| Line reader, `tlibc/stdio.c` | circular queue, caller's buffer kept between calls | `fill_buf`, `copy_buf`, `fdgets` | reads cut the stream anywhere; the end test looks at a byte an earlier line may have left; a read that fills the queue is lost | lines as they stand in the stream; what is lost, and what that joins, is known |
| Shell, `tlibc/sh.c` | static array of jobs, pending redirections | `system`, `system_single`, built-ins | leftovers of earlier commands, array limits, empty commands | commands carried out as written |
| Pipelines, `tlibc/system.c` | one process per stage, descriptor tables, pipes | `exec_job`, `exec_recur_noret`, `exec_single` | real concurrency; any call can fail in any process; blocking reads and writes | no pipe end leaks, everything ends, output complete when the shell goes on |
| Formatted output, `tlibc/stdio.c`, `tlibc/atoi.c` | output buffer | `Sprintf` and seven conversions, `atoi` | signs, most negative value, zero, stray percent signs | what is printed reads back |
| Calculator, `tlibc/eval.c` | one static line buffer, frames of `eval_recur` | read a line, walk over its bytes, print | the walk ends at a zero byte, not at the end of the line, and brackets step over bytes; division traps | the value from left to right, with what the code does behind a bracket; the walk stays in the line |
| `tlibc/wc.c`, `tlibc/mkdir.c` | counters; a static path buffer | `wc`; `mkdir` per argument | reads cut words and lines; leftovers of earlier arguments; other processes make directories | counts depend on the bytes only; exit 0 means the directories on the paths worked on exist |
| Other utilities, `ls`, `cat`, `kill`, `seq`, `stat`, `echo`, `env` and six with one call | a buffer, an index, descriptors | one loop around system calls each | a file that changes between two calls, limits of `int` and of the buffer, options in any order | output and targets are those of file and arguments, whatever calls answer |
| Devices, `device/null`, `device/zero` | registration, position of an open file | insert, remove, open, close, read, write | a module removed while its device stays registered; a copy that fails half-way | only `rmmod` takes the code from behind a registered device; a read is all or nothing |
| ELF loader, `bootloader/vmlinux.c`; helpers `getpayload.c`, `gettext.c` | memory; an output file | walk over program headers, copy segments | headers and segments across sectors; every sector passes through one buffer; short reads and writes | segments are as linked if the headers can be read; exit 0 means complete |
| System calls, jumps, BIOS, build system | none | – | – | see [Not modelled](#what-is-not-modelled) |

How they interact. The image tools map the disk and call `GPTGenerate`, then
`createFAT32` and `FAT32Copyin` on the first partition. The boot chain never parses
a file system: it reads the sectors at which those calls happened to put the loader
and the kernel, so the layout arithmetic of `gpt.c` and `fat.c` is an interface of
`mbr.c` and `bzimage.c`. The booted system runs the shell, which reads lines with
`fdgets`, parses them in `system`, and runs them with `exec_job`. `eval` reads its
lines with `fdgets` as well. `getpayload` repeats the arithmetic with which `bzimage.c`
finds the protected-mode code of a kernel.

`PROJECT.json` lists the hazards of the code line by line, with the properties that
would catch each of them.

## Modules and the code

| Module | Models | Notes |
|---|---|---|
| `FatGeometry` | the size arithmetic of `fat.c` (clusters, table size, data region, offsets), truncated to 32 bits where the code is | shared by `Fat32` and `Installer` |
| `Volume` | abstract specification: a volume is a set of files, storing one is atomic | implemented by `Fat32` (`ImplementsVolume`) |
| `Fat32` | `createFAT32`, `FAT32Copyin` | one action per store that a death can tell apart, in program order; `ProcessEnds` is process death at any point |
| `Fat32Proofs` | – | proofs about `Fat32`, and that it implements `Volume` |
| `Induction` | – | induction over natural numbers and recursion, for the proofs |
| `GptLayout` | where `GPTGenerate` puts partitions | reference definition for `Gpt` (`PlacesPrefix`), used by `Installer` |
| `Gpt` | `GPTGenerate`, step by step | the entry array is modelled in slots of 128 bytes, with as many again behind it |
| `GptProofs` | – | proofs about `Gpt` |
| `Installer` | `main` of both tools, `mkpart`, `copyin`, `die` | composes `GptLayout` and `FatGeometry` |
| `Boot` | `mbr`, `bzimage` | EXTENDS `Installer`: it boots the disks the tools make |
| `Payload` | `getpayload.c` | EXTENDS `Boot`: it runs on the kernel that was booted |
| `BootProofs` | – | proofs about `Installer`, `Boot` and `Payload` |
| `LineReader` | `fill_buf`, `copy_buf`, `fdgets`, the callers' loop | reads deliver any non-empty part of the rest, and may fail |
| `Shell` | `main`, `system`, `system_single` | a line is a sequence of lexemes; `AsWritten` is the independent reference for the parser |
| `ShellProofs` | – | proofs about `Shell` |
| `Pipeline` | `exec_job` and the processes it makes | kernel and programs external |
| `PipelineProofs` | – | proofs about `Pipeline` |
| `Format` | `Sprintf`, its conversions, `atoi` | characters are modelled because the properties are about them |
| `StdioProofs` | – | proofs about `LineReader` and `Format` |
| `Eval` | `eval.c` | one step per byte of the line; `ValueOf` is the independent reference |
| `Wc`, `Mkdir` | `wc.c`, `mkdir.c` | per read, and per directory level; other processes in `Mkdir` |
| `Utilities` | `ls.c`, `cat.c`, `kill.c`, `seq.c`, `stat.c`, `echo.c`, `env.c`, `link.c`, `sleep.c`, `pwd.c`, `crash.c`, `yes.c`, `pause.c` | one of them runs, on a job |
| `Devices` | both modules of `device/` | the kernel is external |
| `Elf` | `vmlinux.c`, `gettext.c` | a byte of a file is known by its offset |
| `Programs` | – | composes `Eval`, `Wc`, `Mkdir`, `Utilities`, `Devices`, `Elf`: one runs, the rest is idle |
| `ProgramsProofs` | – | proofs about `Devices`, `Wc`, `Elf`, `Utilities`, `Eval` and `Mkdir` in `Programs` |
| `MC…` | – | constants for TLC, and one property that states what an assertion of the code says |

`map` in `PROJECT.json` gives the source lines of every definition. Definitions with
the comment `mutant:` are deliberately wrong variants of the definition after them;
no specification uses them. Each property of a passing run has one variant that TLC
must find to violate it, so that no property holds by the shape of the model.

### Fat32

State: `bpb`, `bpb6`, `info`, `info7`, `fat`, `root`, `data` are on the disk; `pc`
and `op` are where the process is in `FAT32Copyin` and its locals, lost when it
dies. `stored` is a history variable: the root slots whose copy completed the FSInfo
update, which is what a caller is told about. `halfway` counts, up to two, the deaths
inside that update since the volume was formatted.

`Format` and `Reject` are `createFAT32`; a copy is `Begin` (size and space checks, after
`Refuse`, `FstatFails`, `SuperDies`), `Copy` (clear the extent and read the file, or
`CopyFails`), `Dirent`, `Link` and `LinkBackup` (the stores in the two tables, once per
cluster, or `LinkDies` at the assertion), `FsInfoCount` and `FsInfoNext` (the stores of
freeCount and nextFree, or `InfoDies` at the assertion), `Sync`. The 16-bit halves of a
cluster number and the 32-bit products are kept, with `Half` and `Word` as parameters. A
write through a wrapped offset is the state `"wild"`.

A death between the two table stores leaves tables that differ, and only in clusters from
`nextFree` on (`TablesAgree`): the next copy links those again. A death between the two
FSInfo stores leaves a freeCount that is too low. The assertion at `fat.c:882` survives one
such death, because `createFAT32` counts the entries of both tables as free, and not two;
`AssertsHold` and `AbortsExplained` say so.

Abstracted: names, dates and attributes of an entry; table entries 0 and 1 hold
only the fact that they are reserved; data is which file and which cluster of it.
`createFAT32` is one step, so a formatting that is cut short and followed by copies
without another formatting is not explored; both tools format before they copy.

### Gpt

One action per block of stores of `GPTGenerate`: `Protect` (MBR), `Allocate` per
partition, `WriteEntry` per entry, with the `memset` that clears a whole array's
worth from the entry on, `WritePrimary`, `WriteBackup`, `Seal` (both CRCs).
GUIDs, names and CHS addresses are left out. A CRC is an injective function of what
it covers, so the properties are about the order of stores, not about collisions.

### Installer and Boot

`Installer` has the real numbers: disk sizes in bytes, 512-byte sectors, 4096-byte
clusters. Its calls of `GPTGenerate`, `createFAT32` and `FAT32Copyin` are single
steps with the results `Gpt` and `Fat32` establish, including the refusals and the
assertions that abort (`SuperDies`, `LinkDies`). A partition that was never
formatted is what the `memset` of `GPTGenerate` left, zeros (`Blank`). The size of a file
is truncated to 32 bits as at `fat.c:785` (`Stored`): of a file of 2^32 bytes or more a
part is stored and the tool exits with 0. `ExitZeroMeansInstalled` claims room for the
whole file only below that size.

`Boot` starts when a tool has ended with success. Memory is the list of sector
reads; the instruction pointer must always be at something that was put there. A
kernel file has exactly the size its header announces; `bzimage.c` computes that size in 32
bits, and the properties are about kernels below 2^32 bytes. Addresses of the model do
not wrap, so a kernel that ends within 1 MiB of 4 GiB is beyond it. Only a boot partition of
128 MiB (and the fixed 262140 sectors of `mkgpt`) puts the loader at sector 531 and
the kernel at 539; `BootFindsKernel` is about those disks (`Matching`). With 63 setup
sectors or more the real-mode code overwrites the loader's stack; the loader may then
be lost (`HitsStack`), and the properties speak of up to 62.

`Payload` runs `getpayload` on the kernel file while that kernel runs.
`PayloadWhereLoaded` compares what it wrote with what is in memory `payload_offset`
bytes behind the load address: two pieces of code that compute the same place. `getpayload`
does not compare the range with its mapping. Exit code 0 means payload_length bytes from
that place; the property compares those that lie in the full sectors the loader reads.

### LineReader, Shell, Pipeline

`LineReader` keeps the caller's buffer between calls, because `fdgets` decides that a
line is complete by looking at a byte it may not have written. A line longer than the
buffer ends in the state `"overrun"`. Three histories tell what happens to the stream:
`arrived` is all that was read, `fetched` what was read into a queue that was then used,
and `gap` says that the running call lost a chunk behind its first byte. A read that fills
the queue makes it look empty, and its chunk is lost. `StreamPreserved` says that nothing
else is; `LinesKeptApart` that a line stands in the stream as it is returned unless a chunk
was lost in the middle of the call, in which case the code joins what is left of two lines.
A last line without a newline is read and never returned, since `fdgets` reports the end of
input instead.

`Shell` takes a line as lexemes: tokens, `;` for any character that ends a command,
and a blank where nothing else is left. A write behind `jobs` or `argv` is the state
`"overrun"`, a read through the null `exe` the state `"crashed"`.

`Pipeline` has one process per stage with its descriptor table. Stages below 0 are
processes that should not exist: `exec_single` returns when every `execve` fails, and
the compiler has dropped the `sys_exit` after a call declared `noreturn`. `Depth`
bounds them: fork fails after so many. A stage other than 0 whose `execve` failed is taken to
end, although the `sys_exit` at line 106 may be dropped like the other: what follows it
in memory is not known from the source.

### Eval, Wc, Mkdir, Utilities, Devices, Elf

`Eval` keeps the static buffer between lines. `eval_recur` is a stack of frames `[ret,
cur, op]`; `EvalOpen` pushes one and `EvalReturn` pops it, one byte further than the
bracket. Long arithmetic wraps, a division that traps is the state `"fault"`, and a walk
that leaves the buffer is `"wild"`. `LeftToRight` is about lines written from an
expression (`WrittenFrom`): numbers and brackets around numbers, any number of each,
with operators between them. Its value, `ValueOf`, is computed from the numbers and
never looks at a byte. It is the value of the expression as long as nothing stands
behind a bracket. The loop steps over the byte behind one, so that the operator written
there is lost and the one in front of the bracket counts again (`Applied`): `(3)+12` is
12 and `1+(2)*3` is 6. Brackets inside brackets are not among these expressions.
`StaysInLine` is about any line whose brackets are closed one by one. A line without a
newline at its end loses its last operand, since only a newline applies it: this is what
the code does, and neither property speaks of such lines.

`Wc` reads pieces of any length. A byte of 0x80 and up indexes in front of the table
`chtype`, so that its class is chosen freely; `WcCounts` claims the number of words only
for streams without such bytes. The counters are 32 bits wide (`WcWord`): each count is
right up to multiples of 2^32.

`Mkdir` keeps the static buffer between arguments, byte by byte, because the last level
is made without a zero byte behind it. `OtherMakes` is another process that makes a
directory at any moment; `open` may fail wherever it is called. `MkdirDelivers` is about the
path in the buffer, `MkdirMakesArguments` about the arguments.

`Utilities` runs one job; what the kernel answers is part of the job or chosen at the
call. `FileChanges` cuts short or extends the file `cat` has open, and a write may be
short. `ls` and, in `Printf`, `echo` and `env` write behind their buffer in the state
`"overrun"`, and go on. In `Devices` users insert, remove, open, read and write in any
order; the kernel keeps a module while a file of it is open. A device whose module was
removed stays registered, and opening it is the state `"stale"`; `DeviceCalls` says that
nothing but `rmmod` leads there.

`Elf` has the loader of `vmlinux.c` sector by sector and `gettext` call by call. Each
sector passes through the buffer at `SECTOR_DATA_START`, which is part of the modelled
memory. A program header is read from one sector: a field that lies behind the end of it
is whatever the stack holds (`StackBytes`), and the loader goes on with that and jumps
in the end. `KernelLoaded` is about kernels whose headers are `Sound`: readable, no
longer in the file than in memory, and clear of the sector buffer. With `e_phoff` 64 and
headers of 56 bytes the first header across two sectors is number 17, counted from 0.
The loader's own code and stack are not part of the modelled memory, so a segment over
them is not covered. A short write of `gettext` leaves its bytes in the image before it
exits.

### Format

All values of an `int` (below `IntHalf`, down to `-IntHalf`) and of a `long` (`LongHalf`),
through every conversion; signed overflow in `-val` wraps, as on the target of the build.
The caller's buffer has `DstLen` bytes. `Sprintf` does not know that: a store behind it,
and a conversion without an argument, is undefined behaviour and ends in the state
`"undefined"`. `spans` is a history variable: which part of the output each conversion
wrote.

## Runs

Passing runs (every property holds on every reachable state or behaviour):

| Run | States | Shows |
|---|---|---|
| `fat32_crash` | volumes of 16–24 sectors, three files (empty, one whose size is above the word size, two clusters), up to three entries; one process that fills a root directory; processes that die in the FSInfo update on the largest volume the offsets can address | whatever sequence of copies, failures, crashes and reformatting: stored files stay intact and apart, `nextFree` is free, the tables differ at most behind `nextFree`, a returned sector names the stored file, aborts have one of five causes, the root directory does not spill into data, freeCount is too low for the assertion only after two deaths inside the FSInfo update, no offset wraps, and the history is one of `Volume` |
| `gpt_layout` | disks of 4 to 9 blocks, up to five partitions of 0, 1 or 3 blocks | placement, the entry loop and what it clears behind the array, header consistency |
| `boot_chain` | both tools, sizes at, below and above each limit, missing, empty and too large files, a kernel whose size does not fit the word, all option errors; on the disks they make, kernels with up to 62, 63 and 255 setup sectors | partitions tile the disk and hold their files; exit 0 only when everything is stored, as far as 32-bit sizes can tell; the tools end; the loaders find the kernel, put each sector in place and overwrite nothing they need; `getpayload` writes what the loader loaded |
| `reader_stream` | every stream of up to five bytes over two letters, NUL and newline, and of six to eight over a letter and newline; a queue of three bytes and a line buffer of four | the bytes of reads that do not fill the queue are returned once and in order, but for a last line without newline; only whole queues are lost, lines are run together only across such a loss, only a single long line overruns the buffer otherwise, the loop ends |
| `shell_session` | a line that leaves arguments, redirections or a built-in behind, then every line of up to five lexemes, built-ins and blanks included | commands come out as `AsWritten` says; only ill-formed or oversized ones stop the shell; every line is worked off |
| `pipeline_run` | three stages, pipes of capacity one, nine sets of redirections, every call may fail | no leaked pipe end, complete output, everything ends |
| `format_all` | all values of both widths, formats of up to three characters or two conversions | conversions and `atoi` read back, text between them is kept |
| `programs_all` | `eval` on two lines, `wc` on streams of up to four bytes in every cut, `mkdir` with up to two arguments next to another process, jobs of the other utilities, the devices, ELF files | what the eight properties say of each program, whatever its calls answer, and that it ends (`yes`, `pause` and `seq` up to `INT_MAX` excepted) |

## What disagrees with the repository's own text

Four runs state one sentence of a comment or an assertion each, and TLC finds a
behaviour of the code that contradicts it:

| Run | The text | The code |
|---|---|---|
| `fat32_empty` | `fat.c:749`, assertion against writes out of bound | fails for an empty file on a full volume: it needs no cluster and passes the size check, but gets a table entry |
| `pipeline_noreturn` | `system.c:31,33`, does not return | returns when `execve` fails, and the process of stage 0 makes a pipe and forks again |
| `boot_default` | `installer.c:3`, the device can be booted | not with the default boot partition of 64 MiB: the loader is at sector 275, the boot code reads 531 |
| `mkdir_args` | `mkdir.c:5`, makes the directory recursively | `mkdir ab a` makes `ab`, finds `ab` again where `a` is due, since the buffer still holds the `b` of the first argument, and exits with 0 without having made `a` |

Smaller disagreements are not runs of their own; the models do what the code does, and
the passing properties say so or leave the case out, as noted here:

* `fat.c:345` calls freeCount the free cluster count; line 425 counts the entries of
  both tables, and a death between lines 884 and 885 lowers it for a file that is not
  stored. `AssertsHold` says that the assertion which uses it fails only after two of those.
* `fat.c:752` stores in every table, one after the other; a death in between leaves them
  different. `TablesAgree` is about clusters below `nextFree`.
* `fat.c:838` says the directory entry finalizes the copy; tables and FSInfo follow it.
  A crash in between leaves an entry whose clusters are free. `FilesIntact` is about
  copies that completed FSInfo.
* `fat.c:777` speaks of rejecting huge files; the size is truncated to 32 bits first, so a
  file of 2^32 bytes or more is stored in part. `ExitZeroMeansInstalled` says so.
* `gpt.c:219` describes firstUsableLBA; line 393 stores the block after the last
  partition.
* `stdio.c:19` fills an empty buffer; a read that fills it completely makes it look
  empty and the chunk is lost. `StreamPreserved` says that only such chunks are, and
  `LinesKeptApart` that lines are run together only across one.
* `fdgets` never returns a last line without a newline (`StreamPreserved`).
* `installer.c:210` handles incorrect usage; an unknown option keeps the loop before
  it from ending. `ToolEnds` is about known options.
* `bzimage.c:96` reads the kernel; a last partial sector is left out.
  `BootFindsKernel` speaks of full sectors.
* `stdio.c:74` lists the formats; `%l`, `%x` and `%p` print no digit for zero.
  `ConversionsReadBack` says that these are the only values not shown.
* `ls.c:3` assumes names of up to 14 characters; the buffer has room for 12, and names of
  13 to 20 are written past its end. The model reaches it; no property speaks of that buffer,
  nor of the one of `Printf`, which a long string is written past in the same way.
* `eval` loses the operator behind a bracket, and applies the one in front of the bracket
  again. `LeftToRight` is about what it computes (`Applied`), not about what is written there.
* `cat` exits with 1 for an empty file, and with 0 after a short write (`CatCopies`).
* `kill` without a pid sends to -1, every process (`KillTarget`).
* `wc` counts a last line without a newline only if it is the only one (`WcCounts`).
* `kill` with `-s` as its last argument reads the null pointer behind `argv`.
* `seq` up to `INT_MAX` does not end (`ProgramsEnd`).
* `vmlinux.c:115` tests `p_type & PT_LOAD`, which every odd type passes; `KernelLoaded`
  speaks of addresses that one such segment covers. A header across two sectors is read in
  part, and a segment may lie in the sector buffer; `KernelLoaded` leaves those kernels out.
* `getpayload.c:105` writes from any offset the header names. `PayloadWhereLoaded` compares
  the part in the sectors the loader reads.
* The exit functions of both devices leave them registered; opening such a device runs
  code that is gone. `DeviceCalls` says that only this leads there.

## Bounds

* `fat32_*`: `Half = 256`, `Word = 65536`: the largest volume has 128 sectors, which is
  the analogue of 4 GiB, so wrap-around and the split of a cluster number happen at
  these sizes. `MaxEntries = 3` (a constraint): a crash leaves an entry behind, so
  three entries allow, for instance, a stored file, a crash and another file. On a volume of
  32 sectors `OneProcess` drops the behaviours with a crash, or a read that failed half-way:
  filling its root directory takes 16 entries. On the largest one, which has nearly as many
  clusters as a table has entries, `DiesInUpdate` keeps the deaths inside the FSInfo update:
  two of them are needed to make freeCount too low. About 271,000 states.
* `gpt_layout`: `UINT32_MAX = 8`, so that the cap of the protective MBR is met; five
  partitions need a second block of the entry array.
* `boot_*`: real sizes with `Word = 2^30`, because TLC's integers have 32 bits; one
  kernel has a MiB more than 2^30 bytes, everything else is below. Kernels have 0 to 4,
  27, 62, 63 and 255 setup sectors: 62 is the largest number that leaves the stack below
  0xA000 one sector, 255 the one at which the 8-bit counts wrap.
* `reader_stream`: a queue of 3 bytes and a line buffer of 4. Five bytes are enough to leave
  a longer line in the buffer, cut the next one anywhere and overrun the buffer; eight to
  lose a whole queue with a newline between two pieces of a call. About 238,000 states.
* `shell_session`: `MaxJobs = 4` as in the code, `MaxArgv = 4` for 64: five lexemes meet
  both limits. Two lines, the first from a small set, show what one leaves to the next.
* `pipeline_*`: three stages are the fewest with a stage that has pipes on both sides.
  `Cap = 1` makes writers block, `Items = 2` makes them do so with more to come.
  `Depth = 1` runaway process.
* `programs_all`: `EvalHalf = 128`, a long of 8 bits, so that products of the numbers 0,
  3 and 12 wrap; divisors are 0 as well. `EvalBuf = 13`, the longest line and its zero
  byte. The first of two lines leaves brackets or operators behind. `WcPool = 3` cuts
  streams of four bytes; `WcWord = 4` makes the counters wrap. `MkdirBuf = 6` holds
  every path but one, which runs past its end. `IntMax = 7`, `CatBuf = 2`, `ZeroBuf =
  2`: several rounds of each loop; `PrintfBuf = 4` is met exactly, and exceeded by one
  byte and by many. `MaxInserts = 2` is the fewest that tells a reloaded module from the
  one before; `MaxPos = 8` bounds the position of a file. `SECTSIZE = 8` with headers of
  4 bytes from offset 4, 5, 6 or 7: a header lies in a sector, or leaves an unused
  field, its sizes or all but its type to the next one. `StackBytes = {0, 3}` may make a
  torn header loadable or not. About 252,000 states.
* `format_all`: `IntHalf = 16`, `LongHalf = 64`: two and three decimal digits, both signs.
  `DstLen = 12` is just filled by some formats and exceeded by others.

Deadlock is checked in every run: the places where a program really stops are actions
named `Done`, or states in which a new process may start.

## Fairness

* `Pipeline`: weak fairness of each process's own steps and of the shell's. The kernel
  runs what can run. A program may quit (`Quit`), but nothing makes it: `PipelineEnds`
  does not rest on it.
* `LineReader`, `Shell`, `Programs`, and the image tools in `Boot` and `Payload`: weak
  fairness of the program's only thread. For the shell this includes that `exec_job`
  returns, which is `PipelineEnds`. Nothing is assumed of other processes, of the users
  of a device, or that a machine is ever switched on.
* `Fat32`, `Gpt`, `Format`: no fairness; only safety is claimed.

## Proofs

The theorems hold for every value of the constants that satisfies the named
assumptions; TLC checks the same properties on the instances of the runs, where it also
evaluates the assumptions.

| Module | Theorem | Property | Hypothesis |
|---|---|---|---|
| `Fat32Proofs` | `TypeCorrect` | `TypeOK` | `VolumesFit` |
| | `StoredFilesStayIntact` | `FilesIntact` | `VolumesFit` |
| | `NextFreeIsFree` | `NextFreeUnused` | `VolumesFit` |
| | `OffsetsNeverWrap` | `NeverWild` | `VolumesFit` |
| | `AssertionsHold` | `AssertsHold` | `VolumesFit` |
| | `ReturnedSectorNamesFile` | `ReturnNamesFile` | `VolumesFit` |
| | `TablesAgreeOnFiles` | `TablesAgree` | `VolumesFit` |
| | `RootStaysInItsCluster` | `RootFits` | `VolumesFit` |
| | `AbortsAreExplained` | `AbortsExplained` | `VolumesFit` |
| | `BuilderImplementsVolume` | `ImplementsVolume` | `VolumesFit` |
| `GptProofs` | `PartitionsLieApart` | `PartitionsFit` | – |
| | `LongestPrefixPlaced` | `PlacesPrefix` | – |
| | `EntriesStayWritten` | `EntriesKept` | – |
| | `HeadersCheckOut` | `HeadersConsistent` | – |
| `BootProofs` | `DiskIsLaidOut` | `DiskLaidOut` | `DisksFit` |
| | `ExitZeroInstalls` | `ExitZeroMeansInstalled` | `DisksFit` |
| | `MemoryStaysApart` | `MemoryApart` | – |
| | `ChainFindsKernel` | `BootFindsKernel` | `DisksFit` |
| | `PayloadFound` | `PayloadWhereLoaded` | – |
| `StdioProofs` | `StreamReachesCaller` | `StreamPreserved` | – |
| | `LinesStayApart` | `LinesKeptApart` | – |
| | `FormatKeepsText` | `TextKept` | – |
| | `FormatShowsArguments` | `ConversionsReadBack` | – |
| `ShellProofs` | `LineCommandsCarriedOut` | `CommandsAsWritten` | – |
| | `ShellFailsOnlyOutOfBounds` | `FailsOnlyOutOfBounds` | – |
| `PipelineProofs` | `NoPipeEndLeaks` | `NoLeakedPipeEnd` | – |
| | `NothingIsLostInThePipeline` | `OutputComplete` | – |
| `ProgramsProofs` | `DevicesServeCalls` | `DeviceCalls` | – |
| | `WcCountsStream` | `WcCounts` | – |
| | `LoaderLoadsKernel` | `KernelLoaded` | – |
| | `GettextExtracts` | `TextExtracted` | – |
| | `UtilitiesDoAsTold` | `UtilitiesAsTold` | – |
| | `EvalLeftToRight` | `LeftToRight` | – |
| | `EvalStaysInLine` | `StaysInLine` | – |
| | `MkdirDeliversPaths` | `MkdirDelivers` | – |

Every safety property of a passing run is proved.

### Assumptions

The `ASSUME`s of the modules (`WordAssumption`, `ConfigAssumption`, `FileAssumption`,
`GptAssumption`, `InstallerAssumption`, `BootAssumption`, `ReaderAssumption`,
`ShellAssumption`, `FormatAssumption`, `PipelineAssumption`, `DevicesAssumption`,
`WcAssumption`, `ElfAssumption`, `UtilitiesAssumption`, `EvalAssumption`,
`MkdirAssumption`) give the types of the constants and say that buffers are not empty,
that a C string holds no NUL, that a directory of the initial tree lies in one, and that a
line of `eval` with an expression is written from it. The hypotheses say more:

* `VolumesFit`: no configuration describes more than `Word` (2^32) bytes. Above that the
  offsets of `fat.c` do wrap.
* `DisksFit`: the same of the boot partition, for every `-s` option and for the default
  of `mkgpt`.

The configurations of the runs satisfy both. What a theorem says is what its property says:
the conditions in `Sane`, `Sound`, `WrittenFrom` or `gap` are part of the properties.

### Induction and recursion

Provers here cannot use an induction theorem that takes a predicate. `Induction` states
it for a set instead (`SetInduction`: a set with 0 and every successor holds all natural
numbers), from `WFMin` of the library, and derives that a recursion on a natural number
has a solution (`RecursionExists`) and only one (`RecursionUnique`). With these a
recursive function is opened: `TakenSum` (sums of partition sizes), `ChainInOrder` (the
chain of a file, followed through a table), `NonNulIs` (the bytes without NUL),
`GatheredIs` (the segments one after the other), `ListedStep` (the places of a set in
order, from which `Shell` cuts a line into commands and jobs), `WalkIs` (the names of a
path), `NumbersAre`, `EndsAre`, `ValuesAre`, `ItemEndsAre`, `AppliedAre` and
`ItemValuesAre` (an expression of `eval`, operand by operand and item by item) each give its
value for every argument. The digit loops of `Format` go down by
division and not by one; `DescentExists` and `DescentUnique` are the same facts for a
recursion from a number to any smaller one.

### The arguments

**Fat32.** None of the properties is inductive alone. The invariant `Inv` adds, to
`TypeOK`, `FilesIntact`, `NextFreeUnused` and `NeverWild`:

* `VolumeInv`: the disk is zero or carries the geometry of one configuration,
  `nextFree` lies between the first data cluster and the end, and freeCount is high enough
  for every file that fits, less the clusters of one file after a death inside the FSInfo
  update (`CountInv`);
* `OpInv`: the locals of a running copy agree with FSInfo, and the extent fits;
* `DataInv`: after `Copy`, the new extent holds the new file's data;
* `LinkInv`: while the links are stored, both tables chain the part linked so far, and between
  the two stores the first table is one entry ahead;
* `EntryInv`: while a copy runs past `Dirent`, the last entry describes it.

Every store of a copy before `FsInfoNext` goes to clusters at or above `nextFree`
(`StoredStable` says those leave stored files intact), and `FsInfoNext` moves `nextFree`
past the extent and makes the file stored in one step, when `DataInv`, `LinkInv` and
`EntryInv` together say it is intact. A crash changes no disk state and forgets `op`. One
death inside the FSInfo update still leaves a freeCount of at least the clusters of one
volume, because the entries of two tables were counted (`FreeCountEnough`).
What makes it true for all sizes is the geometry: `FatSize`, `DataRegion`, `Geometry`
and `Allocation` show that below 4 GiB no product wraps, that the tables have an entry
for every cluster, and that the size check leaves room for the extent.

`CallInv` adds what a caller sees: room in the directory for the entry in progress, the
sector to be returned, tables that agree below `nextFree`. It is preserved by steps from
states with `Inv`.

The refinement maps the disk to the set of files read through the first table. Every
step but `Format` and `FsInfoNext` is a stutter, because `FilesIntact` before and after it
says that each stored file reads the same (`ChainInOrder`); `FsInfoNext` is the abstract
store, whose sizes `SizeInv` and `StoreInv` provide; `Format` is the abstract one.

**Gpt.** `GptInv` ties the locals of the allocation loop (`start`, `remains`) to the sum
of the sizes placed so far, so that the code's test of what remains is the test of
`GptLayout` on the prefix, and gives slot by slot what the entry loop has written,
cleared and not touched after `i` rounds.

**Installer, Boot, Payload.** `ToolInv` says for each place of both tools what is on the
disk: partitions (`PartsInv`), the volume and where the next file goes (`FatInv`), the
files copied (`FilesInv`, `OrderInv`), and what a successful end implies (`DoneInv`).
`ChainInv` gives the exact content of memory in every stage of the chain, from which
`MemoryApart` follows by arithmetic. `NotLost` says that with matching layouts each jump
goes to what was read: the one place where the sector arithmetic of `gpt.c` and `fat.c`
meets the constants 531 and 539.

**LineReader.** `ReaderInv` adds to the two properties that the bytes the running call
has copied hold no NUL, and that a newline among them is the last and has the NUL behind
it that ends the loop. Without it a byte an earlier line left could end the call. `PlaceInv`
says where the copied bytes stand in the stream of all that was read: directly before those
in the queue, until a whole queue is lost behind them (`gap`).

**Format.** `FormatInv` says of the part of the format looked at so far what `TextKept`
says of the whole, with the offset between format and output after each conversion, and
that the characters of every conversion are still where it put them. That they show the
argument is a matter of the digit loops alone, by induction over the magnitude: the digits
of a number read back to it (`PutReadBack` for `atoi`), whatever its length. The most
negative value needs its own argument, since its negation is itself.

**Shell.** `AsWritten` cuts a line at its semicolons and pipes; the code walks over it
once with flags. `PlaceInv` ties the walk to the cuts: the tokens of the current command
that were looked at are a prefix of what `AsWritten` sees. `ParseInv` says that the
entry of `jobs` being filled and the pending redirections are what that prefix means;
one more token changes both sides in the same way. `RanInv` keeps the commands already
carried out. For `FailsOnlyOutOfBounds` the jobs and arguments of a prefix never
outnumber those of the command (`SeenGrows`), so an overrun shows that the command has
too many.

**Pipeline.** `TableInv` follows each descriptor table: the open descriptors are always
0 to n - 1, the ends `pipe` returned are the last two, and which descriptors may be which
end depends on how far the process is. That gives `NoLeakedPipeEnd` with every call
failing anywhere. For `OutputComplete`, `FlowInv` says that, as long as nothing failed,
processes exist from the last stage down, each is wired to its neighbours, a dead stage
has only dead stages before it, and the items are conserved along the pipeline, a sum
over any number of stages stated through the partial sums.

**Programs.** A step of the composition is a step of one program or leaves its variables
alone (`DevStepIs`, `WcStepIs` and so on). `DevInv`: a registered device has its code or
lost it to `rmmod`, an open file belongs to the loaded generation, and a read has
cleared exactly what it counts. `WcInv`: the counters are those of the bytes looked at,
modulo `WcWord`, the pool is the rest of the bytes read, and `white` is the class of the
last byte looked at, whichever read it came from. `LoaderInv`: if all headers are
`Sound`, memory outside the sector buffer and the segment being read is as the headers
so far want it; inside, up to `kdst`, byte by byte. `GettextInv`: the image is what the
headers so far contribute, and the part of the current segment that was copied.
`UtilInv` has one part for each of the utilities with a loop, which ties what was
printed or sent so far to the index of the loop; for `kill`, that pid and signal are
those of the arguments looked at, and that the loop is at an argument that no `-s`
before it takes (`AtHead`).

`MkdirInv`: the buffer is the argument so far with a zero byte at the slash being made,
and behind it what earlier arguments left; the levels so far are reached, which the other
process cannot undo; the directories of earlier arguments, as the buffer spelled them
with what was left behind a shorter one, exist.

For `eval`, `EvalInv` says that the line is in the buffer up to its zero byte and, on a
line whose brackets are closed one by one, that an open bracket is the last one in front
of `epos` and there are at most two frames. It does not mention values. `WalkInv` adds
for a line written from an expression where in it the walk is (`WalkAt`): behind some digits
of item `k`, in front of its bracket, behind some digits of an operand inside it, or behind
the newline, with the exact frames of each place: the value of the items before, the number
of the digits so far and the operator that counts, which behind a bracket is the one of
`Applied`. One lemma per place shows where the next byte leads (`NumberStep`, `BracketStep`,
`GroupStep`, `EndStep`), and what a number or a bracket that ends hands on to the item
behind it is said once (`ItemFollowed`). Prefixes of a number that fits a long do not wrap
(`OperandIs`); `StepIs` makes one call of `eval_simple` one step of the reference; once a
prefix has no value the whole has none (`ValuesAre`, `ItemValuesAre`), so a fault is never
spurious.

### Only model-checked

* Liveness: `ReadsToEof`, `PipelineEnds`, `LineEnds`, `ToolEnds`, `ProgramsEnd`. Fairness
  and `ENABLED` are out of reach of the prover.
* The four properties that the code violates.

## What is not modelled

* `biosmbr.S`: an alternative boot sector that no tool installs. Processor modes and
  port I/O of the modelled stages appear only through where control and data go.
* `sys.S`, `jump.S`, `x86.h`, `mman.h`, `elf.h`: register-level wrappers, structures and
  constants.
* `bios/`: straight-line assembly; `blockdev.c`, `init.c`, the build system: no state.
* `FAT32Mkdir` only returns 1.
* Within modelled parts: volumes above 4 GiB (beyond the fact that offsets wrap; the
  32-bit product at `fat.c:800`, which refuses files on such volumes, has no property),
  the size of `job_t.buf`, a crash inside `createFAT32`, a torn directory entry, GUIDs, names
  and dates, several files of one device open at a time, brackets inside brackets in
  `LeftToRight`, segments over the memory of the ELF loader itself.

## Plan

Done: the modules in the order `Fat32`, `Gpt`, `LineReader`, `Pipeline`, `Shell`,
`Installer`, `Boot`, `Format`, `Payload`, `Eval`, `Wc`, `Mkdir`, `Utilities`, `Devices`,
`Elf`, `Programs`; then the proofs of the table above.

Every safety property the passing runs check is proved; the liveness properties stay with
TLC. Two extensions of the model are left:

1. A composition of `LineReader` and `Shell`: lines cut by reads, run as commands.
2. `createFAT32` in groups of stores, with a crash between them.
