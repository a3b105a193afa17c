------------------------------- MODULE MCBoot -------------------------------
(* Real sizes, but for Half and Word, which are 2^15 and 2^30 since TLC has  *)
(* no 2^32; one kernel has a MiB more than 2^30 bytes.  Kernels of           *)
(* 4096 * 32699 and 4096 * 4083 bytes fill a volume of 128 and 16 MiB to     *)
(* the last cluster.                                                         *)
EXTENDS Payload

O(opt, val) == [opt |-> opt, val |-> val]
MiB == 1048576
Header(setup, size) == [setup_sects |-> setup, syssize |-> size, valid |-> TRUE, high |-> TRUE,
                        poff |-> 717, plen |-> 16 * size - 1000]

\* The defaults, few, many and too many sectors of real-mode code, a kernel that does
\* not end on a sector, one whose size wraps, payloads that are empty or longer than
\* the file by less or more than a page, and kernels the loader must reject.
MCHeaders == {Header(0, 65536), Header(1, 65536), Header(27, 65541), Header(62, 65536),
              Header(63, 65536), Header(255, 65536),
              Header(5, 67108864 + 65536),
              [Header(2, 65536) EXCEPT !.plen = 0],
              [Header(3, 65532) EXCEPT !.plen = 16 * 65536 - 700],
              [Header(4, 65536) EXCEPT !.plen = 16 * 65536 + 8192],
              [Header(27, 65536) EXCEPT !.valid = FALSE],
              [Header(27, 65536) EXCEPT !.high = FALSE]}
OneHeader == {Header(27, 65536)}
Kernels == {FileSize(h) : h \in Headers}

\* Files that are missing, empty, small, a cluster long or a byte more, and larger
\* than the volume; the kernel of the inputs is mkgpt's.
Files(l, k, i, m) ==
  [loader |-> l, kernel |-> k, busybox |-> 2 * MiB, init |-> i, mbr |-> m]
MCInputs == {Files(l, k, i, m) :
               l \in {NoFile, 0, 822, 4097}, k \in {NoFile, 130 * MiB},
               i \in {NoFile, 900}, m \in {NoFile, 512}}
            \cup {Files(l, k, 900, m) :
                    l \in {NoFile, 0, 822, 1025}, k \in Kernels, m \in {NoFile, 300, 512}}
Built == {Files(822, k, 900, 300) : k \in Kernels}

Full(k, d, s) == <<O("-k", k), O("-d", d), O("-s", s), O("-busybox", 2 * MiB)>>
MCCommandLines ==
  {Full(k, d, s) : k \in {NoFile, 12 * MiB, 4096 * 32699, 4096 * 32764},
                   d \in {4095, 16 * MiB + 32767, 16 * MiB + 32768, 256 * MiB + 5000},
                   s \in {-1, 0, 16, 128}}
  \cup {Full(k, 256 * MiB, 128) : k \in Kernels}
  \cup {<<O("-k", 4096 * 4083), O("-d", 256 * MiB), O("-s", 16), O("-busybox", 0)>>}
  \cup {<<O("-h", NULL)>>, <<O("-s", NULL)>>, <<>>, <<O("other", 0)>>,
        <<O("-k", 0), O("-d", NULL)>>, <<O("-d", 256 * MiB), O("other", 0)>>,
        <<O("-busybox", 0), O("-d", 256 * MiB), O("-k", 12 * MiB)>>}
Default == {Full(k, 256 * MiB, 64) : k \in Kernels}
=============================================================================
