--------------------------- MODULE PipelineProofs ---------------------------
(***************************************************************************)
(* Proofs about Pipeline, for any number of jobs, any redirections and any *)
(* set of failing calls.                                                   *)
(*                                                                         *)
(* TableInv follows the descriptor table of every process through          *)
(* exec_recur_noret and exec_single: the open descriptors are always       *)
(* 0 .. n - 1, the two ends that pipe returned are the last two of them,   *)
(* and which descriptors may be an end of which pipe depends on how far    *)
(* the process has come.                                                   *)
(***************************************************************************)
EXTENDS Pipeline, Induction

PCs == {"none", "recur", "pipe", "fork", "child1", "child2", "parent1", "parent2",
        "redir0", "redir1", "redir2", "exec", "run", "dead"}
Live == PCs \ {"none", "dead"}
NotPipe == {Closed, Std, File}
Ends == NotPipe \cup {R(k) : k \in Stages} \cup {W(k) : k \in Stages}

TypeInv ==
  /\ shell \in {"call", "wait", "returned"}
  /\ pc \in [Stages -> PCs] /\ fds \in [Stages -> [Fds -> Ends]]
  /\ pip \in [Stages -> (Fds \X Fds)]
  /\ redir \subseteq Jobs \X (0..2)

\* The open descriptors of table t are 0 .. n - 1.
Prefix(t, n) == \A d \in Fds : (t[d] # Closed) <=> (d < n)

\* Outside S the only pipe end in table t is the write end of pipe k, as
\* standard output.
Clear(t, k, S) == \A d \in Fds : d \notin S => t[d] \in NotPipe \/ (d = 1 /\ t[d] = W(k))

HasPip(p, n) == n \in 5..8 /\ p[1] = n - 2 /\ p[2] = n - 1

\* A process at c, of stage k, whose first n descriptors are open.
SizeOk(c, k, p, n) ==
  /\ c = "recur" => n <= 6 /\ (k >= 0 => n = 3)
  /\ c = "pipe" => n <= 6 /\ (k > 0 => n = 3)
  /\ c \in {"fork", "parent1", "parent2"} => HasPip(p, n) /\ (k > 0 => n = 5)
  /\ c \in {"child1", "child2"} => HasPip(p, n) /\ (k >= 0 => n = 5)
  /\ \A d \in 0..2 : c = RedirPc[d] => n <= 6 + d /\ (p = NoPip => n <= 3 + d)
  /\ c = "exec" => (p = NoPip => n <= 6)

\* The pipe ends in its table.
EndsOk(c, k, p, t) ==
  /\ c \in {"recur", "pipe"} => Clear(t, k + 1, {})
  /\ c \in {"fork", "parent1"} =>
       Clear(t, k + 1, {p[1], p[2]}) /\ t[p[1]] = R(k) /\ t[p[2]] = W(k)
  /\ c = "child1" => Clear(t, k + 2, {p[1], p[2]}) /\ t[p[2]] = W(k + 1)
  /\ c = "child2" => Clear(t, k + 1, {p[1], p[2]})
  /\ c = "parent2" => Clear(t, k + 1, {0, p[1], p[2]}) /\ t[0] = R(k)
  /\ c \in {"redir0", "redir1", "redir2", "exec", "run"} =>
       /\ Clear(t, k + 1, {0}) /\ (t[0] \in NotPipe \/ t[0] = R(k))
       /\ p = NoPip => t[0] \in NotPipe

StageOk(c, k, p, t) ==
  c \in Live =>
    /\ \E n \in 3..9 : Prefix(t, n) /\ SizeOk(c, k, p, n)
    /\ EndsOk(c, k, p, t)
TableInv == TypeInv /\ \A k \in Stages : StageOk(pc[k], k, pip[k], fds[k])

----------------------------------------------------------------------------
(* What holds as long as no call failed, no program quit and nothing is    *)
(* redirected.                                                             *)

Forked == {"parent1", "parent2", "redir0", "redir1", "redir2", "exec", "run", "dead"}
Unwired == {"recur", "pipe", "fork", "parent1", "child1", "child2"}

CountInv ==
  /\ pipe \in [Stages -> Nat] /\ hand \in [Stages -> 0..1]
  /\ left \in [Stages -> Nat] /\ out \in Nat /\ clean \in BOOLEAN

\* The processes are created from the last stage down to stage 0.
Created ==
  /\ shell = "call" => pc[Cnt - 1] = "none"
  /\ shell # "call" => pc[Cnt - 1] # "none"
  /\ shell = "returned" => pc[Cnt - 1] = "dead"
  /\ pc[Cnt - 1] \notin {"child1", "child2"}
  /\ pc[0] \notin {"pipe", "fork", "parent1", "parent2"}
  /\ \A k \in Jobs : pc[k] \notin Forked => \A j \in Stages : j < k => pc[j] = "none"
  /\ \A k \in Jobs : k > 0 /\ pc[k] \in Forked => pc[k - 1] # "none"
  /\ \A k \in Stages : k < 0 => pc[k] = "none"

\* Standard input and output of a process of stage k at c with table t.
WiredAt(k, c, t) ==
  /\ k < Cnt - 1 /\ c # "child1" => t[1] = W(k + 1)
  /\ k = Cnt - 1 => t[1] = Std
  /\ k = 0 \/ c \in Unwired => t[0] = Std
  /\ k > 0 /\ c \notin Unwired => t[0] = R(k)
Wired == \A k \in Jobs : pc[k] \in Live => WiredAt(k, pc[k], fds[k])

\* A stage ends at end of file: every stage before it has ended, and nothing
\* is left in its pipe or in its hand.
Ended ==
  \A k \in Jobs : pc[k] = "dead" =>
    /\ \A j \in Jobs : j < k => pc[j] = "dead"
    /\ hand[k] = 0 /\ pipe[k] = 0 /\ (k = 0 => left[0] = 0)

\* f[k] items have reached stage k or the pipe before it.
Flows(f, h, p, l, o) ==
  /\ f[Cnt] = o /\ f[0] + l[0] = Items /\ p[0] = 0
  /\ \A k \in Jobs : f[k] = f[k + 1] + h[k] + p[k]
Conserved == \E f \in [0..Cnt -> Int] : Flows(f, hand, pipe, left, out)

Flow == Created /\ Wired /\ Ended /\ Conserved
FlowInv == clean /\ redir = {} => Flow

----------------------------------------------------------------------------
(* Descriptor tables.                                                      *)

\* The values a descriptor can have are told apart by their kind.
LEMMA EndKinds ==
  /\ Closed.kind = "closed" /\ Std.kind = "std" /\ File.kind = "file"
  /\ Closed # Std /\ Closed # File
  /\ \A k : /\ R(k).kind = "r" /\ W(k).kind = "w" /\ R(k).pipe = k /\ W(k).pipe = k
            /\ R(k) # Closed /\ W(k) # Closed /\ R(k) \notin NotPipe /\ W(k) \notin NotPipe
BY DEF Closed, Std, File, R, W, NotPipe

\* The kinds of end there are.
LEMMA EndsHave ==
  /\ Closed \in Ends /\ Std \in Ends /\ File \in Ends
  /\ \A k \in Stages : R(k) \in Ends /\ W(k) \in Ends
BY DEF Ends, NotPipe

\* pipe and open take the first closed descriptor.
LEMMA LowestFreeIs ==
  ASSUME NEW t \in [Fds -> Ends], NEW n \in 3..8, Prefix(t, n)
  PROVE  LowestFree(t) = n
<1>1. /\ n \in Fds /\ t[n] = Closed /\ \A e \in 0..n - 1 : t[e] # Closed
  BY DEF Prefix, Fds
<1>2. ASSUME NEW d \in Fds, t[d] = Closed, \A e \in 0..d - 1 : t[e] # Closed
      PROVE  d = n
  BY <1>1, <1>2 DEF Prefix, Fds
<1> QED BY <1>1, <1>2 DEF LowestFree

\* Opening the first closed descriptor, closing the last open one and
\* replacing an open one keep the open descriptors a prefix.
LEMMA PrefixOpen ==
  ASSUME NEW t \in [Fds -> Ends], NEW n \in 3..8, Prefix(t, n), NEW v \in Ends, v # Closed,
         NEW m, m = n + 1, NEW u, u = [t EXCEPT ![n] = v]
  PROVE  u \in [Fds -> Ends] /\ Prefix(u, m)
BY DEF Prefix, Fds

\* The same for closing the last open one.
LEMMA PrefixClose ==
  ASSUME NEW t \in [Fds -> Ends], NEW n \in 4..9, Prefix(t, n),
         NEW m, m = n - 1, NEW u, u = [t EXCEPT ![m] = Closed]
  PROVE  u \in [Fds -> Ends] /\ Prefix(u, m)
BY EndsHave DEF Prefix, Fds

\* The same for replacing one of the first three, as dup2 and a redirection do.
LEMMA PrefixSet ==
  ASSUME NEW t \in [Fds -> Ends], NEW n \in 3..9, Prefix(t, n), NEW v \in Ends, v # Closed,
         NEW d \in 0..2, NEW u, u = [t EXCEPT ![d] = v]
  PROVE  u \in [Fds -> Ends] /\ Prefix(u, n)
BY DEF Prefix, Fds

----------------------------------------------------------------------------
(* Each step of a process keeps its own table as StageOk says.             *)

\* exec_recur_noret branches on the stage and leaves the table alone.
LEMMA RecurOk ==
  ASSUME NEW k \in Stages, NEW p \in Fds \X Fds, NEW t \in [Fds -> Ends],
         StageOk("recur", k, p, t)
  PROVE  StageOk(IF k = 0 THEN "redir0" ELSE "pipe", k, p, t)
<1>1. PICK n \in 3..9 : Prefix(t, n) /\ SizeOk("recur", k, p, n)
  BY DEF StageOk, Live, PCs
<1>2. Clear(t, k + 1, {})
  BY DEF StageOk, Live, PCs, EndsOk
<1>3. CASE k = 0
  <2>1. SizeOk("redir0", k, p, n)
    BY <1>1, <1>3 DEF SizeOk, RedirPc
  <2>2. EndsOk("redir0", k, p, t)
    BY <1>2, <1>3 DEF EndsOk, Clear, Fds
  <2> QED BY <1>1, <1>3, <2>1, <2>2 DEF StageOk
<1>4. CASE k # 0
  <2>1. SizeOk("pipe", k, p, n)
    BY <1>1, <1>4 DEF SizeOk, RedirPc, Stages
  <2>2. EndsOk("pipe", k, p, t)
    BY <1>2 DEF EndsOk
  <2> QED BY <1>1, <1>4, <2>1, <2>2 DEF StageOk
<1> QED BY <1>3, <1>4

\* The table after pipe.
Piped(t, k, r, w) == [t EXCEPT ![r] = R(k), ![w] = W(k)]

\* pipe opens both ends at the first free descriptors.
LEMMA PipeOk ==
  ASSUME NEW k \in Stages, NEW p \in Fds \X Fds, NEW t \in [Fds -> Ends],
         StageOk("pipe", k, p, t), NEW r, r = LowestFree(t),
         NEW w, w = LowestFree(Open(t, R(k))),
         NEW u, u = Piped(t, k, r, w)
  PROVE  /\ r \in Fds /\ w \in Fds /\ u \in [Fds -> Ends]
         /\ StageOk("fork", k, <<r, w>>, u) /\ u[0] = t[0] /\ u[1] = t[1]
<1>1. PICK n \in 3..9 : Prefix(t, n) /\ SizeOk("pipe", k, p, n)
  BY DEF StageOk, Live, PCs
<1>2. Clear(t, k + 1, {})
  BY DEF StageOk, Live, PCs, EndsOk
<1>3. n <= 6 /\ (k > 0 => n = 3)
  BY <1>1 DEF SizeOk
<1>4. r = n
  BY <1>1, <1>3, LowestFreeIs
<1> DEFINE t1 == [t EXCEPT ![n] = R(k)]
           t2 == [t1 EXCEPT ![n + 1] = W(k)]
           m == n + 1
<1>a. /\ R(k) \in Ends /\ R(k) # Closed /\ W(k) \in Ends /\ W(k) # Closed
      /\ n \in 3..8 /\ m \in 3..8
  BY <1>3, EndsHave, EndKinds
<1>5. t1 \in [Fds -> Ends] /\ Prefix(t1, m)
  <2> HIDE DEF m
  <2>1. m = n + 1 BY DEF m
  <2> HIDE DEF t1
  <2>2. t1 = [t EXCEPT ![n] = R(k)] BY DEF t1
  <2> QED BY <1>1, <1>a, <2>1, <2>2, PrefixOpen
<1>6. w = n + 1
  <2>1. Open(t, R(k)) = t1
    BY <1>4 DEF Open
  <2> HIDE DEF t1, m
  <2>2. LowestFree(t1) = m
    BY <1>a, <1>5, LowestFreeIs
  <2> QED BY <2>1, <2>2 DEF m
<1>7. t2 \in [Fds -> Ends] /\ Prefix(t2, n + 2)
  <2>1. t2 = [t1 EXCEPT ![m] = W(k)] /\ n + 2 = m + 1
    OBVIOUS
  <2> HIDE DEF t1, t2, m
  <2> QED BY <1>a, <1>5, <2>1, PrefixOpen
<1>8. u = t2 /\ u[0] = t[0] /\ u[1] = t[1]
  BY <1>3, <1>4, <1>6 DEF Piped, Fds
<1>9. SizeOk("fork", k, <<r, w>>, n + 2)
  BY <1>3, <1>4, <1>6 DEF SizeOk, HasPip, RedirPc
<1>10. EndsOk("fork", k, <<r, w>>, t2)
  <2>1. t2[n] = R(k) /\ t2[n + 1] = W(k)
    BY <1>3 DEF Fds
  <2>2. Clear(t2, k + 1, {n, n + 1})
    BY <1>2, <1>3 DEF Clear, Fds
  <2> HIDE DEF t2
  <2> QED BY <1>4, <1>6, <2>1, <2>2 DEF EndsOk
<1> HIDE DEF t2
<1>11. r \in Fds /\ w \in Fds /\ n + 2 \in 3..9
  BY <1>3, <1>4, <1>6 DEF Fds
<1> QED BY <1>7, <1>8, <1>9, <1>10, <1>11 DEF StageOk

\* fork copies the table: the parent has the pipe of its own stage, the child
\* that of the stage after it.
LEMMA ForkOk ==
  ASSUME NEW k \in Stages, NEW p \in Fds \X Fds, NEW t \in [Fds -> Ends],
         StageOk("fork", k, p, t)
  PROVE  StageOk("parent1", k, p, t) /\ StageOk("child1", k - 1, p, t)
<1>1. PICK n \in 3..9 : Prefix(t, n) /\ SizeOk("fork", k, p, n)
  BY DEF StageOk, Live, PCs
<1>2. EndsOk("fork", k, p, t)
  BY DEF StageOk, Live, PCs
<1>3. HasPip(p, n) /\ (k > 0 => n = 5)
  BY <1>1 DEF SizeOk
<1>4. Clear(t, k + 1, {p[1], p[2]}) /\ t[p[1]] = R(k) /\ t[p[2]] = W(k)
  BY <1>2 DEF EndsOk
<1>5. (k - 1) + 2 = k + 1 /\ (k - 1) + 1 = k
  BY DEF Stages
<1>6. StageOk("parent1", k, p, t)
  <2>1. SizeOk("parent1", k, p, n)
    BY <1>3 DEF SizeOk, RedirPc
  <2>2. EndsOk("parent1", k, p, t)
    BY <1>4 DEF EndsOk
  <2> QED BY <1>1, <2>1, <2>2 DEF StageOk
<1>7. StageOk("child1", k - 1, p, t)
  <2>1. SizeOk("child1", k - 1, p, n)
    BY <1>3 DEF SizeOk, RedirPc, Stages
  <2>2. Clear(t, (k - 1) + 2, {p[1], p[2]}) /\ t[p[2]] = W((k - 1) + 1)
    BY <1>4, <1>5
  <2>3. EndsOk("child1", k - 1, p, t)
    BY <2>2 DEF EndsOk
  <2> QED BY <1>1, <2>1, <2>3 DEF StageOk
<1> QED BY <1>6, <1>7

\* The child makes the write end its standard output.
LEMMA ChildDupOk ==
  ASSUME NEW k \in Stages, NEW p \in Fds \X Fds, NEW t \in [Fds -> Ends],
         StageOk("child1", k, p, t), NEW u, u = Dup2(t, p[2], 1)
  PROVE  u \in [Fds -> Ends] /\ StageOk("child2", k, p, u) /\ u[1] = W(k + 1) /\ u[0] = t[0]
<1>1. PICK n \in 3..9 : Prefix(t, n) /\ SizeOk("child1", k, p, n)
  BY DEF StageOk, Live, PCs
<1>2. EndsOk("child1", k, p, t)
  BY DEF StageOk, Live, PCs
<1>3. HasPip(p, n) /\ (k >= 0 => n = 5)
  BY <1>1 DEF SizeOk
<1>4. Clear(t, k + 2, {p[1], p[2]}) /\ t[p[2]] = W(k + 1)
  BY <1>2 DEF EndsOk
<1>5. W(k + 1) \in Ends /\ W(k + 1) # Closed
  BY <1>4, EndKinds
<1>6. u = [t EXCEPT ![1] = W(k + 1)]
  BY <1>4 DEF Dup2
<1>7. u \in [Fds -> Ends] /\ Prefix(u, n)
  BY <1>1, <1>5, <1>6, PrefixSet
<1>8. SizeOk("child2", k, p, n)
  BY <1>3 DEF SizeOk, RedirPc
<1>9. u[1] = W(k + 1) /\ u[0] = t[0]
  BY <1>6 DEF Fds
<1>10. Clear(u, k + 1, {p[1], p[2]})
  BY <1>4, <1>6 DEF Clear, Fds
<1>11. EndsOk("child2", k, p, u)
  BY <1>10 DEF EndsOk
<1> QED BY <1>7, <1>8, <1>9, <1>11 DEF StageOk

\* The parent makes the read end its standard input.
LEMMA ParentDupOk ==
  ASSUME NEW k \in Stages, NEW p \in Fds \X Fds, NEW t \in [Fds -> Ends],
         StageOk("parent1", k, p, t), NEW u, u = Dup2(t, p[1], 0)
  PROVE  u \in [Fds -> Ends] /\ StageOk("parent2", k, p, u) /\ u[0] = R(k) /\ u[1] = t[1]
<1>1. PICK n \in 3..9 : Prefix(t, n) /\ SizeOk("parent1", k, p, n)
  BY DEF StageOk, Live, PCs
<1>2. EndsOk("parent1", k, p, t)
  BY DEF StageOk, Live, PCs
<1>3. HasPip(p, n) /\ (k > 0 => n = 5)
  BY <1>1 DEF SizeOk
<1>4. Clear(t, k + 1, {p[1], p[2]}) /\ t[p[1]] = R(k)
  BY <1>2 DEF EndsOk
<1>5. R(k) \in Ends /\ R(k) # Closed
  BY EndKinds, EndsHave
<1>6. u = [t EXCEPT ![0] = R(k)]
  BY <1>4 DEF Dup2
<1>7. u \in [Fds -> Ends] /\ Prefix(u, n)
  BY <1>1, <1>5, <1>6, PrefixSet
<1>8. SizeOk("parent2", k, p, n)
  BY <1>3 DEF SizeOk, RedirPc
<1>9. u[0] = R(k) /\ u[1] = t[1]
  BY <1>6 DEF Fds
<1>10. Clear(u, k + 1, {0, p[1], p[2]})
  BY <1>4, <1>6 DEF Clear, Fds
<1>11. EndsOk("parent2", k, p, u)
  BY <1>9, <1>10 DEF EndsOk
<1> QED BY <1>7, <1>8, <1>9, <1>11 DEF StageOk

\* Closing both ends of the pipe, which are the last two descriptors.
LEMMA ClosedPipe ==
  ASSUME NEW t \in [Fds -> Ends], NEW n \in 3..9, Prefix(t, n), NEW p, HasPip(p, n),
         NEW u, u = Close(Close(t, p[1]), p[2])
  PROVE  /\ u \in [Fds -> Ends] /\ Prefix(u, n - 2) /\ n - 2 \in 3..6
         /\ \A d \in Fds : u[d] = IF d \in {p[1], p[2]} THEN Closed ELSE t[d]
         /\ u[0] = t[0] /\ u[1] = t[1]
<1> DEFINE a == p[1]
           b == p[2]
<1>1. n \in 5..8 /\ a = n - 2 /\ b = n - 1
  BY DEF HasPip
<1>2. u = [[t EXCEPT ![a] = Closed] EXCEPT ![b] = Closed]
  BY DEF Close
<1> HIDE DEF a, b
<1>3. /\ u \in [Fds -> Ends]
      /\ \A d \in Fds : u[d] = IF d \in {a, b} THEN Closed ELSE t[d]
  BY <1>1, <1>2, EndsHave DEF Fds
<1>4. Prefix(u, n - 2) /\ n - 2 \in 3..6
  BY <1>1, <1>3 DEF Prefix, Fds
<1>5. u[0] = t[0] /\ u[1] = t[1]
  BY <1>1, <1>3 DEF Fds
<1> QED BY <1>3, <1>4, <1>5 DEF a, b

\* The child closes both ends it got from fork; only its standard output is left.
LEMMA ChildCloseOk ==
  ASSUME NEW k \in Stages, NEW p \in Fds \X Fds, NEW t \in [Fds -> Ends],
         StageOk("child2", k, p, t), NEW u, u = Close(Close(t, p[1]), p[2])
  PROVE  /\ u \in [Fds -> Ends] /\ StageOk("recur", k, NoPip, u)
         /\ u[0] = t[0] /\ u[1] = t[1]
<1>1. PICK n \in 3..9 : Prefix(t, n) /\ SizeOk("child2", k, p, n)
  BY DEF StageOk, Live, PCs
<1>2. EndsOk("child2", k, p, t)
  BY DEF StageOk, Live, PCs
<1>3. HasPip(p, n) /\ (k >= 0 => n = 5)
  BY <1>1 DEF SizeOk
<1>4. Clear(t, k + 1, {p[1], p[2]})
  BY <1>2 DEF EndsOk
<1>5. /\ u \in [Fds -> Ends] /\ Prefix(u, n - 2) /\ n - 2 \in 3..6
      /\ \A d \in Fds : u[d] = IF d \in {p[1], p[2]} THEN Closed ELSE t[d]
      /\ u[0] = t[0] /\ u[1] = t[1]
  BY <1>1, <1>3, ClosedPipe
<1>6. SizeOk("recur", k, NoPip, n - 2)
  BY <1>3, <1>5 DEF SizeOk, RedirPc
<1>7. Clear(u, k + 1, {})
  BY <1>4, <1>5 DEF Clear, NotPipe
<1>8. EndsOk("recur", k, NoPip, u)
  BY <1>7 DEF EndsOk
<1>9. n - 2 \in 3..9
  BY <1>5
<1> QED BY <1>5, <1>6, <1>8, <1>9 DEF StageOk

\* The parent closes both ends; only its standard input is left.
LEMMA ParentCloseOk ==
  ASSUME NEW k \in Stages, NEW p \in Fds \X Fds, NEW t \in [Fds -> Ends],
         StageOk("parent2", k, p, t), NEW u, u = Close(Close(t, p[1]), p[2])
  PROVE  /\ u \in [Fds -> Ends] /\ StageOk("redir0", k, p, u)
         /\ u[0] = t[0] /\ u[1] = t[1] /\ t[0] = R(k)
<1>1. PICK n \in 3..9 : Prefix(t, n) /\ SizeOk("parent2", k, p, n)
  BY DEF StageOk, Live, PCs
<1>2. EndsOk("parent2", k, p, t)
  BY DEF StageOk, Live, PCs
<1>3. HasPip(p, n)
  BY <1>1 DEF SizeOk
<1>4. Clear(t, k + 1, {0, p[1], p[2]}) /\ t[0] = R(k)
  BY <1>2 DEF EndsOk
<1>5. /\ u \in [Fds -> Ends] /\ Prefix(u, n - 2) /\ n - 2 \in 3..6
      /\ \A d \in Fds : u[d] = IF d \in {p[1], p[2]} THEN Closed ELSE t[d]
      /\ u[0] = t[0] /\ u[1] = t[1]
  BY <1>1, <1>3, ClosedPipe
<1>6. p # NoPip
  BY <1>3 DEF HasPip, NoPip
<1>7. SizeOk("redir0", k, p, n - 2)
  BY <1>5, <1>6 DEF SizeOk, RedirPc
<1>8. Clear(u, k + 1, {0})
  BY <1>4, <1>5 DEF Clear, NotPipe
<1>9. EndsOk("redir0", k, p, u)
  BY <1>4, <1>5, <1>6, <1>8 DEF EndsOk
<1>10. n - 2 \in 3..9
  BY <1>5
<1> QED BY <1>4, <1>5, <1>7, <1>9, <1>10 DEF StageOk

\* The three redirections in turn, then exec.
LEMMA RedirOrder ==
  /\ RedirPc[0] = "redir0" /\ RedirPc[1] = "redir1" /\ RedirPc[2] = "redir2"
  /\ AfterRedir(0) = "redir1" /\ AfterRedir(1) = "redir2" /\ AfterRedir(2) = "exec"
BY DEF RedirPc, AfterRedir

\* What StageOk says of a process that is setting up or executing its job.
LEMMA JobOk ==
  ASSUME NEW k \in Stages, NEW p \in Fds \X Fds, NEW t \in [Fds -> Ends], NEW c,
         c \in {"redir0", "redir1", "redir2", "exec", "run"}, NEW n \in 3..9, Prefix(t, n),
         SizeOk(c, k, p, n),
         Clear(t, k + 1, {0}), t[0] \in NotPipe \/ t[0] = R(k), p = NoPip => t[0] \in NotPipe
  PROVE  StageOk(c, k, p, t)
BY DEF StageOk, EndsOk

\* A redirection opens one descriptor more and makes descriptor d a file; one
\* that is not asked for or fails changes no descriptor.
LEMMA RedirectOk ==
  ASSUME NEW k \in Stages, NEW p \in Fds \X Fds, NEW t \in [Fds -> Ends], NEW d \in 0..2,
         StageOk(RedirPc[d], k, p, t)
  PROVE  /\ StageOk(AfterRedir(d), k, p, t)
         /\ \A u : u = Dup2(Open(t, File), LowestFree(t), d) =>
                     u \in [Fds -> Ends] /\ StageOk(AfterRedir(d), k, p, u)
<1> DEFINE c == RedirPc[d]
           e == AfterRedir(d)
<1>1. /\ c \in {"redir0", "redir1", "redir2"} /\ e \in {"redir1", "redir2", "exec"}
      /\ c \in Live
  BY RedirOrder DEF Live, PCs
<1>2. PICK n \in 3..9 : Prefix(t, n) /\ SizeOk(c, k, p, n)
  BY <1>1 DEF StageOk
<1>3. EndsOk(c, k, p, t)
  BY <1>1 DEF StageOk
<1>4. n <= 6 + d /\ (p = NoPip => n <= 3 + d)
  <2> HIDE DEF c
  <2>1. \A x \in 0..2 : c = RedirPc[x] => n <= 6 + x /\ (p = NoPip => n <= 3 + x)
    BY <1>2 DEF SizeOk
  <2> QED BY <2>1 DEF c
<1>5. /\ Clear(t, k + 1, {0}) /\ (t[0] \in NotPipe \/ t[0] = R(k))
      /\ (p = NoPip => t[0] \in NotPipe)
  <2> HIDE DEF c
  <2> QED BY <1>1, <1>3 DEF EndsOk
<1>6. ASSUME NEW m \in 3..9, m <= n + 1 PROVE SizeOk(e, k, p, m)
  <2>1. CASE d = 0 BY <1>4, <1>6, <2>1, RedirOrder DEF SizeOk
  <2>2. CASE d = 1 BY <1>4, <1>6, <2>2, RedirOrder DEF SizeOk
  <2>3. CASE d = 2 BY <1>4, <1>6, <2>3, RedirOrder DEF SizeOk
  <2> QED BY <2>1, <2>2, <2>3
<1>7. StageOk(e, k, p, t)
  <2>1. SizeOk(e, k, p, n) BY <1>6
  <2> HIDE DEF e
  <2> QED BY <1>1, <1>2, <1>5, <2>1, JobOk
<1>8. ASSUME NEW u, u = Dup2(Open(t, File), LowestFree(t), d)
      PROVE  u \in [Fds -> Ends] /\ StageOk(e, k, p, u)
  <2>1. n \in 3..8
    BY <1>4
  <2>2. LowestFree(t) = n
    BY <1>2, <2>1, LowestFreeIs
  <2> DEFINE v == [t EXCEPT ![n] = File]
             m == n + 1
  <2>3. u = [v EXCEPT ![d] = File]
    <3>1. v[n] = File
      BY <2>1 DEF Fds
    <3>2. Open(t, File) = v
      BY <2>2 DEF Open
    <3> HIDE DEF v
    <3> QED BY <1>8, <2>2, <3>1, <3>2 DEF Dup2
  <2>4. v \in [Fds -> Ends] /\ Prefix(v, m)
    <3> HIDE DEF v, m
    <3>1. v = [t EXCEPT ![n] = File] /\ m = n + 1 BY DEF v, m
    <3> QED BY <1>2, <2>1, <3>1, PrefixOpen, EndsHave, EndKinds
  <2>5. m \in 3..9
    BY <2>1
  <2>6. u \in [Fds -> Ends] /\ Prefix(u, m)
    <3> HIDE DEF v, m
    <3> QED BY <2>3, <2>4, <2>5, PrefixSet, EndsHave, EndKinds
  <2>7. \A x \in Fds : u[x] = t[x] \/ u[x] = File
    BY <2>1, <2>3 DEF Fds
  <2>8. /\ Clear(u, k + 1, {0}) /\ (u[0] \in NotPipe \/ u[0] = R(k))
        /\ (p = NoPip => u[0] \in NotPipe)
    BY <1>5, <2>7 DEF Clear, NotPipe, Fds
  <2>9. SizeOk(e, k, p, m)
    BY <1>6, <2>5
  <2> HIDE DEF e, m
  <2> QED BY <1>1, <2>5, <2>6, <2>8, <2>9, JobOk
<1> QED BY <1>7, <1>8

\* exec keeps the table, and so does the call that runs on when every execve failed.
LEMMA ExecOk ==
  ASSUME NEW k \in Stages, NEW p \in Fds \X Fds, NEW t \in [Fds -> Ends],
         StageOk("exec", k, p, t)
  PROVE  /\ StageOk("run", k, p, t)
         /\ k = 0 /\ p = NoPip => StageOk("pipe", k, p, t)
<1>1. PICK n \in 3..9 : Prefix(t, n) /\ SizeOk("exec", k, p, n)
  BY DEF StageOk, Live, PCs
<1>2. EndsOk("exec", k, p, t)
  BY DEF StageOk, Live, PCs
<1>3. p = NoPip => n <= 6
  BY <1>1 DEF SizeOk
<1>4. /\ Clear(t, k + 1, {0}) /\ (t[0] \in NotPipe \/ t[0] = R(k))
      /\ (p = NoPip => t[0] \in NotPipe)
  BY <1>2 DEF EndsOk
<1>5. StageOk("run", k, p, t)
  <2>1. SizeOk("run", k, p, n)
    BY RedirOrder DEF SizeOk
  <2> QED BY <1>1, <1>4, <2>1, JobOk
<1>6. ASSUME k = 0, p = NoPip PROVE StageOk("pipe", k, p, t)
  <2>1. SizeOk("pipe", k, p, n)
    BY <1>3, <1>6, RedirOrder DEF SizeOk
  <2>2. Clear(t, k + 1, {})
    BY <1>4, <1>6 DEF Clear
  <2>3. EndsOk("pipe", k, p, t)
    BY <2>2 DEF EndsOk
  <2> QED BY <1>1, <2>1, <2>3 DEF StageOk
<1> QED BY <1>5, <1>6

----------------------------------------------------------------------------
(* TableInv is an invariant.                                               *)

\* A step that moves stage k to c with table t and array p, and leaves the
\* other stages alone.
Moves(k, c, p, t) ==
  /\ pc' = [pc EXCEPT ![k] = c] /\ pip' = [pip EXCEPT ![k] = p]
  /\ fds' = [fds EXCEPT ![k] = t]
  /\ shell' = shell /\ redir' = redir

\* A process that moves on with a table in order keeps TableInv.
LEMMA MoveKeeps ==
  ASSUME TableInv, NEW k \in Stages, NEW c \in PCs, NEW p \in Fds \X Fds,
         NEW t \in [Fds -> Ends], Moves(k, c, p, t), StageOk(c, k, p, t)
  PROVE  TableInv'
<1>1. TypeInv'
  BY DEF TableInv, TypeInv, Moves
<1>2. ASSUME NEW j \in Stages PROVE StageOk(pc'[j], j, pip'[j], fds'[j])
  BY DEF TableInv, TypeInv, Moves
<1> QED BY <1>1, <1>2 DEF TableInv

\* A process that has ended has an empty table, of which nothing is asked.
LEMMA DeadOk ==
  ASSUME NEW k, NEW p, NEW t
  PROVE  /\ StageOk("dead", k, p, t) /\ StageOk("none", k, p, t)
         /\ "dead" \in PCs /\ AllClosed \in [Fds -> Ends]
<1>1. "dead" \in PCs /\ "dead" \notin Live /\ "none" \notin Live
  BY DEF Live, PCs
<1> QED BY <1>1, EndsHave DEF StageOk, AllClosed

\* A process that dies keeps TableInv.
LEMMA DieKeeps ==
  ASSUME TableInv, NEW k \in Stages, Die(k), UNCHANGED <<shell, pip, redir>>
  PROVE  TableInv'
<1>1. pip = [pip EXCEPT ![k] = pip[k]] /\ pip[k] \in Fds \X Fds
  BY DEF TableInv, TypeInv
<1>2. Moves(k, "dead", pip[k], AllClosed)
  BY <1>1 DEF Moves, Die, SetFds
<1> QED BY <1>1, <1>2, MoveKeeps, DeadOk

\* Before exec_job is called there is no process.
LEMMA TableInit == Init => TableInv
<1> SUFFICES ASSUME Init PROVE TableInv
  OBVIOUS
<1>1. redir \subseteq Jobs \X (0..2)
  BY PipelineAssumption DEF Init, Jobs
<1>2. NoPip \in Fds \X Fds /\ "none" \in PCs
  BY DEF NoPip, Fds, PCs
<1>3. TypeInv
  BY <1>1, <1>2, DeadOk DEF Init, TypeInv
<1>4. \A k \in Stages : StageOk(pc[k], k, pip[k], fds[k])
  BY DeadOk DEF Init
<1> QED BY <1>3, <1>4 DEF TableInv

\* Every step keeps TableInv.
LEMMA TableStep == TableInv /\ [Next]_vars => TableInv'
<1> SUFFICES ASSUME TableInv, [Next]_vars PROVE TableInv'
  OBVIOUS
<1>1. ASSUME UNCHANGED <<shell, pc, fds, pip, redir>> PROVE TableInv'
  BY <1>1 DEF TableInv, TypeInv
<1>2. CASE ShellForks
  <2>1. Cnt - 1 \in Stages
    BY PipelineAssumption DEF Stages
  <2>2. FdTable \in [Fds -> Ends] /\ Prefix(FdTable, 3) /\ Clear(FdTable, Cnt, {})
    BY EndsHave, EndKinds DEF FdTable, Prefix, Clear, NotPipe, Fds
  <2> DEFINE k == Cnt - 1
             p == pip[k]
  <2>3. k + 1 = Cnt
    BY PipelineAssumption
  <2>4. SizeOk("recur", k, p, 3)
    BY RedirOrder DEF SizeOk
  <2>5. EndsOk("recur", k, p, FdTable)
    BY <2>2, <2>3 DEF EndsOk
  <2>6. "recur" \in PCs /\ p \in Fds \X Fds /\ pip = [pip EXCEPT ![k] = p]
        /\ pc \in [Stages -> PCs] /\ fds \in [Stages -> [Fds -> Ends]]
    BY <2>1 DEF PCs, TableInv, TypeInv
  <2>7. StageOk("recur", k, p, FdTable)
    BY <2>2, <2>4, <2>5 DEF StageOk
  <2>8. /\ pc' = [pc EXCEPT ![k] = "recur"] /\ fds' = [fds EXCEPT ![k] = FdTable]
        /\ shell' = "wait" /\ UNCHANGED <<pip, redir>>
    BY <1>2 DEF ShellForks
  <2> HIDE DEF k
  <2>9. TypeInv'
    BY <2>2, <2>6, <2>8 DEF TableInv, TypeInv
  <2>10. ASSUME NEW j \in Stages PROVE StageOk(pc'[j], j, pip'[j], fds'[j])
    BY <2>6, <2>7, <2>8 DEF TableInv
  <2> QED BY <2>9, <2>10 DEF TableInv
<1>3. CASE ShellForkFails
  BY <1>3 DEF ShellForkFails, TableInv, TypeInv
<1>4. CASE ShellWaits
  BY <1>4 DEF ShellWaits, TableInv, TypeInv
<1>5. ASSUME NEW k \in Stages, Step(k) \/ Quit(k) PROVE TableInv'
  <2> DEFINE t == fds[k]
             p == pip[k]
  <2>0. /\ p \in Fds \X Fds /\ t \in [Fds -> Ends] /\ StageOk(pc[k], k, p, t)
        /\ pc \in [Stages -> PCs] /\ fds \in [Stages -> [Fds -> Ends]]
        /\ pip \in [Stages -> (Fds \X Fds)]
    BY DEF TableInv, TypeInv
  <2>a. /\ pip = [pip EXCEPT ![k] = p] /\ fds = [fds EXCEPT ![k] = t]
    BY <2>0
  <2> HIDE DEF t, p
  <2>1. CASE Recur(k)
    <3> DEFINE c == IF k = 0 THEN "redir0" ELSE "pipe"
    <3>1. c \in PCs /\ pc[k] = "recur"
      BY <2>1 DEF Recur, Goto, PCs
    <3>2. StageOk(c, k, p, t)
      BY <2>0, <3>1, RecurOk
    <3>3. Moves(k, c, p, t)
      BY <2>1, <2>a DEF Recur, Goto, Moves
    <3> HIDE DEF c
    <3> QED BY <2>0, <3>1, <3>2, <3>3, MoveKeeps
  <2>2. CASE MakePipe(k)
    <3> DEFINE r == LowestFree(t)
               w == LowestFree(Open(t, R(k)))
               u == [t EXCEPT ![r] = R(k), ![w] = W(k)]
    <3>1. pc[k] = "pipe" /\ "fork" \in PCs
      BY <2>2 DEF MakePipe, Goto, PCs
    <3>2. Moves(k, "fork", <<r, w>>, u)
      BY <2>2 DEF MakePipe, Goto, SetFds, Moves, t
    <3>3. r \in Fds /\ w \in Fds /\ u \in [Fds -> Ends] /\ StageOk("fork", k, <<r, w>>, u)
      <4>1. /\ r = LowestFree(t) /\ w = LowestFree(Open(t, R(k)))
            /\ u = Piped(t, k, r, w)
        BY DEF Piped
      <4> HIDE DEF r, w, u
      <4> QED BY <2>0, <3>1, <4>1, PipeOk
    <3> HIDE DEF r, w, u
    <3>4. <<r, w>> \in Fds \X Fds
      BY <3>3
    <3> QED BY <3>1, <3>2, <3>3, <3>4, MoveKeeps
  <2>3. CASE Fork(k)
    <3>1. pc[k] = "fork" /\ k > -Depth /\ k - 1 \in Stages /\ k - 1 # k
      BY <2>3, PipelineAssumption DEF Fork, Stages
    <3>2. StageOk("parent1", k, p, t) /\ StageOk("child1", k - 1, p, t)
      BY <2>0, <3>1, ForkOk
    <3>3. "parent1" \in PCs /\ "child1" \in PCs
      BY DEF PCs
    <3>4. /\ pc' = [pc EXCEPT ![k] = "parent1", ![k - 1] = "child1"]
          /\ fds' = [fds EXCEPT ![k - 1] = t] /\ pip' = [pip EXCEPT ![k - 1] = p]
          /\ shell' = shell /\ redir' = redir
      BY <2>3 DEF Fork, SetFds, t, p
    <3>5. TypeInv'
      BY <2>0, <3>1, <3>3, <3>4 DEF TableInv, TypeInv
    <3>6. ASSUME NEW j \in Stages PROVE StageOk(pc'[j], j, pip'[j], fds'[j])
      <4>1. CASE j = k
        <5>1. pc'[j] = "parent1" /\ pip'[j] = p /\ fds'[j] = t
          BY <2>0, <3>1, <3>4, <4>1 DEF p, t
        <5> QED BY <3>2, <4>1, <5>1
      <4>2. CASE j = k - 1
        <5>1. pc'[j] = "child1" /\ pip'[j] = p /\ fds'[j] = t
          BY <2>0, <3>1, <3>4, <4>2
        <5> QED BY <3>2, <4>2, <5>1
      <4>3. CASE j # k /\ j # k - 1
        <5>1. pc'[j] = pc[j] /\ pip'[j] = pip[j] /\ fds'[j] = fds[j]
          BY <2>0, <3>1, <3>4, <4>3
        <5> QED BY <5>1 DEF TableInv
      <4> QED BY <4>1, <4>2, <4>3
    <3> QED BY <3>5, <3>6 DEF TableInv
  <2>4. CASE ChildDup(k)
    <3> DEFINE u == Dup2(t, p[2], 1)
    <3>1. pc[k] = "child1" /\ "child2" \in PCs
      BY <2>4 DEF ChildDup, Goto, PCs
    <3>2. Moves(k, "child2", p, u)
      BY <2>4, <2>a DEF ChildDup, Goto, SetFds, Moves, t, p
    <3> HIDE DEF u
    <3>3. u \in [Fds -> Ends] /\ StageOk("child2", k, p, u)
      BY <2>0, <3>1, ChildDupOk DEF u
    <3> QED BY <2>0, <3>1, <3>2, <3>3, MoveKeeps
  <2>5. CASE ChildClose(k)
    <3> DEFINE u == Close(Close(t, p[1]), p[2])
    <3>1. pc[k] = "child2" /\ "recur" \in PCs /\ NoPip \in Fds \X Fds
      BY <2>5 DEF ChildClose, Goto, PCs, NoPip, Fds
    <3>2. Moves(k, "recur", NoPip, u)
      BY <2>5 DEF ChildClose, ClosePipe, Goto, SetFds, Moves, t, p
    <3> HIDE DEF u
    <3>3. u \in [Fds -> Ends] /\ StageOk("recur", k, NoPip, u)
      BY <2>0, <3>1, ChildCloseOk DEF u
    <3> QED BY <3>1, <3>2, <3>3, MoveKeeps
  <2>6. CASE ParentDup(k)
    <3> DEFINE u == Dup2(t, p[1], 0)
    <3>1. pc[k] = "parent1" /\ "parent2" \in PCs
      BY <2>6 DEF ParentDup, Goto, PCs
    <3>2. Moves(k, "parent2", p, u)
      BY <2>6, <2>a DEF ParentDup, Goto, SetFds, Moves, t, p
    <3> HIDE DEF u
    <3>3. u \in [Fds -> Ends] /\ StageOk("parent2", k, p, u)
      BY <2>0, <3>1, ParentDupOk DEF u
    <3> QED BY <2>0, <3>1, <3>2, <3>3, MoveKeeps
  <2>7. CASE ParentClose(k)
    <3> DEFINE u == Close(Close(t, p[1]), p[2])
    <3>1. pc[k] = "parent2" /\ "redir0" \in PCs
      BY <2>7 DEF ParentClose, Goto, PCs
    <3>2. Moves(k, "redir0", p, u)
      BY <2>7, <2>a DEF ParentClose, ClosePipe, Goto, SetFds, Moves, t, p
    <3> HIDE DEF u
    <3>3. u \in [Fds -> Ends] /\ StageOk("redir0", k, p, u)
      BY <2>0, <3>1, ParentCloseOk DEF u
    <3> QED BY <2>0, <3>1, <3>2, <3>3, MoveKeeps
  <2>8. ASSUME NEW d \in 0..2, Redirect(k, d) \/ RedirectFails(k, d) PROVE TableInv'
    <3> DEFINE u == fds'[k]
               c == AfterRedir(d)
    <3>1. pc[k] = RedirPc[d] /\ c \in PCs
      BY <2>8, RedirOrder DEF Redirect, RedirectFails, Goto, PCs
    <3>2. u = t \/ u = Dup2(Open(t, File), LowestFree(t), d)
      BY <2>0, <2>8 DEF Redirect, RedirectFails, SetFds, t
    <3>3. fds' = [fds EXCEPT ![k] = u]
      BY <2>0, <2>8 DEF Redirect, RedirectFails, SetFds
    <3>4. Moves(k, c, p, u)
      BY <2>8, <2>a, <3>3 DEF Redirect, RedirectFails, Goto, Moves
    <3> HIDE DEF u, c
    <3>5. u \in [Fds -> Ends] /\ StageOk(c, k, p, u)
      BY <2>0, <3>1, <3>2, RedirectOk DEF c
    <3> QED BY <2>0, <3>1, <3>4, <3>5, MoveKeeps
  <2>9. CASE Exec(k)
    <3>1. pc[k] = "exec" /\ "run" \in PCs
      BY <2>9 DEF Exec, Goto, PCs
    <3>2. Moves(k, "run", p, t)
      BY <2>9, <2>a DEF Exec, Goto, Moves
    <3> QED BY <2>0, <3>1, <3>2, ExecOk, MoveKeeps
  <2>10. CASE ExecFails(k)
    <3>1. CASE Die(k)
      BY <2>10, <3>1, DieKeeps DEF ExecFails
    <3>2. CASE k = 0 /\ pip[k] = NoPip /\ Goto(k, "exec", "pipe") /\ UNCHANGED fds
      <4>1. pc[k] = "exec" /\ "pipe" \in PCs /\ p = NoPip /\ k = 0
        BY <3>2 DEF Goto, PCs, p
      <4>2. Moves(k, "pipe", p, t)
        BY <2>10, <3>2, <2>a DEF ExecFails, Goto, Moves
      <4> QED BY <2>0, <4>1, <4>2, ExecOk, MoveKeeps
    <3> QED BY <2>10, <3>1, <3>2 DEF ExecFails
  <2>11. CASE PipeFails(k) \/ ForkFails(k) \/ Eof(k) \/ SigPipe(k) \/ Quit(k)
    <3>1. Die(k) /\ UNCHANGED <<shell, pip, redir>>
      BY <2>11 DEF PipeFails, ForkFails, Eof, SigPipe, Quit
    <3> QED BY <3>1, DieKeeps
  <2>12. CASE ReadPipe(k) \/ ReadFile(k) \/ WritePipe(k) \/ WriteFile(k)
    <3>1. UNCHANGED <<shell, pc, fds, pip, redir>>
      BY <2>12 DEF ReadPipe, ReadFile, WritePipe, WriteFile
    <3> QED BY <1>1, <3>1
  <2> QED
    BY <1>5, <2>1, <2>2, <2>3, <2>4, <2>5, <2>6, <2>7, <2>8, <2>9, <2>10, <2>11, <2>12
    DEF Step
<1>6. CASE Done \/ UNCHANGED vars
  <2>1. UNCHANGED <<shell, pc, fds, pip, redir>>
    BY <1>6 DEF Done, vars
  <2> QED BY <1>1, <2>1
<1> QED BY <1>2, <1>3, <1>4, <1>5, <1>6 DEF Next, ShellStep

\* A program that runs has its own pipe ends and no other.
LEMMA TableImplies == TableInv => NoLeakedPipeEnd
<1> SUFFICES ASSUME TableInv, NEW k \in Stages, pc[k] = "run", NEW d \in Fds
             PROVE  /\ fds[k][d].kind = "r" => d = 0 /\ fds[k][d].pipe = k
                    /\ fds[k][d].kind = "w" => d = 1 /\ fds[k][d].pipe = k + 1
  BY DEF NoLeakedPipeEnd
<1> DEFINE t == fds[k]
<1>1. EndsOk("run", k, pip[k], t)
  BY DEF TableInv, StageOk, Live, PCs
<1> HIDE DEF t
<1>2. Clear(t, k + 1, {0}) /\ (t[0] \in NotPipe \/ t[0] = R(k))
  BY <1>1 DEF EndsOk
<1>3. t[d] \in NotPipe \/ (d = 1 /\ t[d] = W(k + 1)) \/ (d = 0 /\ t[d] = R(k))
  BY <1>2 DEF Clear
<1>4. ASSUME t[d] \in NotPipe PROVE t[d].kind \notin {"r", "w"}
  BY <1>4, EndKinds DEF NotPipe
<1>5. /\ t[d].kind = "r" => d = 0 /\ t[d].pipe = k
      /\ t[d].kind = "w" => d = 1 /\ t[d].pipe = k + 1
  BY <1>3, <1>4, EndKinds
<1> QED BY <1>5 DEF t

\* A program starts with its own pipe ends as standard input and output and no
\* other, for any number of jobs, whatever is redirected and whatever fails: an
\* end left open would keep a neighbour from end of file or SIGPIPE.
THEOREM NoPipeEndLeaks == Spec => []NoLeakedPipeEnd
<1>1. Init => TableInv
  BY TableInit
<1>2. TableInv /\ [Next]_vars => TableInv'
  BY TableStep
<1>3. TableInv => NoLeakedPipeEnd
  BY TableImplies
<1> QED BY <1>1, <1>2, <1>3, PTL DEF Spec

----------------------------------------------------------------------------
(* FlowInv is an invariant.                                                *)

\* A pipe end is an end of the pipe of some stage.
LEMMA EndPipe ==
  ASSUME NEW e \in Ends, e.kind \in {"r", "w"}
  PROVE  e.pipe \in Stages
<1>1. e \notin NotPipe
  BY EndKinds DEF NotPipe
<1>2. PICK k \in Stages : e = R(k) \/ e = W(k)
  BY <1>1 DEF Ends
<1> QED BY <1>2, EndKinds

\* The counts keep their types: nothing is taken from an empty pipe, and a
\* program holds at most one item.
LEMMA CountStep == TypeInv /\ CountInv /\ [Next]_vars => CountInv'
<1> SUFFICES ASSUME TypeInv, CountInv, [Next]_vars PROVE CountInv'
  OBVIOUS
<1> USE DEF CountInv, io
<1>1. CASE ShellStep
  BY <1>1 DEF ShellStep, ShellForks, ShellForkFails, ShellWaits
<1>2. ASSUME NEW k \in Stages, Step(k) \/ Quit(k) PROVE CountInv'
  <2>1. CASE Recur(k) \/ MakePipe(k) \/ PipeFails(k) \/ Fork(k) \/ ForkFails(k)
    BY <2>1 DEF Recur, MakePipe, PipeFails, Fork, ForkFails
  <2>2. CASE ChildDup(k) \/ ChildClose(k) \/ ParentDup(k) \/ ParentClose(k)
    BY <2>2 DEF ChildDup, ChildClose, ParentDup, ParentClose
  <2>3. CASE \E d \in 0..2 : Redirect(k, d) \/ RedirectFails(k, d)
    BY <2>3 DEF Redirect, RedirectFails
  <2>4. CASE Exec(k) \/ ExecFails(k) \/ Eof(k) \/ SigPipe(k) \/ Quit(k)
    BY <2>4 DEF Exec, ExecFails, Eof, SigPipe, Quit
  <2>5. CASE ReadPipe(k)
    <3> DEFINE x == In(k).pipe
    <3>1. /\ pipe[x] > 0 /\ pipe' = [pipe EXCEPT ![x] = pipe[x] - 1]
          /\ hand' = [hand EXCEPT ![k] = 1] /\ UNCHANGED <<left, out, clean>>
      BY <2>5 DEF ReadPipe
    <3>2. x \in Stages
      <4>1. In(k) \in Ends /\ In(k).kind = "r"
        BY <2>5 DEF ReadPipe, In, TypeInv, Fds
      <4> QED BY <4>1, EndPipe
    <3> HIDE DEF x
    <3> QED BY <3>1, <3>2
  <2>6. CASE ReadFile(k)
    BY <2>6 DEF ReadFile
  <2>7. CASE WritePipe(k)
    <3> DEFINE x == Out(k).pipe
    <3>1. /\ pipe' = [pipe EXCEPT ![x] = pipe[x] + 1]
          /\ hand' = [hand EXCEPT ![k] = 0] /\ UNCHANGED <<left, out, clean>>
      BY <2>7 DEF WritePipe
    <3>2. x \in Stages
      <4>1. Out(k) \in Ends /\ Out(k).kind = "w"
        BY <2>7 DEF WritePipe, Out, TypeInv, Fds
      <4> QED BY <4>1, EndPipe
    <3> HIDE DEF x
    <3> QED BY <3>1, <3>2
  <2>8. CASE WriteFile(k)
    BY <2>8 DEF WriteFile
  <2> QED BY <1>2, <2>1, <2>2, <2>3, <2>4, <2>5, <2>6, <2>7, <2>8 DEF Step
<1>3. CASE Done \/ UNCHANGED vars
  BY <1>3 DEF Done, vars
<1> QED BY <1>1, <1>2, <1>3 DEF Next

\* As long as all went well only jobs have processes.
LEMMA OnlyJobs ==
  ASSUME TypeInv, Created, NEW k \in Stages, pc[k] # "none"
  PROVE  k \in Jobs
BY PipelineAssumption DEF Created, Jobs, Stages

\* A live process that goes on, with its standard input and output as WiredAt
\* says, without creating a process or moving an item.
LEMMA MoveFlow ==
  ASSUME TypeInv, Flow, NEW k \in Jobs, NEW c \in Live, NEW t,
         pc[k] \in Live, pc' = [pc EXCEPT ![k] = c], fds' = [fds EXCEPT ![k] = t],
         c \in Forked <=> (pc[k] \in Forked \/ (k = 0 /\ c = "redir0")),
         c # "child1", c = "child2" => pc[k] = "child1",
         k = 0 => c \notin {"pipe", "fork", "parent1", "parent2"},
         WiredAt(k, c, t), UNCHANGED <<shell, io>>
  PROVE  Flow'
<1>0. k \in Stages /\ Jobs \subseteq Stages /\ pc \in [Stages -> PCs] /\ c \notin {"none", "dead"}
      /\ pc[k] \notin {"none", "dead"} /\ fds \in [Stages -> [Fds -> Ends]]
  BY PipelineAssumption DEF Jobs, Stages, TypeInv, Live
<1>1. Created'
  <2>1. ASSUME NEW i \in Jobs, pc'[i] \notin Forked, NEW j \in Stages, j < i
        PROVE  pc'[j] = "none"
    <3>1. pc[i] \notin Forked
      BY <1>0, <2>1
    <3>2. pc[j] = "none"
      BY <2>1, <3>1 DEF Flow, Created
    <3> QED BY <1>0, <3>2
  <2>2. ASSUME NEW i \in Jobs, i > 0, pc'[i] \in Forked PROVE pc'[i - 1] # "none"
    <3>1. pc[i] \in Forked
      BY <1>0, <2>2
    <3>2. pc[i - 1] # "none"
      BY <2>2, <3>1 DEF Flow, Created
    <3>3. i - 1 \in Stages
      BY <2>2, PipelineAssumption DEF Jobs, Stages
    <3> QED BY <1>0, <3>2, <3>3
  <2>3. \A i \in Stages : i < 0 => pc'[i] = "none"
    BY <1>0 DEF Flow, Created
  <2>4. /\ shell' = "call" => pc'[Cnt - 1] = "none"
        /\ shell' # "call" => pc'[Cnt - 1] # "none"
        /\ shell' = "returned" => pc'[Cnt - 1] = "dead"
        /\ pc'[Cnt - 1] \notin {"child1", "child2"}
        /\ pc'[0] \notin {"pipe", "fork", "parent1", "parent2"}
    BY <1>0 DEF Flow, Created
  <2> QED BY <2>1, <2>2, <2>3, <2>4 DEF Created
<1>2. Wired'
  BY <1>0 DEF Flow, Wired
<1>3. Ended'
  BY <1>0 DEF Flow, Ended, io
<1>4. Conserved'
  BY DEF Flow, Conserved, io
<1> QED BY <1>1, <1>2, <1>3, <1>4 DEF Flow
\* What a step of stage k leaves of clean and redir: the flow is asked about
\* only as long as nothing has failed.
LEMMA FlowStep == TableInv /\ CountInv /\ FlowInv /\ [Next]_vars => FlowInv'
<1> SUFFICES ASSUME TableInv, CountInv, FlowInv, [Next]_vars, clean', redir' = {}
             PROVE  Flow'
  BY DEF FlowInv
<1>0. /\ TypeInv /\ Jobs \subseteq Stages /\ Cnt - 1 \in Jobs /\ 0 \in Jobs
      /\ pc \in [Stages -> PCs] /\ fds \in [Stages -> [Fds -> Ends]]
  BY PipelineAssumption DEF TableInv, TypeInv, Jobs, Stages
<1>a. ASSUME clean, redir = {} PROVE Flow
  BY <1>a DEF FlowInv
<1>1. ASSUME UNCHANGED <<shell, pc, fds, io, clean, redir>> PROVE Flow'
  <2>1. Flow
    BY <1>1, <1>a
  <2> QED BY <1>1, <2>1 DEF Flow, Created, Wired, Ended, Conserved, io
<1>2. CASE ShellForks
  <2>1. Flow /\ shell = "call" /\ shell' = "wait" /\ UNCHANGED io
        /\ pc' = [pc EXCEPT ![Cnt - 1] = "recur"] /\ fds' = [fds EXCEPT ![Cnt - 1] = FdTable]
    BY <1>2, <1>a DEF ShellForks
  <2>2. \A j \in Stages : pc[j] = "none"
    <3>1. pc[Cnt - 1] = "none" /\ pc[Cnt - 1] \notin Forked
      BY <2>1 DEF Flow, Created, Forked
    <3>2. \A j \in Stages : j < Cnt - 1 => pc[j] = "none"
      BY <1>0, <3>1, <2>1 DEF Flow, Created
    <3> QED BY <3>1, <3>2, PipelineAssumption DEF Stages
  <2>3. Created'
    BY <1>0, <2>1, <2>2, PipelineAssumption DEF Created, Forked, Jobs, Stages
  <2>4. Wired'
    <3>1. FdTable[0] = Std /\ FdTable[1] = Std
      BY DEF FdTable, Fds
    <3>2. WiredAt(Cnt - 1, "recur", FdTable)
      BY <3>1, PipelineAssumption DEF WiredAt, Unwired
    <3>3. "none" \notin Live
      BY DEF Live
    <3> QED BY <1>0, <2>1, <2>2, <3>2, <3>3 DEF Wired
  <2>5. Ended'
    BY <1>0, <2>1, <2>2 DEF Ended
  <2>6. Conserved'
    BY <2>1 DEF Flow, Conserved, io
  <2> QED BY <2>3, <2>4, <2>5, <2>6 DEF Flow
<1>3. CASE ShellForkFails
  BY <1>3 DEF ShellForkFails
<1>4. CASE ShellWaits
  <2>1. Flow /\ shell = "wait" /\ shell' = "returned" /\ pc[Cnt - 1] = "dead"
        /\ UNCHANGED <<pc, fds, io>>
    BY <1>4, <1>a DEF ShellWaits
  <2> QED BY <2>1 DEF Flow, Created, Wired, Ended, Conserved, io
<1>5. ASSUME NEW k \in Stages, Step(k) \/ Quit(k) PROVE Flow'
  <2>1. CASE PipeFails(k) \/ ForkFails(k) \/ ExecFails(k) \/ SigPipe(k) \/ Quit(k)
    BY <2>1 DEF PipeFails, ForkFails, ExecFails, SigPipe, Quit
  <2> DEFINE t == fds[k]
             p == pip[k]
  <2>0. p \in Fds \X Fds /\ t \in [Fds -> Ends] /\ StageOk(pc[k], k, p, t)
        /\ fds = [fds EXCEPT ![k] = t]
    BY <1>0 DEF TableInv, TypeInv
  <2>a. ASSUME pc[k] # "none", Flow PROVE k \in Jobs
    BY <1>0, <2>a, OnlyJobs DEF Flow
  <2>b. ASSUME pc[k] \in Live, Flow PROVE WiredAt(k, pc[k], t)
    <3>1. pc[k] # "none"
      BY <2>b DEF Live
    <3> QED BY <2>a, <2>b, <3>1 DEF Flow, Wired
  <2>c. ASSUME k = 0, Flow PROVE pc[k] \notin {"pipe", "fork", "parent1", "parent2"}
    BY <2>c DEF Flow, Created
  <2> HIDE DEF t, p
  <2>2. CASE Recur(k)
    <3> DEFINE c == IF k = 0 THEN "redir0" ELSE "pipe"
    <3>1. Flow /\ pc[k] = "recur" /\ pc' = [pc EXCEPT ![k] = c] /\ fds' = fds
          /\ UNCHANGED <<shell, io>>
      BY <1>a, <2>2 DEF Recur, Goto
    <3>2. /\ c \in Live /\ pc[k] \in Live /\ pc[k] \notin Forked
          /\ c \in Forked <=> (k = 0 /\ c = "redir0")
      BY <3>1 DEF Live, PCs, Forked
    <3>3. k \in Jobs /\ WiredAt(k, "recur", t)
      BY <2>a, <2>b, <3>1, <3>2
    <3>4. WiredAt(k, c, t)
      BY <3>3 DEF WiredAt, Unwired, Jobs
    <3>5. /\ c # "child1" /\ c # "child2"
          /\ k = 0 => c \notin {"pipe", "fork", "parent1", "parent2"}
      OBVIOUS
    <3> HIDE DEF c
    <3> QED BY <1>0, <2>0, <3>1, <3>2, <3>3, <3>4, <3>5, MoveFlow
  <2>3. CASE MakePipe(k)
    <3> DEFINE r == LowestFree(t)
               w == LowestFree(Open(t, R(k)))
               u == Piped(t, k, r, w)
    <3>1. Flow /\ pc[k] = "pipe" /\ pc' = [pc EXCEPT ![k] = "fork"]
          /\ fds' = [fds EXCEPT ![k] = u] /\ UNCHANGED <<shell, io>>
      BY <1>a, <2>3 DEF MakePipe, Goto, SetFds, t, Piped
    <3>2. /\ r \in Fds /\ w \in Fds /\ u \in [Fds -> Ends]
          /\ StageOk("fork", k, <<r, w>>, u) /\ u[0] = t[0] /\ u[1] = t[1]
      <4>1. r = LowestFree(t) /\ w = LowestFree(Open(t, R(k))) /\ u = Piped(t, k, r, w)
        OBVIOUS
      <4> HIDE DEF r, w, u
      <4>2. StageOk("pipe", k, p, t)
        BY <2>0, <3>1
      <4> QED BY <2>0, <4>1, <4>2, PipeOk
    <3> HIDE DEF u
    <3>3. "fork" \in Live /\ pc[k] \in Live /\ pc[k] \notin Forked /\ "fork" \notin Forked
      BY <3>1 DEF Live, PCs, Forked
    <3>4. k \in Jobs /\ WiredAt(k, "pipe", t) /\ k # 0
      BY <2>a, <2>b, <2>c, <3>1, <3>3
    <3>5. WiredAt(k, "fork", u)
      BY <3>2, <3>4 DEF WiredAt, Unwired
    <3> QED BY <1>0, <3>1, <3>3, <3>4, <3>5, MoveFlow
  <2>4. CASE ChildDup(k)
    <3> DEFINE u == Dup2(t, p[2], 1)
    <3>1. Flow /\ pc[k] = "child1" /\ pc' = [pc EXCEPT ![k] = "child2"]
          /\ fds' = [fds EXCEPT ![k] = u] /\ UNCHANGED <<shell, io>>
      BY <1>a, <2>4 DEF ChildDup, Goto, SetFds, t, p
    <3> HIDE DEF u
    <3>2. u[0] = t[0] /\ u[1] = W(k + 1)
      BY <2>0, <3>1, ChildDupOk DEF u
    <3>3. "child2" \in Live /\ pc[k] \in Live /\ pc[k] \notin Forked /\ "child2" \notin Forked
      BY <3>1 DEF Live, PCs, Forked
    <3>4. k \in Jobs /\ WiredAt(k, "child1", t) /\ k # Cnt - 1
      BY <2>a, <2>b, <3>1, <3>3 DEF Flow, Created
    <3>5. WiredAt(k, "child2", u)
      BY <3>2, <3>4 DEF WiredAt, Unwired
    <3> QED BY <1>0, <3>1, <3>3, <3>4, <3>5, MoveFlow
  <2>5. CASE ChildClose(k)
    <3> DEFINE u == Close(Close(t, p[1]), p[2])
    <3>1. Flow /\ pc[k] = "child2" /\ pc' = [pc EXCEPT ![k] = "recur"]
          /\ fds' = [fds EXCEPT ![k] = u] /\ UNCHANGED <<shell, io>>
      BY <1>a, <2>5 DEF ChildClose, ClosePipe, Goto, SetFds, t, p
    <3> HIDE DEF u
    <3>2. u[0] = t[0] /\ u[1] = t[1]
      BY <2>0, <3>1, ChildCloseOk DEF u
    <3>3. "recur" \in Live /\ pc[k] \in Live /\ pc[k] \notin Forked /\ "recur" \notin Forked
      BY <3>1 DEF Live, PCs, Forked
    <3>4. k \in Jobs /\ WiredAt(k, "child2", t)
      BY <2>a, <2>b, <3>1, <3>3
    <3>5. WiredAt(k, "recur", u)
      BY <3>2, <3>4 DEF WiredAt, Unwired
    <3> QED BY <1>0, <3>1, <3>3, <3>4, <3>5, MoveFlow
  <2>6. CASE ParentDup(k)
    <3> DEFINE u == Dup2(t, p[1], 0)
    <3>1. Flow /\ pc[k] = "parent1" /\ pc' = [pc EXCEPT ![k] = "parent2"]
          /\ fds' = [fds EXCEPT ![k] = u] /\ UNCHANGED <<shell, io>>
      BY <1>a, <2>6 DEF ParentDup, Goto, SetFds, t, p
    <3> HIDE DEF u
    <3>2. u[0] = R(k) /\ u[1] = t[1]
      BY <2>0, <3>1, ParentDupOk DEF u
    <3>3. "parent2" \in Live /\ pc[k] \in Live /\ pc[k] \in Forked /\ "parent2" \in Forked
      BY <3>1 DEF Live, PCs, Forked
    <3>4. k \in Jobs /\ WiredAt(k, "parent1", t) /\ k # 0
      BY <2>a, <2>b, <2>c, <3>1, <3>3
    <3>5. WiredAt(k, "parent2", u)
      BY <3>2, <3>4 DEF WiredAt, Unwired
    <3> QED BY <1>0, <3>1, <3>3, <3>4, <3>5, MoveFlow
  <2>7. CASE ParentClose(k)
    <3> DEFINE u == Close(Close(t, p[1]), p[2])
    <3>1. Flow /\ pc[k] = "parent2" /\ pc' = [pc EXCEPT ![k] = "redir0"]
          /\ fds' = [fds EXCEPT ![k] = u] /\ UNCHANGED <<shell, io>>
      BY <1>a, <2>7 DEF ParentClose, ClosePipe, Goto, SetFds, t, p
    <3> HIDE DEF u
    <3>2. u[0] = t[0] /\ u[1] = t[1]
      BY <2>0, <3>1, ParentCloseOk DEF u
    <3>3. "redir0" \in Live /\ pc[k] \in Live /\ pc[k] \in Forked /\ "redir0" \in Forked
      BY <3>1 DEF Live, PCs, Forked
    <3>4. k \in Jobs /\ WiredAt(k, "parent2", t)
      BY <2>a, <2>b, <3>1, <3>3
    <3>5. WiredAt(k, "redir0", u)
      BY <3>2, <3>4 DEF WiredAt, Unwired
    <3> QED BY <1>0, <3>1, <3>3, <3>4, <3>5, MoveFlow
  <2>8. ASSUME NEW d \in 0..2, Redirect(k, d) \/ RedirectFails(k, d) PROVE Flow'
    <3> DEFINE c == AfterRedir(d)
    <3>1. Redirect(k, d) /\ redir = {}
      BY <2>8 DEF Redirect, RedirectFails
    <3>2. Flow /\ pc[k] = RedirPc[d] /\ pc' = [pc EXCEPT ![k] = c] /\ fds' = fds
          /\ UNCHANGED <<shell, io>>
      BY <1>a, <2>0, <3>1 DEF Redirect, Goto, SetFds, t
    <3>3. /\ c \in Live /\ pc[k] \in Live /\ pc[k] \in Forked /\ c \in Forked
          /\ pc[k] \notin Unwired /\ c \notin Unwired /\ c # "child1" /\ c # "child2"
          /\ c \notin {"pipe", "fork", "parent1", "parent2"}
      BY <3>2, RedirOrder DEF Live, PCs, Forked, Unwired
    <3> HIDE DEF c
    <3>4. k \in Jobs /\ WiredAt(k, pc[k], t)
      BY <2>a, <2>b, <3>2, <3>3 DEF Live
    <3>5. WiredAt(k, c, t)
      BY <3>3, <3>4 DEF WiredAt, Unwired
    <3> QED BY <1>0, <2>0, <3>2, <3>3, <3>4, <3>5, MoveFlow
  <2>9. CASE Exec(k)
    <3>1. Flow /\ pc[k] = "exec" /\ pc' = [pc EXCEPT ![k] = "run"] /\ fds' = fds
          /\ UNCHANGED <<shell, io>>
      BY <1>a, <2>9 DEF Exec, Goto
    <3>2. "run" \in Live /\ pc[k] \in Live /\ pc[k] \in Forked /\ "run" \in Forked
      BY <3>1 DEF Live, PCs, Forked
    <3>3. k \in Jobs /\ WiredAt(k, "exec", t)
      BY <2>a, <2>b, <3>1, <3>2
    <3>4. WiredAt(k, "run", t)
      BY <3>3 DEF WiredAt, Unwired
    <3> QED BY <1>0, <2>0, <3>1, <3>2, <3>3, <3>4, MoveFlow
  <2>10. CASE Fork(k)
    <3>1. Flow /\ pc[k] = "fork" /\ k > -Depth /\ UNCHANGED <<shell, io>>
          /\ pc' = [pc EXCEPT ![k] = "parent1", ![k - 1] = "child1"]
          /\ fds' = [fds EXCEPT ![k - 1] = t]
      BY <1>a, <2>10 DEF Fork, SetFds, t
    <3>2. k \in Jobs /\ k # 0
      BY <2>a, <2>c, <3>1
    <3>3. k - 1 \in Jobs /\ k - 1 < Cnt - 1 /\ k - 1 # k /\ k - 1 \in Stages
      BY <3>2, PipelineAssumption DEF Jobs, Stages
    <3>4. \A j \in Stages : j < k => pc[j] = "none"
      BY <3>1, <3>2 DEF Flow, Created, Forked
    <3>5. pc'[k] = "parent1" /\ pc'[k - 1] = "child1"
          /\ \A j \in Stages : j # k /\ j # k - 1 => pc'[j] = pc[j] /\ fds'[j] = fds[j]
      BY <1>0, <3>1, <3>3
    <3>6. fds'[k] = t /\ fds'[k - 1] = t
      BY <1>0, <3>1, <3>3 DEF t
    <3>7. Created'
      <4>1. ASSUME NEW i \in Jobs, pc'[i] \notin Forked, NEW j \in Stages, j < i
            PROVE  pc'[j] = "none"
        <5>1. i # k
          BY <3>5, <4>1 DEF Forked
        <5>2. CASE i = k - 1
          BY <3>2, <3>4, <3>5, <4>1, <5>2 DEF Stages, Jobs
        <5>3. CASE i # k - 1
          <6>1. pc[i] \notin Forked
            BY <1>0, <3>5, <4>1, <5>1, <5>3
          <6>2. ~ (k < i)
            BY <3>1, <6>1 DEF Flow, Created
          <6>3. j < k - 1 /\ j # k
            BY <4>1, <5>1, <5>3, <6>2 DEF Stages, Jobs
          <6> QED BY <3>4, <3>5, <6>3 DEF Stages
        <5> QED BY <5>2, <5>3
      <4>2. ASSUME NEW i \in Jobs, i > 0, pc'[i] \in Forked PROVE pc'[i - 1] # "none"
        <5>1. CASE i = k
          BY <3>5, <5>1
        <5>2. CASE i # k
          <6>1. i # k - 1
            BY <3>5, <4>2 DEF Forked
          <6>2. pc[i] \in Forked
            BY <1>0, <3>5, <4>2, <5>2, <6>1
          <6>3. pc[i - 1] # "none" /\ i - 1 \in Stages
            BY <3>1, <4>2, <6>2, PipelineAssumption DEF Flow, Created, Jobs, Stages
          <6> QED BY <3>5, <6>3
        <5> QED BY <5>1, <5>2
      <4>3. \A i \in Stages : i < 0 => pc'[i] = "none"
        <5> SUFFICES ASSUME NEW i \in Stages, i < 0 PROVE pc'[i] = "none"
          OBVIOUS
        <5>1. i # k /\ i # k - 1
          BY <3>2, <3>3 DEF Jobs, Stages
        <5>2. pc[i] = "none"
          BY <3>1 DEF Flow, Created
        <5> QED BY <3>5, <5>1, <5>2
      <4>4. pc'[0] \notin {"pipe", "fork", "parent1", "parent2"}
        <5>1. 0 \in Stages /\ pc[0] \notin {"pipe", "fork", "parent1", "parent2"}
          BY <1>0, <3>1 DEF Flow, Created
        <5> QED BY <3>2, <3>5, <5>1
      <4>5. pc[Cnt - 1] # "none"
        BY <1>0, <3>1, <3>2 DEF Flow, Created, Forked, Jobs, Stages
      <4>6. /\ shell' = "call" => pc'[Cnt - 1] = "none"
            /\ shell' # "call" => pc'[Cnt - 1] # "none"
            /\ shell' = "returned" => pc'[Cnt - 1] = "dead"
            /\ pc'[Cnt - 1] \notin {"child1", "child2"}
        <5>1. shell # "call" /\ (shell = "returned" => pc[Cnt - 1] = "dead")
              /\ pc[Cnt - 1] \notin {"child1", "child2"}
          BY <3>1, <4>5 DEF Flow, Created
        <5>2. CASE k = Cnt - 1
          BY <3>1, <3>5, <4>5, <5>1, <5>2
        <5>3. CASE k # Cnt - 1
          <6>1. Cnt - 1 \in Stages /\ Cnt - 1 # k /\ Cnt - 1 # k - 1
            BY <1>0, <3>2, <3>3, <5>3, PipelineAssumption DEF Jobs
          <6>2. pc'[Cnt - 1] = pc[Cnt - 1]
            BY <3>5, <6>1
          <6> QED BY <3>1, <4>5, <5>1, <6>2
        <5> QED BY <5>2, <5>3
      <4> QED BY <4>1, <4>2, <4>3, <4>4, <4>6 DEF Created
    <3>8. Wired'
      <4>1. WiredAt(k, "fork", t)
        BY <2>b, <3>1 DEF Live, PCs
      <4>2. WiredAt(k, "parent1", t) /\ WiredAt(k - 1, "child1", t)
        BY <3>2, <3>3, <4>1 DEF WiredAt, Unwired, Jobs
      <4>3. ASSUME NEW i \in Jobs, pc'[i] \in Live PROVE WiredAt(i, pc'[i], fds'[i])
        <5>1. CASE i = k
          BY <3>5, <3>6, <4>2, <5>1
        <5>2. CASE i = k - 1
          BY <3>5, <3>6, <4>2, <5>2
        <5>3. CASE i # k /\ i # k - 1
          BY <1>0, <3>1, <3>5, <4>3, <5>3 DEF Flow, Wired
        <5> QED BY <5>1, <5>2, <5>3
      <4> QED BY <4>3 DEF Wired
    <3>9. Ended'
      <4>1. ASSUME NEW i \in Jobs, pc'[i] = "dead" PROVE pc[i] = "dead" /\ i < k - 1
        <5>1. i # k /\ i # k - 1 /\ pc[i] = "dead"
          BY <1>0, <3>5, <4>1
        <5>2. ~ (k < i)
          BY <3>1, <3>2, <5>1 DEF Flow, Ended
        <5> QED BY <5>1, <5>2 DEF Jobs, Stages
      <4>2. \A i \in Jobs : pc'[i] # "dead"
        <5> SUFFICES ASSUME NEW i \in Jobs, pc'[i] = "dead" PROVE FALSE
          OBVIOUS
        <5>1. pc[i] = "dead" /\ i < k - 1
          BY <4>1
        <5> QED BY <1>0, <3>4, <5>1 DEF Stages, Jobs
      <4> QED BY <4>2 DEF Ended
    <3>10. Conserved'
      BY <3>1 DEF Flow, Conserved, io
    <3> QED BY <3>7, <3>8, <3>9, <3>10 DEF Flow
  <2>11. CASE Eof(k)
    <3>1. Flow /\ pc[k] = "run" /\ hand[k] = 0 /\ AtEof(k) /\ UNCHANGED <<shell, io>>
          /\ pc' = [pc EXCEPT ![k] = "dead"] /\ fds' = [fds EXCEPT ![k] = AllClosed]
      BY <1>a, <2>11 DEF Eof, Die, SetFds
    <3>2. pc[k] \in Live /\ pc[k] \in Forked
      BY <3>1 DEF Live, PCs, Forked
    <3>3. k \in Jobs /\ WiredAt(k, "run", t)
      BY <2>a, <2>b, <3>1, <3>2
    <3>4. /\ \A j \in Jobs : j < k => pc[j] = "dead"
          /\ pipe[k] = 0 /\ (k = 0 => left[0] = 0)
      <4>1. CASE k = 0
        <5>1. In(k) = Std /\ In(k).kind # "r"
          BY <3>3, <4>1, EndKinds DEF WiredAt, In, t
        <5>2. left[0] = 0 /\ pipe[0] = 0
          BY <3>1, <4>1, <5>1 DEF AtEof, Flow, Conserved, Flows
        <5> QED BY <4>1, <5>2 DEF Jobs
      <4>2. CASE k # 0
        <5>1. In(k) = R(k) /\ k > 0
          BY <3>3, <4>2 DEF WiredAt, In, t, Unwired, Jobs
        <5>2. pipe[k] = 0 /\ ~ HasWriter(k)
          BY <3>1, <5>1, EndKinds DEF AtEof
        <5> DEFINE j == k - 1
        <5>3. pc[j] # "none" /\ j \in Jobs /\ j < Cnt - 1 /\ j + 1 = k /\ j \in Stages
          BY <1>0, <3>1, <3>2, <3>3, <5>1, PipelineAssumption
          DEF Flow, Created, Jobs, Stages
        <5> HIDE DEF j
        <5>4. pc[j] \notin Live
          <6> SUFFICES ASSUME pc[j] \in Live PROVE HasWriter(k)
            BY <5>2
          <6>1. CASE pc[j] = "child1"
            <7>1. pip[j] \in Fds \X Fds /\ StageOk(pc[j], j, pip[j], fds[j])
              BY <5>3 DEF TableInv, TypeInv
            <7>2. EndsOk("child1", j, pip[j], fds[j])
              BY <6>1, <7>1 DEF StageOk
            <7>3. fds[j][pip[j][2]] = W(j + 1) /\ pip[j][2] \in Fds
              BY <7>1, <7>2 DEF EndsOk
            <7> QED BY <5>3, <7>3 DEF HasWriter
          <6>2. CASE pc[j] # "child1"
            <7>1. WiredAt(j, pc[j], fds[j])
              BY <3>1, <5>3 DEF Flow, Wired
            <7>2. fds[j][1] = W(k) /\ 1 \in Fds
              BY <5>3, <6>2, <7>1 DEF WiredAt, Fds
            <7> QED BY <5>3, <7>2 DEF HasWriter
          <6> QED BY <6>1, <6>2
        <5>5. pc[j] = "dead"
          BY <1>0, <5>3, <5>4 DEF Live
        <5>6. \A i \in Jobs : i < k => i = j \/ i < j
          BY <3>3, <5>3 DEF Jobs
        <5> QED BY <3>1, <5>1, <5>2, <5>3, <5>5, <5>6 DEF Flow, Ended
      <4> QED BY <4>1, <4>2
    <3>5. Created'
      <4>1. ASSUME NEW i \in Jobs, pc'[i] \notin Forked, NEW j \in Stages, j < i
            PROVE  pc'[j] = "none"
        <5>1. i # k /\ pc[i] \notin Forked
          BY <1>0, <3>1, <4>1 DEF Forked
        <5>2. pc[j] = "none" /\ j # k
          BY <3>1, <4>1, <5>1 DEF Flow, Created
        <5> QED BY <1>0, <3>1, <5>2
      <4>2. ASSUME NEW i \in Jobs, i > 0, pc'[i] \in Forked PROVE pc'[i - 1] # "none"
        <5>1. pc[i] \in Forked
          BY <1>0, <3>1, <3>2, <4>2
        <5>2. pc[i - 1] # "none" /\ i - 1 \in Stages
          BY <3>1, <4>2, <5>1, PipelineAssumption DEF Flow, Created, Jobs, Stages
        <5> QED BY <1>0, <3>1, <5>2
      <4>3. \A i \in Stages : i < 0 => pc'[i] = "none"
        BY <1>0, <3>1 DEF Flow, Created
      <4>4. pc'[0] \notin {"pipe", "fork", "parent1", "parent2"}
        BY <1>0, <3>1 DEF Flow, Created
      <4>5. /\ shell' = "call" => pc'[Cnt - 1] = "none"
            /\ shell' # "call" => pc'[Cnt - 1] # "none"
            /\ shell' = "returned" => pc'[Cnt - 1] = "dead"
            /\ pc'[Cnt - 1] \notin {"child1", "child2"}
        <5>1. shell # "call"
          <6>1. pc[Cnt - 1] # "none"
            BY <1>0, <3>1, <3>2, <3>3 DEF Flow, Created, Forked, Jobs, Stages
          <6> QED BY <3>1, <6>1 DEF Flow, Created
        <5>2. CASE k = Cnt - 1
          BY <1>0, <3>1, <5>1, <5>2
        <5>3. CASE k # Cnt - 1
          <6>1. pc'[Cnt - 1] = pc[Cnt - 1]
            BY <1>0, <3>1, <5>3
          <6> QED BY <3>1, <6>1 DEF Flow, Created
        <5> QED BY <5>2, <5>3
      <4> QED BY <4>1, <4>2, <4>3, <4>4, <4>5 DEF Created
    <3>6. Wired'
      BY <1>0, <3>1 DEF Flow, Wired, Live
    <3>7. Ended'
      <4>1. ASSUME NEW i \in Jobs, pc'[i] = "dead"
            PROVE  /\ \A j \in Jobs : j < i => pc'[j] = "dead"
                   /\ hand[i] = 0 /\ pipe[i] = 0 /\ (i = 0 => left[0] = 0)
        <5>1. CASE i = k
          BY <1>0, <3>1, <3>4, <5>1
        <5>2. CASE i # k
          <6>1. pc[i] = "dead"
            BY <1>0, <3>1, <4>1, <5>2
          <6> QED BY <1>0, <3>1, <6>1 DEF Flow, Ended
        <5> QED BY <5>1, <5>2
      <4> QED BY <3>1, <4>1 DEF Ended, io
    <3>8. Conserved'
      BY <3>1 DEF Flow, Conserved, io
    <3> QED BY <3>5, <3>6, <3>7, <3>8 DEF Flow
  <2>d. ASSUME Flow, pc[k] = "run", UNCHANGED <<shell, pc, fds>>, Ended', Conserved'
        PROVE  Flow'
    BY <2>d DEF Flow, Created, Wired
  <2>e. ASSUME Flow, pc[k] = "run"
        PROVE  k \in Jobs /\ WiredAt(k, "run", t) /\ In(k) = t[0] /\ Out(k) = t[1]
    BY <2>a, <2>b, <2>e DEF Live, PCs, In, Out, t
  <2>f. /\ pipe \in [Stages -> Nat] /\ hand \in [Stages -> 0..1]
        /\ left \in [Stages -> Nat] /\ out \in Nat
    BY DEF CountInv
  <2>12. CASE ReadPipe(k)
    <3>1. Flow /\ pc[k] = "run" /\ hand[k] = 0 /\ In(k).kind = "r" /\ pipe[In(k).pipe] > 0
          /\ pipe' = [pipe EXCEPT ![In(k).pipe] = @ - 1] /\ hand' = [hand EXCEPT ![k] = 1]
          /\ UNCHANGED <<shell, pc, fds, left, out>>
      BY <1>a, <2>12 DEF ReadPipe
    <3>2. In(k) = R(k) /\ k # 0 /\ k \in Jobs /\ In(k).pipe = k
      BY <2>e, <3>1, EndKinds DEF WiredAt, Unwired, Jobs
    <3>3. pipe' = [pipe EXCEPT ![k] = pipe[k] - 1] /\ pipe[k] > 0
      BY <3>1, <3>2
    <3>4. Ended'
      BY <1>0, <2>f, <3>1, <3>2, <3>3 DEF Flow, Ended
    <3>5. PICK f \in [0..Cnt -> Int] : Flows(f, hand, pipe, left, out)
      BY <3>1 DEF Flow, Conserved
    <3>6. \A j \in Jobs : hand'[j] + pipe'[j] = hand[j] + pipe[j]
      BY <1>0, <2>f, <3>1, <3>2, <3>3
    <3>7. Flows(f, hand', pipe', left', out')
      <4>1. ASSUME NEW j \in Jobs PROVE f[j] = f[j + 1] + hand'[j] + pipe'[j]
        <5>1. f[j] = f[j + 1] + hand[j] + pipe[j] /\ j + 1 \in 0..Cnt
          BY <3>5, PipelineAssumption DEF Flows, Jobs
        <5>2. f[j + 1] \in Int /\ hand[j] \in Int /\ pipe[j] \in Int
              /\ hand'[j] \in Int /\ pipe'[j] \in Int
          BY <1>0, <2>f, <3>1, <3>3, <5>1, SMTT(60)
        <5> QED BY <3>6, <5>1, <5>2
      <4> QED BY <1>0, <2>f, <3>1, <3>2, <3>3, <3>5, <4>1 DEF Flows
    <3>8. Conserved'
      BY <3>7 DEF Conserved
    <3> QED BY <2>d, <3>1, <3>4, <3>8
  <2>13. CASE ReadFile(k)
    <3>1. Flow /\ pc[k] = "run" /\ hand[k] = 0 /\ In(k).kind \in {"std", "file"} /\ left[k] > 0
          /\ left' = [left EXCEPT ![k] = @ - 1] /\ hand' = [hand EXCEPT ![k] = 1]
          /\ UNCHANGED <<shell, pc, fds, pipe, out>>
      BY <1>a, <2>13 DEF ReadFile
    <3>2. k = 0 /\ k \in Jobs
      BY <2>e, <3>1, EndKinds DEF WiredAt, Unwired, Jobs
    <3>3. Ended'
      BY <1>0, <2>f, <3>1, <3>2 DEF Flow, Ended
    <3>4. PICK f \in [0..Cnt -> Int] : Flows(f, hand, pipe, left, out)
      BY <3>1 DEF Flow, Conserved
    <3> DEFINE g == [f EXCEPT ![0] = f[0] + 1]
    <3>5. /\ g \in [0..Cnt -> Int] /\ g[0] = f[0] + 1 /\ f[0] \in Int
          /\ \A j \in 0..Cnt : j # 0 => g[j] = f[j]
      BY PipelineAssumption
    <3> HIDE DEF g
    <3>6. ASSUME NEW j \in Jobs PROVE g[j] = g[j + 1] + hand'[j] + pipe'[j]
      <4>1. f[j] = f[j + 1] + hand[j] + pipe[j] /\ j + 1 \in 0..Cnt /\ j \in 0..Cnt
            /\ j + 1 # 0
        BY <3>4, PipelineAssumption DEF Flows, Jobs
      <4>2. f[j + 1] \in Int /\ hand[j] \in Int /\ pipe[j] \in Int /\ g[j + 1] = f[j + 1]
        BY <1>0, <2>f, <3>5, <4>1
      <4>3. CASE j = 0
        BY <1>0, <2>f, <3>1, <3>2, <3>5, <4>1, <4>2, <4>3
      <4>4. CASE j # 0
        BY <1>0, <2>f, <3>1, <3>2, <3>5, <4>1, <4>2, <4>4
      <4> QED BY <4>3, <4>4
    <3>7. g[Cnt] = out' /\ pipe'[0] = 0 /\ g[0] + left'[0] = Items
      BY <1>0, <2>f, <3>1, <3>2, <3>4, <3>5, PipelineAssumption DEF Flows
    <3>8. Conserved'
      BY <3>5, <3>6, <3>7 DEF Conserved, Flows
    <3> QED BY <2>d, <3>1, <3>3, <3>8
  <2>14. CASE WritePipe(k)
    <3>1. Flow /\ pc[k] = "run" /\ hand[k] = 1 /\ Out(k).kind = "w"
          /\ pipe' = [pipe EXCEPT ![Out(k).pipe] = @ + 1] /\ hand' = [hand EXCEPT ![k] = 0]
          /\ UNCHANGED <<shell, pc, fds, left, out>>
      BY <1>a, <2>14 DEF WritePipe
    <3> DEFINE m == k + 1
    <3>2. Out(k) = W(m) /\ k < Cnt - 1 /\ k \in Jobs /\ Out(k).pipe = m
      BY <2>e, <3>1, EndKinds, PipelineAssumption DEF WiredAt, Jobs
    <3>3. pipe' = [pipe EXCEPT ![m] = pipe[m] + 1]
      BY <3>1, <3>2
    <3>4. m \in Jobs /\ m # 0 /\ m # Cnt /\ m \in 0..Cnt /\ m \in Stages /\ m # k
      BY <1>0, <3>2, PipelineAssumption DEF Jobs
    <3>a. k < m
      BY <3>2 DEF Jobs
    <3> HIDE DEF m
    <3>5. pc[m] # "dead"
      BY <3>1, <3>2, <3>4, <3>a DEF Flow, Ended
    <3>6. Ended'
      BY <1>0, <2>f, <3>1, <3>2, <3>3, <3>4, <3>5 DEF Flow, Ended
    <3>7. PICK f \in [0..Cnt -> Int] : Flows(f, hand, pipe, left, out)
      BY <3>1 DEF Flow, Conserved
    <3> DEFINE g == [f EXCEPT ![m] = f[m] + 1]
    <3>8. /\ g \in [0..Cnt -> Int] /\ g[m] = f[m] + 1 /\ f[m] \in Int
          /\ \A j \in 0..Cnt : j # m => g[j] = f[j]
      BY <3>4
    <3> HIDE DEF g
    <3>9. ASSUME NEW j \in Jobs PROVE g[j] = g[j + 1] + hand'[j] + pipe'[j]
      <4>1. f[j] = f[j + 1] + hand[j] + pipe[j] /\ j + 1 \in 0..Cnt /\ j \in 0..Cnt
            /\ j + 1 # j /\ (j + 1 = m <=> j = k)
        BY <3>2, <3>7, PipelineAssumption DEF Flows, Jobs, m
      <4>2. f[j] \in Int /\ f[j + 1] \in Int /\ hand[j] \in Int /\ pipe[j] \in Int
        BY <1>0, <2>f, <4>1
      <4>3. CASE j = k
        <5>1. g[j] = f[j] /\ g[j + 1] = f[j + 1] + 1 /\ hand'[j] = 0 /\ pipe'[j] = pipe[j]
              /\ hand[j] = 1
          BY <1>0, <2>f, <3>1, <3>3, <3>4, <3>8, <4>1, <4>3
        <5> QED BY <4>1, <4>2, <5>1
      <4>4. CASE j = m
        <5>1. g[j] = f[j] + 1 /\ g[j + 1] = f[j + 1] /\ hand'[j] = hand[j]
              /\ pipe'[j] = pipe[j] + 1
          BY <1>0, <2>f, <3>1, <3>3, <3>4, <3>8, <4>1, <4>4
        <5> QED BY <4>1, <4>2, <5>1
      <4>5. CASE j # k /\ j # m
        <5>1. g[j] = f[j] /\ g[j + 1] = f[j + 1] /\ hand'[j] = hand[j] /\ pipe'[j] = pipe[j]
          BY <1>0, <2>f, <3>1, <3>3, <3>4, <3>8, <4>1, <4>5
        <5> QED BY <4>1, <4>2, <5>1
      <4> QED BY <4>3, <4>4, <4>5
    <3>10. g[Cnt] = out' /\ pipe'[0] = 0 /\ g[0] + left'[0] = Items
      <4>1. f[Cnt] = out /\ f[0] + left[0] = Items /\ pipe[0] = 0
        BY <3>7 DEF Flows
      <4>2. g[Cnt] = f[Cnt] /\ g[0] = f[0]
        BY <3>4, <3>8, PipelineAssumption
      <4>3. pipe'[0] = pipe[0] /\ left' = left /\ out' = out
        BY <1>0, <2>f, <3>1, <3>3, <3>4
      <4> QED BY <4>1, <4>2, <4>3
    <3>11. Conserved'
      BY <3>8, <3>9, <3>10 DEF Conserved, Flows
    <3> QED BY <2>d, <3>1, <3>6, <3>11
  <2>15. CASE WriteFile(k)
    <3>1. Flow /\ pc[k] = "run" /\ hand[k] = 1 /\ Out(k).kind \in {"std", "file"}
          /\ hand' = [hand EXCEPT ![k] = 0] /\ out' = (IF k = Cnt - 1 THEN out + 1 ELSE out)
          /\ UNCHANGED <<shell, pc, fds, pipe, left>>
      BY <1>a, <2>15 DEF WriteFile
    <3>2. k = Cnt - 1 /\ k \in Jobs
      BY <2>e, <3>1, EndKinds, PipelineAssumption DEF WiredAt, Jobs
    <3>3. Ended'
      BY <1>0, <2>f, <3>1, <3>2 DEF Flow, Ended
    <3>4. PICK f \in [0..Cnt -> Int] : Flows(f, hand, pipe, left, out)
      BY <3>1 DEF Flow, Conserved
    <3> DEFINE g == [f EXCEPT ![Cnt] = f[Cnt] + 1]
    <3>5. /\ g \in [0..Cnt -> Int] /\ g[Cnt] = f[Cnt] + 1 /\ f[Cnt] \in Int
          /\ \A j \in 0..Cnt : j # Cnt => g[j] = f[j]
      BY PipelineAssumption
    <3> HIDE DEF g
    <3>6. ASSUME NEW j \in Jobs PROVE g[j] = g[j + 1] + hand'[j] + pipe'[j]
      <4>1. f[j] = f[j + 1] + hand[j] + pipe[j] /\ j + 1 \in 0..Cnt /\ j \in 0..Cnt
            /\ j # Cnt /\ (j + 1 = Cnt <=> j = k)
        BY <3>2, <3>4, PipelineAssumption DEF Flows, Jobs
      <4>2. f[j] \in Int /\ f[j + 1] \in Int /\ hand[j] \in Int /\ pipe[j] \in Int
        BY <1>0, <2>f, <4>1
      <4>3. CASE j = k
        <5>1. g[j] = f[j] /\ g[j + 1] = f[j + 1] + 1 /\ hand'[j] = 0 /\ pipe'[j] = pipe[j]
              /\ hand[j] = 1
          BY <1>0, <2>f, <3>1, <3>5, <4>1, <4>3
        <5> QED BY <4>1, <4>2, <5>1
      <4>4. CASE j # k
        <5>1. g[j] = f[j] /\ g[j + 1] = f[j + 1] /\ hand'[j] = hand[j] /\ pipe'[j] = pipe[j]
          BY <1>0, <2>f, <3>1, <3>5, <4>1, <4>4
        <5> QED BY <4>1, <4>2, <5>1
      <4> QED BY <4>3, <4>4
    <3>7. g[Cnt] = out' /\ pipe'[0] = 0 /\ g[0] + left'[0] = Items
      BY <1>0, <2>f, <3>1, <3>2, <3>4, <3>5, PipelineAssumption DEF Flows
    <3>8. Conserved'
      BY <3>5, <3>6, <3>7 DEF Conserved, Flows
    <3> QED BY <2>d, <3>1, <3>3, <3>8
  <2> QED
    BY <1>5, <2>1, <2>2, <2>3, <2>4, <2>5, <2>6, <2>7, <2>8, <2>9, <2>10, <2>11, <2>12,
       <2>13, <2>14, <2>15
    DEF Step
<1>6. CASE Done \/ UNCHANGED vars
  <2>1. UNCHANGED <<shell, pc, fds, io, clean, redir>>
    BY <1>6 DEF Done, vars, io
  <2> QED BY <1>1, <2>1
<1> QED BY <1>2, <1>3, <1>4, <1>5, <1>6 DEF Next, ShellStep

\* At first nothing has flowed.
LEMMA FlowInit == Init => CountInv /\ FlowInv
<1> SUFFICES ASSUME Init PROVE CountInv /\ FlowInv
  OBVIOUS
<1>1. CountInv
  BY PipelineAssumption DEF Init, CountInv
<1>2. \A k \in Stages : pc[k] = "none"
  BY DEF Init
<1>3. Jobs \subseteq Stages /\ Cnt - 1 \in Jobs /\ 0 \in Jobs
  BY PipelineAssumption DEF Jobs, Stages
<1>4. Created
  <2>1. "none" \notin Forked
    BY DEF Forked
  <2> QED BY <1>2, <1>3, <2>1 DEF Init, Created
<1>5. Wired /\ Ended
  BY <1>2, <1>3 DEF Wired, Ended, Live
<1>6. Conserved
  <2> DEFINE f == [j \in 0..Cnt |-> 0]
  <2>1. f \in [0..Cnt -> Int] /\ \A j \in 0..Cnt : f[j] = 0
    OBVIOUS
  <2>2. \A j \in Jobs : j \in 0..Cnt /\ j + 1 \in 0..Cnt
    BY PipelineAssumption DEF Jobs
  <2> HIDE DEF f
  <2>3. \A j \in Jobs : hand[j] = 0 /\ pipe[j] = 0
    BY <1>3 DEF Init
  <2>4. out = 0 /\ left[0] = Items /\ pipe[0] = 0 /\ 0 \in 0..Cnt /\ Cnt \in 0..Cnt
    BY <1>3, PipelineAssumption DEF Init
  <2>5. Flows(f, hand, pipe, left, out)
    BY <2>1, <2>2, <2>3, <2>4, PipelineAssumption DEF Flows
  <2> QED BY <2>1, <2>5 DEF Conserved
<1> QED BY <1>1, <1>4, <1>5, <1>6 DEF FlowInv, Flow

\* When exec_job returns, what all stages have passed on is the whole input.
LEMMA FlowImplies == TableInv /\ CountInv /\ FlowInv => OutputComplete
<1> SUFFICES ASSUME TableInv, CountInv, FlowInv, shell = "returned", clean, redir = {}
             PROVE  out = Items /\ \A k \in Jobs : pc[k] = "dead"
  BY DEF OutputComplete
<1>1. Flow
  BY DEF FlowInv
<1>2. pc[Cnt - 1] = "dead" /\ Cnt - 1 \in Jobs /\ 0 \in Jobs /\ Jobs \subseteq Stages
  BY <1>1, PipelineAssumption DEF Flow, Created, Jobs, Stages
<1>3. \A k \in Jobs : pc[k] = "dead"
  <2>1. \A k \in Jobs : k < Cnt - 1 \/ k = Cnt - 1
    BY PipelineAssumption DEF Jobs
  <2> QED BY <1>1, <1>2, <2>1 DEF Flow, Ended
<1>4. PICK f \in [0..Cnt -> Int] : Flows(f, hand, pipe, left, out)
  BY <1>1 DEF Flow, Conserved
<1>5. \A k \in Jobs : hand[k] = 0 /\ pipe[k] = 0
  BY <1>1, <1>3 DEF Flow, Ended
<1>6. left[0] = 0
  BY <1>1, <1>2, <1>3 DEF Flow, Ended
<1> DEFINE S == {n \in Nat : n <= Cnt => f[n] = f[0]}
<1>7. 0 \in S
  OBVIOUS
<1>8. ASSUME NEW n \in Nat, n \in S PROVE n + 1 \in S
  <2> SUFFICES ASSUME n + 1 <= Cnt PROVE f[n + 1] = f[0]
    OBVIOUS
  <2>1. n \in Jobs /\ f[n] = f[0] /\ n + 1 \in 0..Cnt
    BY <1>8, PipelineAssumption DEF Jobs
  <2>2. f[n] = f[n + 1] + hand[n] + pipe[n]
    BY <1>4, <2>1 DEF Flows
  <2>3. f[n + 1] \in Int
    BY <2>1
  <2> QED BY <1>5, <2>1, <2>2, <2>3
<1> HIDE DEF S
<1>9. \A n \in Nat : n \in S
  BY <1>7, <1>8, SetInduction
<1>10. f[Cnt] = f[0] /\ f[0] \in Int
  BY <1>9, PipelineAssumption DEF S
<1>11. f[Cnt] = out /\ f[0] + left[0] = Items
  BY <1>4 DEF Flows
<1>12. out = Items
  BY <1>6, <1>10, <1>11, PipelineAssumption
<1> QED BY <1>3, <1>12

\* exec_job waits for the last stage only, and that is enough: when it returns
\* and nothing failed, every stage has ended and all the input has come out,
\* for any number of jobs, any capacity of the pipes and any input.
THEOREM NothingIsLostInThePipeline == Spec => []OutputComplete
<1>1. Init => TableInv /\ CountInv /\ FlowInv
  BY TableInit, FlowInit
<1>2. TableInv /\ CountInv /\ FlowInv /\ [Next]_vars => (TableInv /\ CountInv /\ FlowInv)'
  BY TableStep, CountStep, FlowStep DEF TableInv
<1>3. TableInv /\ CountInv /\ FlowInv => OutputComplete
  BY FlowImplies
<1> QED BY <1>1, <1>2, <1>3, PTL DEF Spec
=============================================================================
