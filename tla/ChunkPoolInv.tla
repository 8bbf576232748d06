---------------------------- MODULE ChunkPoolInv ----------------------------
(* The inductive invariant of ChunkPool: what acquire, release and the      *)
(* eviction rely on without saying so.                                      *)
EXTENDS ChunkPool

\* The paths of subproblems: at least the owner of a top-level quorum.
Path == Seq(Chunk) \ {<<>>}

LoadOf  == [op : {"load"}, chunk : Chunk, at : PoolSlot]
KernelOf == [op : {"kernel"}, path : Path, where : Seq(PoolSlot)]

HostTypeOK ==
  /\ pc \in {"pop", "upload", "acquire", "kernel", "merge", "oom", "end"}
  /\ pending \in Seq(Path)
  /\ pc \notin {"pop", "end"} => cur \in Path
  /\ turn \in Nat /\ streams \in 1 .. NPar

PoolTypeOK ==
  /\ todo \in Seq(Chunk) /\ assigned \in Seq(PoolSlot)
  /\ resident \in Seq(Chunk) /\ free \in Seq(PoolSlot)
  /\ slotOf \in [Chunk -> {None} \cup PoolSlot]
  /\ refs \in [Chunk -> Nat]
  /\ DOMAIN lastUse = Chunk

DeviceTypeOK ==
  /\ work \in [Worker -> Seq(LoadOf \cup KernelOf)]
  /\ merges \in Seq(Path)
  /\ content \in [PoolSlot -> {None} \cup Chunk]

\* acquire works through the chunks of cur in order; what it is done with is held.
HasAssigned(p, where) ==
  \A x \in DOMAIN where :
    /\ x \in DOMAIN ChunksOf(p)
    /\ slotOf[ChunksOf(p)[x]] = where[x]

Acquiring ==
  /\ pc \in {"acquire", "kernel", "merge"} =>
       /\ HasAssigned(cur, assigned)
       /\ \A x \in DOMAIN assigned : refs[ChunksOf(cur)[x]] > 0
  /\ pc = "acquire" =>
       /\ Len(assigned) + Len(todo) = Len(ChunksOf(cur))
       /\ \A i \in DOMAIN todo : todo[i] = ChunksOf(cur)[Len(assigned) + i]
  /\ pc \in {"kernel", "merge"} => Len(assigned) = Len(ChunksOf(cur))

\* Every chunk a kernel will read keeps its slot until then ...
KernelServed(w) ==
  w.op = "kernel" =>
    /\ Len(w.where) = Len(ChunksOf(w.path))
    /\ HasAssigned(w.path, w.where)

\* ... because cur still holds it, or because the event recorded last for it lies
\* no earlier than the merge behind the kernel.
UsedAfter(p, i) ==
  \A k \in Range(ChunksOf(p)) : \E j \in i .. Len(merges) : lastUse[k] = merges[j]

KernelGuarded(w) ==
  w.op = "kernel" =>
    \/ pc = "merge" /\ w.path = cur
    \/ \E i \in DOMAIN merges : merges[i] = w.path /\ UsedAfter(w.path, i)

\* A load is wanted until it runs: the kernel it is for is behind it in its stream,
\* or about to be.
LoadWanted(s, i) ==
  \/ \E j \in DOMAIN work[s] :
       /\ j > i /\ work[s][j].op = "kernel"
       /\ work[s][i].chunk \in Range(ChunksOf(work[s][j].path))
  \/ /\ pc \in {"acquire", "kernel"} /\ s = TheWorker
     /\ \E x \in DOMAIN assigned : work[s][i].chunk = ChunksOf(cur)[x]

LoadOK(s, i) ==
  work[s][i].op = "load" =>
    /\ slotOf[work[s][i].chunk] = work[s][i].at
    /\ \A j \in DOMAIN work[s] :
         j < i /\ work[s][j].op = "kernel" =>
           work[s][i].chunk \notin Range(ChunksOf(work[s][j].path))

\* The rows of a resident chunk are in its slot, or on their way.
OnItsWayTo(k) ==
  \E s \in Worker : \E i \in DOMAIN work[s] :
    work[s][i].op = "load" /\ work[s][i].chunk = k

Filled == \A k \in Range(resident) : content[slotOf[k]] = k \/ OnItsWayTo(k)

Served == \A s \in Worker : \A i \in DOMAIN work[s] : KernelServed(work[s][i])

Loaded == \A s \in Worker : \A i \in DOMAIN work[s] : LoadOK(s, i)

\* Nothing is acquired after a failure before the streams are empty.
Guarded ==
  pc \notin {"oom", "end"} =>
    \A s \in Worker : \A i \in DOMAIN work[s] :
      /\ KernelGuarded(work[s][i])
      /\ work[s][i].op = "load" => LoadWanted(s, i)

IInv ==
  /\ HostTypeOK /\ PoolTypeOK /\ DeviceTypeOK
  /\ PoolOK /\ Acquiring /\ Served /\ Loaded /\ Guarded /\ Filled

=============================================================================
