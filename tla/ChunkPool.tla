----------------------------- MODULE ChunkPool -----------------------------
(***************************************************************************)
(* stream_cqsa_forward with shared_chunks: DeviceChunkPool holds each chunk *)
(* of the sequence at most once on the device, in a slot of a pool that the *)
(* subproblems in flight share, and a kernel reads its tokens through a     *)
(* block map of pool rows instead of a gathered copy.                       *)
(*                                                                          *)
(* The host counts references, but drops a subproblem's as soon as its work *)
(* is enqueued; from then on only the event recorded behind the merge keeps *)
(* a slot from being overwritten while a kernel still has to read it.       *)
(*                                                                          *)
(* The tokens of subproblems are those of QuorumDecomposition.  Retries are *)
(* not counted here: RecoveryLoop has the budget.                           *)
(***************************************************************************)
EXTENDS QuorumDecomposition

CONSTANTS
  N,                \* the number of tokens
  NPar,             \* n_par, the number of worker streams at the start
  MayRunOut,        \* whether memory may run out
  AllowEscalation,  \* allow_escalation
  ChunkPoolSlots,   \* chunk_pool_slots, 0 for the default
  PinnedInputs,     \* whether the token-major inputs lie in pinned memory
  None              \* no chunk, no slot, no subproblem

ASSUME PoolParameters ==
  /\ N \in Nat /\ N >= c
  /\ NPar \in Nat \ {0} /\ ChunkPoolSlots \in Nat
  /\ {MayRunOut, AllowEscalation, PinnedInputs} \subseteq BOOLEAN
  /\ None \notin Nat /\ None \notin Seq(Chunk)

\* slip: room for one subproblem
RoomForOne == Len(interest_set)

\* By default room for what NPar subproblems gather, at most for every chunk.
PoolSize ==
  IF ChunkPoolSlots > 0 THEN ChunkPoolSlots ELSE Min({c, NPar * Len(interest_set)})

PoolSlot == 0 .. PoolSize - 1
Worker   == 0 .. NPar - 1

VARIABLES
  pc, pending, cur, turn, streams, slotDone, outcome,   \* as in ForwardScheduler
  todo,      \* the chunks acquire has still to make resident for cur
  assigned,  \* where those it is done with lie
  resident,  \* slot_of: the chunks with a slot, oldest first
  slotOf,    \* slotOf[k]: the slot of a resident chunk k
  free,      \* the slots never used, a stack
  refs,      \* refcount
  lastUse,   \* last_event: the subproblem behind whose merge it was recorded
  work,      \* work[s]: what is enqueued on worker stream s
  merges,    \* the subproblems whose merge is enqueued
  content,   \* content[p]: the chunk whose rows lie in pool slot p
  foreign,   \* the subproblems whose kernel read rows of other tokens
  merged     \* the subproblems in the accumulator

host   == <<pc, pending, cur, turn, streams, slotDone, outcome>>
pool   == <<todo, assigned, resident, slotOf, free, refs, lastUse>>
device == <<work, merges, content, foreign, merged>>
vars   == <<host, pool, device>>

Init ==
  /\ pc = "pop"
  /\ pending = [i \in 1 .. c |-> <<i - 1>>]
  /\ cur = None
  /\ turn = 0
  /\ streams = NPar
  /\ slotDone = [s \in Worker |-> None]
  /\ outcome = "running"
  /\ todo = <<>>
  /\ assigned = <<>>
  /\ resident = <<>>
  /\ slotOf = [k \in Chunk |-> None]
  /\ free = [i \in 1 .. PoolSize |-> i - 1]
  /\ refs = [k \in Chunk |-> 0]
  /\ lastUse = [k \in Chunk |-> None]
  /\ work = [s \in Worker |-> <<>>]
  /\ merges = <<>>
  /\ content = [p \in PoolSlot |-> None]
  /\ foreign = {}
  /\ merged = {}

-----------------------------------------------------------------------------

Task(path) == AtPath(N, path, TRUE, 1)

\* The chunks a subproblem is served from: those of its top-level owner.
ChunksOf(path) == GatherOrder(path[1], TRUE)

\* The row a block map leads to: the tokens of the chunks at the assigned slots,
\* one after the other, as many as the subproblem has.
RowsRead(path, where) ==
  LET rows == FlattenSeq([i \in DOMAIN where |->
                IF content[where[i]] = None THEN <<>>
                ELSE Segment(Root(N).ids, 1, content[where[i]])])
  IN  SubSeq(rows, 1, Min({Len(rows), Len(Task(path).ids)}))

TheWorker == turn % streams

Queued(path) ==
  \/ \E s \in Worker : \E i \in DOMAIN work[s] : work[s][i].op = "kernel" /\ work[s][i].path = path
  \/ \E i \in DOMAIN merges : merges[i] = path

Synchronized == (\A s \in Worker : work[s] = <<>>) /\ merges = <<>>

-----------------------------------------------------------------------------
(* run_one. *)

PopTask ==
  /\ pc = "pop" /\ pending # <<>>
  /\ cur' = Head(pending)
  /\ pending' = Tail(pending)
  /\ pc' = "upload"
  /\ UNCHANGED <<turn, streams, slotDone, outcome, pool, device>>

\* slot_done[slot].synchronize(), then the upload of the token ids.
Upload ==
  /\ pc = "upload"
  /\ slotDone[TheWorker] = None \/ ~ Queued(slotDone[TheWorker])
  /\ pc' = "acquire"
  /\ todo' = ChunksOf(cur)
  /\ assigned' = <<>>
  /\ UNCHANGED <<pending, cur, turn, streams, slotDone, outcome, resident, slotOf,
                 free, refs, lastUse, device>>

\* acquire: the next chunk gets slot p, which is as good as pinned for cur.
Pin(k, p) ==
  /\ refs' = [refs EXCEPT ![k] = @ + 1]
  /\ assigned' = Append(assigned, p)
  /\ todo' = Tail(todo)

\* The copy is asynchronous when contiguous() returned the caller's own pinned
\* tensors.  From pageable memory CUDA waits for the stream before it starts one,
\* and returns once the rows are staged, before they are in the pool.
LoadStarts == PinnedInputs \/ work[TheWorker] = <<>>

Load(k, p) ==
  /\ LoadStarts
  /\ slotOf' = [slotOf EXCEPT ![k] = p]
  /\ work' = [work EXCEPT ![TheWorker] = Append(@, [op |-> "load", chunk |-> k, at |-> p])]
  /\ UNCHANGED <<merges, content, foreign, merged>>

Hit ==
  /\ pc = "acquire" /\ todo # <<>>
  /\ Head(todo) \in Range(resident)
  /\ Pin(Head(todo), slotOf[Head(todo)])
  /\ UNCHANGED <<host, resident, slotOf, free, lastUse, device>>

TakeFree ==
  /\ pc = "acquire" /\ todo # <<>>
  /\ Head(todo) \notin Range(resident)
  /\ free # <<>>
  /\ free' = Front(free)
  /\ resident' = Append(resident, Head(todo))
  /\ Load(Head(todo), Last(free))
  /\ Pin(Head(todo), Last(free))
  /\ UNCHANGED <<host, lastUse>>

\* The places of the chunks nobody holds.
Unreferenced == {i \in DOMAIN resident : refs[resident[i]] = 0}

\* slip: evict as soon as the count is zero
EventIgnored(k) == TRUE

EventDone(k) == lastUse[k] # None => ~ Queued(lastUse[k])

\* slip: forget to take the victim off the residency list
StillListed(i) == resident

Others(i) == RemoveAt(resident, i)

\* _evict_one: the oldest chunk nobody holds, once the device is done with it.
Evict ==
  /\ pc = "acquire" /\ todo # <<>>
  /\ Head(todo) \notin Range(resident)
  /\ free = <<>> /\ Unreferenced # {}
  /\ LET k      == Head(todo)
         oldest == Min(Unreferenced)
         victim == resident[oldest]
         p      == slotOf[victim]
     IN  /\ EventDone(victim)
         /\ LoadStarts
         /\ lastUse' = [lastUse EXCEPT ![victim] = None]
         /\ resident' = Append(Others(oldest), k)
         /\ slotOf' = [slotOf EXCEPT ![victim] = None, ![k] = p]
         /\ work' = [work EXCEPT ![TheWorker] = Append(@, [op |-> "load", chunk |-> k, at |-> p])]
         /\ Pin(k, p)
  /\ UNCHANGED <<host, free, merges, content, foreign, merged>>

\* Not an out-of-memory failure to is_oom: it is raised to the caller.
Exhausted ==
  /\ pc = "acquire" /\ todo # <<>>
  /\ Head(todo) \notin Range(resident)
  /\ free = <<>> /\ Unreferenced = {}
  /\ outcome' = "exhausted"
  /\ pc' = "end"
  /\ UNCHANGED <<pending, cur, turn, streams, slotDone, pool, device>>

Acquired ==
  /\ pc = "acquire" /\ todo = <<>>
  /\ pc' = "kernel"
  /\ UNCHANGED <<pending, cur, turn, streams, slotDone, outcome, pool, device>>

\* block_base, and the kernel that reads through it.
EnqueueKernel ==
  /\ pc = "kernel"
  /\ work' = [work EXCEPT ![TheWorker] =
                Append(@, [op |-> "kernel", path |-> cur, where |-> assigned])]
  /\ pc' = "merge"
  /\ UNCHANGED <<pending, cur, turn, streams, slotDone, outcome, pool, merges, content,
                 foreign, merged>>

\* release: the references drop now, the event guards the slots from here on.
EnqueueMerge ==
  /\ pc = "merge"
  /\ merges' = Append(merges, cur)
  /\ refs' = [k \in Chunk |-> IF k \in Range(ChunksOf(cur)) /\ refs[k] > 0
                                THEN refs[k] - 1 ELSE refs[k]]
  /\ lastUse' = [k \in Chunk |-> IF k \in Range(ChunksOf(cur)) THEN cur ELSE lastUse[k]]
  /\ slotDone' = [slotDone EXCEPT ![TheWorker] = cur]
  /\ turn' = turn + 1
  /\ cur' = None
  /\ pc' = "pop"
  /\ UNCHANGED <<pending, streams, outcome, todo, assigned, resident, slotOf, free,
                 work, content, foreign, merged>>

-----------------------------------------------------------------------------
(* The except clause.  It does not release what cur has acquired. *)

\* Allocations: the token ids, block_base's map and the kernel's output, the merge.
RunOut ==
  /\ MayRunOut
  /\ pc \in {"upload", "kernel", "merge"}
  /\ pc' = "oom"
  /\ UNCHANGED <<pending, cur, turn, streams, slotDone, outcome, pool, device>>

Requeue(tasks) ==
  /\ pending' = tasks \o pending
  /\ slotDone' = [s \in Worker |-> None]
  /\ cur' = None
  /\ pc' = "pop"

Halve ==
  /\ pc = "oom" /\ Synchronized
  /\ streams > 1
  /\ streams' = streams \div 2
  /\ Requeue(<<cur>>)
  /\ UNCHANGED <<turn, outcome, pool, device>>

Refinable == AllowEscalation /\ Len(cur) < MaxDepth(N)

Split ==
  /\ pc = "oom" /\ Synchronized
  /\ streams = 1 /\ Refinable
  /\ LET kids == Children(Task(cur), TRUE, 1)
     IN  Requeue([i \in DOMAIN kids |-> kids[i].path])
  /\ UNCHANGED <<turn, streams, outcome, pool, device>>

GiveUp ==
  /\ pc = "oom" /\ Synchronized
  /\ streams = 1 /\ ~ Refinable
  /\ outcome' = "capped"
  /\ pc' = "end"
  /\ UNCHANGED <<pending, cur, turn, streams, slotDone, pool, device>>

Return ==
  /\ pc = "pop" /\ pending = <<>>
  /\ Synchronized
  /\ outcome' = "returned"
  /\ pc' = "end"
  /\ UNCHANGED <<pending, cur, turn, streams, slotDone, pool, device>>

-----------------------------------------------------------------------------
(* The device. *)

RunLoad(s) ==
  /\ work[s] # <<>> /\ Head(work[s]).op = "load"
  /\ content' = [content EXCEPT ![Head(work[s]).at] = Head(work[s]).chunk]
  /\ work' = [work EXCEPT ![s] = Tail(@)]
  /\ UNCHANGED <<host, pool, merges, foreign, merged>>

RunKernel(s) ==
  /\ work[s] # <<>> /\ Head(work[s]).op = "kernel"
  /\ LET k == Head(work[s])
     IN  foreign' = IF RowsRead(k.path, k.where) = Task(k.path).ids
                      THEN foreign \ {k.path} ELSE foreign \cup {k.path}
  /\ work' = [work EXCEPT ![s] = Tail(@)]
  /\ UNCHANGED <<host, pool, merges, content, merged>>

RunMerge ==
  /\ merges # <<>>
  /\ \A s \in Worker : \A i \in DOMAIN work[s] :
       work[s][i].op = "kernel" => work[s][i].path # Head(merges)
  /\ merged' = merged \cup {Head(merges)}
  /\ merges' = Tail(merges)
  /\ UNCHANGED <<host, pool, work, content, foreign>>

Finished == pc = "end" /\ UNCHANGED vars

Next ==
  \/ PopTask \/ Upload \/ Hit \/ TakeFree \/ Evict \/ Exhausted \/ Acquired
  \/ EnqueueKernel \/ EnqueueMerge
  \/ RunOut \/ Halve \/ Split \/ GiveUp \/ Return
  \/ \E s \in Worker : RunLoad(s) \/ RunKernel(s)
  \/ RunMerge
  \/ Finished

Spec == Init /\ [][Next]_vars

-----------------------------------------------------------------------------

\* The pool's books: every slot is on the free stack or belongs to exactly one
\* resident chunk.
PoolOK ==
  /\ IsInjective(resident) /\ IsInjective(free)
  /\ Range(resident) \subseteq Chunk /\ Range(free) \subseteq PoolSlot
  /\ \A k \in Chunk : slotOf[k] # None <=> k \in Range(resident)
  /\ \A k \in Range(resident) : slotOf[k] \in PoolSlot \ Range(free)
  /\ \A j, k \in Range(resident) : slotOf[j] = slotOf[k] => j = k

\* A kernel that is about to read finds the rows of its own tokens, through every
\* hit, eviction and recovery: eviction waits for the event (the comment on
\* last_event), so no load overtakes a kernel that still has to read the slot. The
\* two exceptions: the subproblem was refined, or a chunk it found resident is
\* still being loaded on another stream, which no event makes it wait for.
ServedOwnRows ==
  \A s \in Worker :
    work[s] # <<>> /\ Head(work[s]).op = "kernel" =>
      LET k == Head(work[s])
          OnItsWay(load) ==
            load.op = "load" /\ \E x \in DOMAIN k.where :
              load.at = k.where[x] /\ load.chunk = ChunksOf(k.path)[x]
      IN  \/ RowsRead(k.path, k.where) = Task(k.path).ids
          \/ Len(k.path) > 1
          \/ \E r \in Worker \ {s} : \E i \in DOMAIN work[r] : OnItsWay(work[r][i])

Refined ==
  \/ \E i \in DOMAIN pending : Len(pending[i]) > 1
  \/ \E path \in merged \cup (IF cur = None THEN {} ELSE {cur}) : Len(path) > 1

\* Five slots are enough for two streams: recovery that only lowers the
\* concurrency never leaves so many chunks referenced that a call fails for
\* want of a slot, although a failed attempt never releases what it acquired.
ExhaustedOnlyRefined == outcome = "exhausted" => Refined

\* "Sharing must not change the answer" (test_stable_stream.py:555): the rows
\* the block map leads a kernel to are those of its tokens.  They are not when
\* the subproblem is not a union of whole top-level chunks, which the check on
\* itr in stream_cqsa_forward rules out at the start and refinement brings back,
\* and when a chunk found resident is still on its way on another stream.
OwnRows == foreign \cap merged = {}

=============================================================================
