-------------------------- MODULE ForwardScheduler --------------------------
(***************************************************************************)
(* The scheduling loop of stream_cqsa_forward (stable_stream.py): one host *)
(* thread runs the subproblems of an attention call, every one on the CUDA *)
(* stream of a slot, merges each result on ONE further stream, and answers *)
(* an out-of-memory failure by lowering the concurrency or by replacing    *)
(* the subproblem that did not fit by its children.                        *)
(*                                                                         *)
(* The host only enqueues; the streams execute behind its back, each in    *)
(* its own order.  A merge reads the accumulator and writes it back later, *)
(* so two merges that overlap lose an update.  What a stream reads when it *)
(* executes (a staging buffer, a block of token ids) is what is there at   *)
(* that moment, not what was there when the host enqueued the work.        *)
(***************************************************************************)
EXTENDS Integers, SequencesExt

CONSTANTS
  Task,             \* the subproblems refinement can reach
  NoTask,           \* no subproblem
  Pairs,            \* the (query, key) pairs of the call
  Keep,             \* Keep[t]: the pairs subproblem t retains
  Kin,              \* the <<t, u>> of which one was refined out of the other
  ChildrenOf,       \* ChildrenOf[t]: what refine_task makes of t
  Depth,            \* Depth[t]: task.itr
  Itr,              \* the depth the call starts at
  Roots,            \* the task list of build_tasks at that depth
  DepthCap,         \* max_depth_for(N, c)
  NPar,             \* n_par, the number of streams the call starts with
  BaseRetries,      \* the 64 and the 16 of oom_retry_budget
  RetriesPerTask,
  Tight,            \* the <<t, n>> for which memory may run out when subproblem
                    \* t is run with n streams
  HostResident,     \* stream_from_host: q, k, v stay on the host
  AccOnGpu,         \* where the accumulator lives
  AllowEscalation,  \* allow_escalation
  Faults            \* whether there are failures the recovery has no answer to

Covers(tasks, whole) == \A p \in whole : \E i \in DOMAIN tasks : p \in Keep[tasks[i]]

Unrelated(tasks) ==
  \A i, j \in DOMAIN tasks : i # j => <<tasks[i], tasks[j]>> \notin Kin

\* What the decomposition guarantees the scheduler (module RefinementTree).
ASSUME Decomposition ==
  /\ NoTask \notin Task
  /\ Keep \in [Task -> SUBSET Pairs]
  /\ Depth \in [Task -> Nat]
  /\ Roots \in Seq(Task) /\ Covers(Roots, Pairs) /\ Unrelated(Roots)
  /\ \A i \in DOMAIN Roots : Depth[Roots[i]] = Itr
  /\ ChildrenOf \in [Task -> Seq(Task)]
  /\ \A t \in Task : Depth[t] < DepthCap =>
       /\ Covers(ChildrenOf[t], Keep[t]) /\ Unrelated(ChildrenOf[t])
       /\ \A i \in DOMAIN ChildrenOf[t] : Depth[ChildrenOf[t][i]] = Depth[t] + 1

\* Kinship: subproblems neither of which descends from the other share no pair,
\* and who is no kin of a subproblem is no kin of its children.
ASSUME Lineage ==
  /\ \A t, u \in Task :
       /\ <<t, t>> \in Kin
       /\ <<t, u>> \in Kin => <<u, t>> \in Kin
       /\ <<t, u>> \notin Kin => Keep[t] \cap Keep[u] = {}
  /\ \A t, u \in Task : Depth[t] < DepthCap /\ <<t, u>> \notin Kin =>
       \A i \in DOMAIN ChildrenOf[t] : <<ChildrenOf[t][i], u>> \notin Kin

ASSUME Parameters ==
  /\ Itr \in Nat /\ DepthCap \in Nat
  /\ NPar \in Nat \ {0}
  /\ BaseRetries \in Nat /\ RetriesPerTask \in Nat
  /\ Tight \subseteq Task \X (1 .. NPar)
  /\ {HostResident, AccOnGpu, AllowEscalation, Faults} \subseteq BOOLEAN

Slot        == 0 .. NPar - 1
MergeStream == NPar
Stream      == Slot \cup {MergeStream}

VARIABLES
  pc,        \* where the host is
  pending,   \* the list of subproblems still to run
  cur,       \* the subproblem being run
  slot,      \* number of subproblems run, the next slot modulo streams
  streams,   \* len(streams)
  slotDone,  \* slotDone[s]: the subproblem whose done event guards slot s
  retries,   \* info["oom_retries"]
  deepest,   \* info["itr_max_reached"]
  capped,    \* info["depth_capped"]
  outcome,   \* how the call ended
  dirty      \* accum.dirty

VARIABLES
  work,      \* work[s]: the operations enqueued on worker stream s
  staging,   \* staging[s]: the subproblem gathered into pinned buffer s
  input,     \* input[s]: the subproblem whose q, k, v lie on the device for s
  ids,       \* ids[s]: the subproblem whose token ids occupy the block of s
  output,    \* output[t]: the subproblem whose input t's kernel computed on
  merges,    \* merges[m]: the merges enqueued on stream m
  snapshot,  \* snapshot[m]: what the merge executing on m read, <<>> if none
  acc,       \* acc[t]: how often t's contribution is in the accumulator
  garbled    \* subproblems merged from a foreign output or into foreign rows

host   == <<pc, pending, cur, slot, streams, slotDone, retries, deepest, capped,
            outcome, dirty>>
device == <<work, staging, input, ids, output, merges, snapshot, acc, garbled>>
vars   == <<host, device>>


Init ==
  /\ pc = "setup"
  /\ pending = Roots
  /\ cur = NoTask
  /\ slot = 0
  /\ streams = NPar
  /\ slotDone = [s \in Slot |-> NoTask]
  /\ retries = 0
  /\ deepest = Itr
  /\ capped = FALSE
  /\ outcome = "running"
  /\ dirty = FALSE
  /\ work = [s \in Slot |-> <<>>]
  /\ staging = [s \in Slot |-> NoTask]
  /\ input = [s \in Slot |-> NoTask]
  /\ ids = [s \in Slot |-> NoTask]
  /\ output = [t \in Task |-> NoTask]
  /\ merges = [m \in Stream |-> <<>>]
  /\ snapshot = [m \in Stream |-> <<>>]
  /\ acc = [t \in Task |-> 0]
  /\ garbled = {}

-----------------------------------------------------------------------------
(* What the host consults. *)

TheSlot == slot % streams

(* Next to some definitions stands what a slip in the code would make of    *)
(* them; the properties below tell the two apart.                           *)

\* slip: merge on the stream that computed
MergeOnWorker(s) == s

\* All merges go to one dedicated stream, whatever slot they come from.
MergeStreamOf(s) == MergeStream

Queued(t) ==
  \/ \E s \in Slot : \E i \in DOMAIN work[s] : work[s][i].task = t
  \/ \E m \in Stream : \E i \in DOMAIN merges[m] : merges[m][i].task = t

\* slip: reuse the slot once its kernel, not its merge, has run
SlotFreeAfterKernel(s) ==
  slotDone[s] # NoTask => \A i \in DOMAIN work[s] : work[s][i].task # slotDone[s]

\* slip: never wait for the slot
SlotAlwaysFree(s) == TRUE

\* slip: wait for an event that only recovery resets
SlotNeverFreed(s) == slotDone[s] = NoTask

\* The done event of a slot is recorded after the merge of its last subproblem.
SlotFree(s) == slotDone[s] = NoTask \/ ~ Queued(slotDone[s])

\* torch.cuda.synchronize
Synchronized ==
  /\ \A s \in Slot : work[s] = <<>>
  /\ \A m \in Stream : merges[m] = <<>>

MayRunOut == <<cur, streams>> \in Tight

Enqueue(s, op) == work' = [work EXCEPT ![s] = Append(@, [op |-> op, task |-> cur])]

-----------------------------------------------------------------------------
(* run_one, and the loop around it. *)

\* Accumulator, streams and pinned buffers are allocated before the loop, where
\* no handler catches a failure.
Setup ==
  /\ pc = "setup"
  /\ \/ pc' = "pop" /\ UNCHANGED outcome
     \/ Faults /\ pc' = "end" /\ outcome' = "setup"
  /\ UNCHANGED <<device, pending, cur, slot, streams, slotDone, retries, deepest,
                 capped, dirty>>

PopTask ==
  /\ pc = "pop" /\ pending # <<>>
  /\ cur' = Head(pending)
  /\ pending' = Tail(pending)
  /\ pc' = "wait"
  /\ UNCHANGED <<device, slot, streams, slotDone, retries, deepest, capped,
                 outcome, dirty>>

\* slot_done[slot].synchronize(), then the gather into the pinned buffers.
WaitAndGather ==
  /\ pc = "wait"
  /\ SlotFree(TheSlot)
  /\ staging' = IF HostResident THEN [staging EXCEPT ![TheSlot] = cur] ELSE staging
  /\ pc' = "copy"
  /\ UNCHANGED <<pending, cur, slot, streams, slotDone, retries, deepest, capped,
                 outcome, dirty, work, input, ids, output, merges, snapshot, acc,
                 garbled>>

EnqueueCopy ==
  /\ pc = "copy"
  /\ Enqueue(TheSlot, "copy")
  /\ pc' = "kernel"
  /\ UNCHANGED <<pending, cur, slot, streams, slotDone, retries, deepest, capped,
                 outcome, dirty, staging, input, ids, output, merges, snapshot, acc,
                 garbled>>

EnqueueKernel ==
  /\ pc = "kernel"
  /\ Enqueue(TheSlot, "kernel")
  /\ output' = [output EXCEPT ![cur] = NoTask]
  /\ pc' = "merge"
  /\ UNCHANGED <<pending, cur, slot, streams, slotDone, retries, deepest, capped,
                 outcome, dirty, staging, input, ids, merges, snapshot, acc, garbled>>

\* The subproblem is done as far as the host is concerned.
TaskDone ==
  /\ slotDone' = [slotDone EXCEPT ![TheSlot] = cur]
  /\ slot' = slot + 1
  /\ cur' = NoTask
  /\ pc' = "pop"
  /\ UNCHANGED <<pending, streams, retries, deepest, capped, outcome, dirty>>

\* merge_lse on a device accumulator: enqueued behind the compute_done event.
EnqueueMerge ==
  /\ pc = "merge" /\ AccOnGpu
  /\ merges' = [merges EXCEPT ![MergeStreamOf(TheSlot)] =
                  Append(@, [task |-> cur, slot |-> TheSlot])]
  /\ TaskDone
  /\ UNCHANGED <<work, staging, input, ids, output, snapshot, acc, garbled>>

\* merge_lse on a host accumulator: the blocking copy of the result waits for the
\* kernel, and the host itself merges it into the rows of task.token_ids.
MergeOnHost ==
  /\ pc = "merge" /\ ~ AccOnGpu
  /\ output[cur] # NoTask
  /\ acc' = [acc EXCEPT ![output[cur]] = @ + 1]
  /\ garbled' = IF output[cur] = cur THEN garbled ELSE garbled \cup {cur}
  /\ TaskDone
  /\ UNCHANGED <<work, staging, input, ids, output, merges, snapshot>>

\* An allocation fails: nothing of the step that needed it is enqueued.
RunOut ==
  /\ pc \in {"copy", "kernel", "merge"}
  /\ pc = "merge" => AccOnGpu
  /\ MayRunOut
  /\ pc' = "oom"
  /\ UNCHANGED <<device, pending, cur, slot, streams, slotDone, retries, deepest,
                 capped, outcome, dirty>>

\* A write of the commit of _merge fails after acc was written.
TearMerge ==
  /\ Faults
  /\ pc = "merge" /\ AccOnGpu
  /\ MayRunOut
  /\ dirty' = TRUE
  /\ acc' = [acc EXCEPT ![cur] = @ + 1]
  /\ pc' = "oom"
  /\ UNCHANGED <<pending, cur, slot, streams, slotDone, retries, deepest, capped,
                 outcome, work, staging, input, ids, output, merges, snapshot,
                 garbled>>

\* A RuntimeError that is_oom does not recognise is raised to the caller.
Fault ==
  /\ Faults
  /\ pc \in {"copy", "kernel", "merge"}
  /\ outcome' = "error"
  /\ pc' = "end"
  /\ UNCHANGED <<device, pending, cur, slot, streams, slotDone, retries, deepest,
                 capped, dirty>>

-----------------------------------------------------------------------------
(* The except clause. *)

MergeTorn == dirty

\* slip: give up one stream at a time
OneFewer(n) == n - 1

Halved(n) == n \div 2

\* slip: refine first, lower the concurrency when that is not possible
LowerableAtBound == streams > 1 /\ ~ (AllowEscalation /\ Depth[cur] < DepthCap)

\* slip: lower the concurrency down to no stream
LowerableToNone == streams > 0

\* Lowering the concurrency comes first: it costs no arithmetic.
Lowerable == streams > 1

AtLeastOne(n) == IF n > 1 THEN n ELSE 1

RetryBudget ==
  BaseRetries + RetriesPerTask * AtLeastOne(Len(Roots)) * AtLeastOne(DepthCap)

\* What follows the requeueing of work: the loop goes on unless the retries
\* exceed the budget, when the failure is raised as it came.
Resume ==
  /\ retries' = retries + 1
  /\ IF retries' > RetryBudget
       THEN pc' = "end" /\ outcome' = "budget"
       ELSE pc' = "pop" /\ outcome' = outcome
  /\ cur' = NoTask
  /\ slotDone' = [s \in Slot |-> NoTask]

\* A half-applied merge cannot be retried.
RefuseDirty ==
  /\ pc = "oom" /\ MergeTorn
  /\ outcome' = "torn"
  /\ pc' = "end"
  /\ UNCHANGED <<device, pending, cur, slot, streams, slotDone, retries, deepest,
                 capped, dirty>>

\* The first response: half the streams, the same subproblem again.
Halve ==
  /\ pc = "oom" /\ ~ MergeTorn
  /\ Synchronized
  /\ Lowerable
  /\ streams' = Halved(streams)
  /\ pending' = <<cur>> \o pending
  /\ Resume
  /\ UNCHANGED <<device, slot, deepest, capped, dirty>>

\* slip: stop a level early
RefinableEarly(t) == AllowEscalation /\ Depth[t] + 1 < DepthCap

\* With one stream left the subproblem itself does not fit.
Refinable(t) == AllowEscalation /\ Depth[t] < DepthCap

GiveUp ==
  /\ pc = "oom" /\ ~ MergeTorn
  /\ Synchronized
  /\ ~ Lowerable /\ ~ Refinable(cur)
  /\ retries' = retries + 1
  /\ capped' = TRUE
  /\ outcome' = "capped"
  /\ pc' = "end"
  /\ UNCHANGED <<device, pending, cur, slot, streams, slotDone, deepest, dirty>>

\* slip: requeue the subproblem beside its children
BesideItsChildren(t) == <<t>> \o ChildrenOf[t]

\* refine_task: its children take the subproblem's place at the front.
Replacement(t) == ChildrenOf[t]

DeepestAfter(t) ==
  IF ChildrenOf[t] # <<>> /\ Depth[t] + 1 > deepest THEN Depth[t] + 1 ELSE deepest

Split ==
  /\ pc = "oom" /\ ~ MergeTorn
  /\ Synchronized
  /\ ~ Lowerable /\ Refinable(cur)
  /\ pending' = Replacement(cur) \o pending
  /\ deepest' = DeepestAfter(cur)
  /\ Resume
  /\ UNCHANGED <<device, slot, streams, capped, dirty>>

\* After the loop: synchronize, then return accum.output(), which no handler guards:
\* the normalisation or the copy to the device may fail.
Return ==
  /\ pc = "pop" /\ pending = <<>>
  /\ Synchronized
  /\ \/ outcome' = "returned"
     \/ Faults /\ outcome' = "undelivered"
  /\ pc' = "end"
  /\ UNCHANGED <<device, pending, cur, slot, streams, slotDone, retries, deepest,
                 capped, dirty>>

-----------------------------------------------------------------------------
(* The streams. *)

HeadOf(s, op) == work[s] # <<>> /\ Head(work[s]).op = op

\* Upload of the token ids, and of the staged q, k, v or their device gather.
Copy(s) ==
  /\ HeadOf(s, "copy")
  /\ LET t == Head(work[s]).task IN
       /\ ids' = [ids EXCEPT ![s] = t]
       /\ input' = [input EXCEPT ![s] = IF HostResident THEN staging[s] ELSE t]
  /\ work' = [work EXCEPT ![s] = Tail(@)]
  /\ UNCHANGED <<host, staging, output, merges, snapshot, acc, garbled>>

Kernel(s) ==
  /\ HeadOf(s, "kernel")
  /\ output' = [output EXCEPT ![Head(work[s]).task] = input[s]]
  /\ work' = [work EXCEPT ![s] = Tail(@)]
  /\ UNCHANGED <<host, staging, input, ids, merges, snapshot, acc, garbled>>

\* The index_selects of _merge, once compute_done has fired ...
MergeRead(m) ==
  /\ merges[m] # <<>> /\ snapshot[m] = <<>>
  /\ output[Head(merges[m]).task] # NoTask
  /\ snapshot' = [snapshot EXCEPT ![m] = <<acc>>]
  /\ UNCHANGED <<host, work, staging, input, ids, output, merges, acc, garbled>>

\* ... and the index_copy_s.
MergeWrite(m) ==
  /\ snapshot[m] # <<>>
  /\ LET e == Head(merges[m]) IN
       /\ acc' = [snapshot[m][1] EXCEPT ![output[e.task]] = @ + 1]
       /\ garbled' = IF output[e.task] = e.task /\ ids[e.slot] = e.task
                       THEN garbled ELSE garbled \cup {e.task}
  /\ merges' = [merges EXCEPT ![m] = Tail(@)]
  /\ snapshot' = [snapshot EXCEPT ![m] = <<>>]
  /\ UNCHANGED <<host, work, staging, input, ids, output>>

-----------------------------------------------------------------------------

HostNext ==
  \/ Setup \/ PopTask \/ WaitAndGather \/ EnqueueCopy \/ EnqueueKernel
  \/ EnqueueMerge \/ MergeOnHost \/ RunOut \/ TearMerge \/ Fault
  \/ RefuseDirty \/ Halve \/ GiveUp \/ Split \/ Return

WorkerNext(s) == Copy(s) \/ Kernel(s)
MergeNext(m)  == MergeRead(m) \/ MergeWrite(m)

Finished == pc = "end" /\ UNCHANGED vars

Next ==
  \/ HostNext
  \/ \E s \in Slot : WorkerNext(s)
  \/ \E m \in Stream : MergeNext(m)
  \/ Finished

\* The host thread runs until the call ends; a stream executes what it holds.
Fairness ==
  /\ WF_vars(HostNext)
  /\ \A s \in Slot : WF_vars(WorkerNext(s))
  /\ \A m \in Stream : WF_vars(MergeNext(m))

Spec     == Init /\ [][Next]_vars
FairSpec == Spec /\ Fairness

-----------------------------------------------------------------------------
(* Properties. *)

HostTypeOK ==
  /\ pc \in {"setup", "pop", "wait", "copy", "kernel", "merge", "oom", "end"}
  /\ pending \in Seq(Task)
  /\ cur \in Task \cup {NoTask}
  /\ pc \in {"wait", "copy", "kernel", "merge", "oom"} => cur \in Task
  /\ slot \in Nat
  /\ streams \in 1 .. NPar
  /\ slotDone \in [Slot -> Task \cup {NoTask}]
  /\ retries \in Nat
  /\ deepest \in Nat
  /\ capped \in BOOLEAN
  /\ outcome \in {"running", "returned", "setup", "capped", "budget", "torn", "error",
                  "undelivered"}
  /\ dirty \in BOOLEAN

DeviceTypeOK ==
  /\ work \in [Slot -> Seq([op : {"copy", "kernel"}, task : Task])]
  /\ staging \in [Slot -> Task \cup {NoTask}]
  /\ input \in [Slot -> Task \cup {NoTask}]
  /\ ids \in [Slot -> Task \cup {NoTask}]
  /\ output \in [Task -> Task \cup {NoTask}]
  /\ merges \in [Stream -> Seq([task : Task, slot : Slot])]
  /\ snapshot \in [Stream -> Seq([Task -> Nat])]
  /\ acc \in [Task -> Nat]
  /\ garbled \subseteq Task

TypeOK == HostTypeOK /\ DeviceTypeOK

\* The contributions to pair p in the accumulator.
Contributors(p) == {t \in Task : acc[t] > 0 /\ p \in Keep[t]}

\* stream_cqsa_forward: whatever failed on the way, a call that returns has
\* merged every pair exactly once, from the output of the subproblem that
\* keeps it into that subproblem's rows.
ReturnedExact ==
  outcome = "returned" =>
    /\ garbled = {}
    /\ \A p \in Pairs : \E t \in Task : Contributors(p) = {t} /\ acc[t] = 1

\* The places at which pair p is still to be computed, is being computed,
\* waits to be merged, or is merged.
OnList(p)      == {<<"pending", i>> : i \in {k \in DOMAIN pending : p \in Keep[pending[k]]}}
InRun(p)       == {<<"cur", t>> : t \in {u \in Task : u = cur /\ p \in Keep[u]}}
OnStream(p, m) == {<<"merges", m, i>> :
                     i \in {k \in DOMAIN merges[m] : p \in Keep[merges[m][k].task]}}
Merged(p)      == {<<"acc", t>> : t \in Contributors(p)}

Places(p) == OnList(p) \cup InRun(p) \cup Merged(p) \cup UNION {OnStream(p, m) : m \in Stream}

\* The loop of stream_cqsa_forward, at every moment up to its end: no pair is
\* lost and none is held twice, across pops, retries, requeues and refinements.
Conservation ==
  ~ dirty /\ pc # "end" => \A p \in Pairs : \E q \in Places(p) : Places(p) = {q}

\* run_one: no merge uses an output computed from another subproblem's input
\* (a staging buffer overwritten too early) or scatters it to the rows of
\* another subproblem (a block of token ids reused too early).
NoGarbledMerge == garbled = {}

InFlight ==
  {t \in Task : Queued(t)} \cup (IF pc \in {"copy", "kernel", "merge"} THEN {cur} ELSE {})

\* The backpressure of slot_done: never more working sets on the device than
\* streams, also right after the streams were halved.
BoundedInFlight == Cardinality(InFlight) <= streams

\* The order of the two responses: as long as concurrency can be lowered no
\* subproblem is refined, so a deeper one exists only once a single stream runs.
ConcurrencyFirst ==
  streams > 1 =>
    /\ \A i \in DOMAIN pending : Depth[pending[i]] = Itr
    /\ \A t \in Task : acc[t] > 0 => Depth[t] = Itr

\* Every call ends: recovery can neither loop nor wait for ever.
Terminates == <>(pc = "end")

\* A call that memory can hold at some admissible depth on one stream recovers
\* from every failure above it and returns, with every pair merged once.
Recovers == <>(outcome = "returned" /\ ReturnedExact)

-----------------------------------------------------------------------------
(* The loop as RecoveryLoop promises it. *)

ToComplete == IF cur = NoTask THEN pending ELSE <<cur>> \o pending

DepthsOf(tasks) == [i \in DOMAIN tasks |-> Depth[tasks[i]]]

Loop == INSTANCE RecoveryLoop WITH
  Calls    <- {[itr |-> Itr, initial |-> Len(Roots)]},
  call     <- [itr |-> Itr, initial |-> Len(Roots)],
  Arities  <- {Len(ChildrenOf[t]) : t \in Task},
  MayFail  <- {<<Depth[p[1]], p[2]>> : p \in Tight},
  MustFail <- {},
  depths   <- DepthsOf(ToComplete)

\* Every step of the call is a step of the abstract loop or leaves it alone: a
\* subproblem leaves the list only when its merge is issued, and a failure does
\* nothing but lower the concurrency or deepen the subproblem at the front.
ImplementsLoop == Loop!Spec

=============================================================================
