# A verification project for Stream-CQSA

Stream-CQSA recovers an attention call that does not fit on the device: it decomposes the call by
a cyclic quorum set, runs the subproblems on CUDA streams, merges their softmax statistics, and
when memory runs out lowers the concurrency or replaces a subproblem by smaller ones. What it
promises is that none of this can be seen in the result. The modules in this directory model the
parts of the program on which that promise rests; TLC checks them on small instances and TLAPS
proves the central results for every value of the parameters.

Paths below are relative to the repository.

## 1. The system

| Component | State it keeps | Operations | Talks to |
|---|---|---|---|
| Quorum decomposition (`stream_cqsa/reference.py`; `refine_task`, `build_tasks`, `max_depth_for` in `stable_stream.py`; again in C++ in `csrc/flash_attn/flash_api.cpp`) | none: a subproblem is its path, token ids and group bits | cut a sequence into chunks, gather a quorum, assign group bits, refine | everything below works on its task lists |
| Tile masking (`cqs_block_summaries` in `interface.py`, `csrc/flash_attn/src/mask.h`) | OR and AND of the group bits of each block | skip a tile, take it whole, or test it pair by pair | the kernels of both directions |
| Inner kernels (`flash_fwd_kernel.h`, `flash_bwd_kernel.h`, `softmax.h`) | shared memory, carried pointers, running statistics of a row | load, wait, multiply, rescale, skip a tile, combine splits | launched by everything that computes |
| Forward scheduler (`stream_cqsa_forward`) | task list, number of streams, done events of the slots, accumulator, `dirty`, retry counters | run a subproblem, merge, halve, refine, give up | CUDA streams (asynchronous), accumulator, chunk pool |
| Statistics merge (`StableAccumulator`) | `acc`, `l`, `m`, `dirty` | merge, output, lse | called by the forward |
| Device chunk pool (`DeviceChunkPool`) | slots, residency, reference counts, last events | acquire, evict, release | forward scheduler; copies on worker streams |
| Streamed backward (`_stream_cqsa_backward_host`, retry loop of `stream_cqsa_backward`) | slots, pinned buffers, gradients in flight, gradient accumulators | gather, issue, flush, scatter, retry deeper | streams, one scatter thread |
| Device backward (`stream_cqsa_backward`) | task list, three gradient accumulators, torn-update flag | run, add, refine | one stream |
| Autograd bridges (`native_autograd.py`, `autograd_op.py`) | what the forward saved | forward, backward, retry | forward, both backwards |
| Escalation ladder (`oom_fallback.py`) | attempts | ordinary path, then deeper calls, then delivery | forward |
| Fused forward (`mha_fwd_cqsa_impl` in `flash_api.cpp`) | staged results, events, sums | fork over side streams, join, accumulate, divide | side streams, caching allocator |
| Legacy streamed backward (`streamed_backward_phase`) | preparation queue, slots, pending merges, path target | prepare, launch, collect, merge, downscale | thread pool, streams |
| Planner (`plan_decomposition`, `choose_parallelism`, `memory_fitting.py`) | none | choose `itr` and `n_par` from free memory | forward, backward |
| Task cache (`build_tasks_cached`) | `_TASK_CACHE` of shared task objects | look up, reset | every entry point |
| Legacy forward runner (`cqs_attention_stream.py`), legacy mask engine (`cqs_mask.py`), wrappers, probe, offload, bindings, baselines | see `PROJECT.json` | | |

**What is hard here.** The host only enqueues: every stream executes behind its back, in its own
order, and reads whatever a buffer holds *then*. Merges are read-modify-writes of shared rows.
Memory may run out at any allocation, in the middle of a pipeline, and the recovery has to put
back exactly the work that was not done. Work is replaced by other work (children for a parent)
while part of the call is merged already, and ladders of recovery are stacked on each other. Slots,
pinned buffers, pool slots and allocator blocks are reused under the eyes of kernels that still
read them. Inside a kernel the same happens between warps and shared memory. Two schedulers poll.
Layouts have boundary cases (uneven and empty chunks, partial blocks and tiles), and rows without
any key meet `exp(-inf - -inf)`. `PROJECT.json` lists each of these hazards at its line.

**What makes each part correct.** The decomposition keeps every pair in exactly one subproblem, at
every depth and after every refinement, in both implementations. The kernels score exactly the
pairs the masks keep, each once, from operands that are there. The statistics of a row do not
depend on how its keys were divided, merged and retried. A forward call that returns has merged
every pair once, from its own inputs into its own rows; it always ends; and it succeeds whenever
some admissible depth fits. The chunk pool serves a kernel the rows of its own tokens. A backward
that returns has added every gradient once.

## 2. The modules

| Module | Models | Extends / composed in |
|---|---|---|
| `QuorumDecomposition` | chunk layout, quorum, path walk, group bits, refinement, depth cap, block map (operators only) | used by `RefinementTree`, `ChunkPool` |
| `RefinementTree` | walks every subproblem refinement can reach | `QuorumDecomposition` |
| `TileMask` | block summaries and tile decisions | `RefinementTree` |
| `FusedPaths` | the decomposition as the C++ operator computes it | `RefinementTree`; `MCRefinementTree` joins both |
| `TileBounds` | which tiles a kernel visits and masks (operators only) | used by `FlashKernels` |
| `KernelMachine` | one thread block: warps, barriers, asynchronous copies, shared memory | `FlashKernels` |
| `FlashKernels` | the code of the forward, split-KV and backward kernels for that machine | `KernelMachine`, `TileBounds` |
| `FlashKernelsInv` | the discipline with which that code uses shared memory, and the inductive invariant `RaceInv` | `FlashKernels`; `MCFlashKernels`, proofs |
| `LogFractions` | exact arithmetic with -inf, +inf and NaN (operators only) | used by `AttentionStatistics` |
| `AttentionStatistics` | a row of the attention from tiles to result, in three ways of merging | `LogFractions` |
| `RecoveryLoop` | the abstract loop: depths, streams, retries | refined by `ForwardScheduler`, used by `EscalationLadder` |
| `ForwardScheduler` | `stream_cqsa_forward` and its streams | |
| `ForwardSchedulerInv` | the inductive invariant | `ForwardScheduler`; `MCForwardScheduler`, proofs |
| `EscalationLadder` | `attention_oom_safe`, `stream_cqsa_auto` | `RecoveryLoop` |
| `ChunkPool` | `DeviceChunkPool` as the forward drives it | `QuorumDecomposition` |
| `HostBackward` | the streamed backward with its retry loop | `NativeBackward` |
| `DeviceBackward` | the backward on device tensors | instance of `NativeBackward` |
| `NativeBackward` | the backward call of the autograd operator, on either path | `HostBackward`, `DeviceBackward` |
| `CqsaForward` | the fused forward with side streams, events and allocator | |
| `LegacyBackward` | `streamed_backward_phase` | |
| `ChunkPoolInv`, `NativeBackwardInv`, `LegacyBackwardInv`, `CqsaForwardInv` | the inductive invariants | the module in their name |
| `QuorumDecomposition_proofs` | lemmas on sequences and on the operators: layout, gather, children, paths | used by `RefinementTree_proofs`, `ChunkPool_proofs` and, for the sequences, `FlashKernels_proofs` |
| `RefinementTree_proofs` | theorems on the decomposition, the tiles, and the recovery that refines it | `TileMask`, `FusedPaths`, `EscalationLadder` |
| `ForwardScheduler_proofs`, `ChunkPool_proofs`, `NativeBackward_proofs`, `LegacyBackward_proofs`, `CqsaForward_proofs`, `FlashKernels_proofs` | theorems | the module in their name, and its invariant |
| `MC*` | values of the constants for TLC | the configurations |

Definitions introduced by `\* slip:` are what a plausible mistake in the code would make of the
definition below them. Nothing refers to them; put in the place of that definition they must
break the property `PROJECT.json` names.

### Decomposition and masking

A subproblem is `[path, ids, groups]`. The `int64` bit set of each token is represented by the
groups it encodes (one set of tokens per bit), and a pair is masked when a group holds both
(`dense_keep_mask_for_path`). `Children` is `refine_task`, `Leaves` is `build_tasks`, `AtPath` is
`group_bits_for_path`. `RefinementTree` starts at the whole call and takes one child at a time,
so that each reachable subproblem is a state (`TreeInit`, `TreeNext`, `TreeSpec`). `TileMask` computes the summaries of
`cqs_block_summaries` on the subproblem at hand and takes the decisions of `cqs_tile_masked`,
`cqs_tile_clear` and `cqs_should_mask`.

`FusedPaths` is the second implementation, `build_path_state_and_group_bits`: it carries a label
per token and level along at every gather and turns labels into bits at the end.
`FusedPathsAgree` compares the two on every reachable subproblem, and goes one level deeper than
the scheduler may, where the operator's `num_itr` can.

### Kernels

A CTA's control depends on nothing it computes. `FlashKernels` therefore gives each warp a
sequence of instructions (copy, commit, wait, barrier, read, write, compute), built from the
source's two loops and their prologue and epilogue, and `KernelMachine` runs the warps in every
interleaving over shared memory, in which a copy is data only after its group was waited for and
two buffers may lie in one place. `Skipped` takes the verdict of `TileMask` with blocks of one
position. The backward carries the pointers of the source (`BackwardPointers`, `Advanced`), so
that a skipped tile that forgot one would be seen in the next iteration (`PointersFrom`).
`ValidLaunch` is what the launch templates and `flash_api.cpp` launch: of the two sides of a tile one
divides the other, windows are not negative, lengths not 0, a block of the grid, a split there is,
one of the layouts the kernel is compiled for. Where a buffer lies is `KernelPlaces`: with Q and K
in one place, V's place used again for dS and P, or Q without its second buffer.

### Statistics

Everything the code keeps as a logarithm is represented by its exponential, as an exact fraction
that may also be infinite or NaN: `-inf - -inf` is then `0 / 0`. V is taken to be the unit vectors,
so that the output of a row is the weight of every key in it. `mode` chooses what merges the rows
of several kernels: `StableAccumulator` (three writes, failing and recovered anywhere), the combine
kernel of split-KV, or the unshifted accumulation of the fused operator, where `Rounded` overflows.

### Forward scheduler, loop and ladder

One host thread (`pc`) and, for each slot, a worker stream; all merges go to one more stream.
`WaitAndGather`, `EnqueueCopy`, `EnqueueKernel`, `EnqueueMerge` (or `MergeOnHost`) are `run_one`;
`RunOut` is an out-of-memory failure at an allocation of any of them, `TearMerge` one in the
middle of a commit, `Fault` any other error. `Halve`, `Split`, `GiveUp`, `RefuseDirty` are the
`except` clause in its order. `Copy`, `Kernel`, `MergeRead`, `MergeWrite` are what the streams
execute. Data is reduced to whose it is: `staging`, `input`, `ids` and `output` name the
subproblem whose data a buffer holds, `acc` counts contributions. A merge reads `acc` and writes
it back in a later step. The decomposition is a parameter, of which the module assumes only what
`RefinementTree` checks (`Decomposition`, `Lineage`).

`RecoveryLoop` is the same loop seen through its counters; `ImplementsLoop` is the refinement.
The result, made when the list is empty, may still not be delivered (`"undelivered"`).
`EscalationLadder` puts either ladder around it, `SafeRungs` for `attention_oom_safe` and `AutoRungs`
for `stream_cqsa_auto`: every rung is a fresh run of the loop, or one call of the ordinary kernel
where the planner decides not to decompose (`Monolithic`), and what ends a rung is passed on only if
its message says "out of memory" (`OutOfMemory`). The ladders differ in the last transfer to the
caller's device: `stream_cqsa_auto` makes it inside its `try`, so that it may lead to the next rung,
`attention_oom_safe` behind its loop, where nothing catches it (`Deliver`).

### Chunk pool

`acquire` is taken chunk by chunk (`Hit`, `TakeFree`, `Evict`, `Exhausted`), because between two
chunks the device runs. A load is an operation on the worker stream; `content` is the chunk whose
rows lie in a slot; a kernel reads, when it executes, the rows the block map leads to, and they
are compared with the token ids of `QuorumDecomposition`. `PinnedInputs` distinguishes truly
asynchronous copies from those out of pageable memory, which wait for the stream first and return
when the rows are staged. The retry budget is left to `RecoveryLoop`; the merge is atomic here,
its races being `ForwardScheduler`'s subject.

### Backward

In `HostBackward` the issuing thread, the streams and the scatter worker are three kinds of
process. Whether the accumulators are on the device and whether there is a scatter worker are
chosen initially. The `torch.cuda.synchronize` after a failure precedes `Deepen`; what the failed
attempt has left on its worker adds to accumulators that nobody returns, so it is dropped with
them. `DeviceBackward` is the loop for device tensors: three additions, each of which may fail, and
a flag that forbids a retry once the first was made. `NativeBackward` is the call of
`native_autograd.py`: either path, started at the depth that was asked for.

### Fused forward

`CqsaForward` is one process for the host and one for each stream. A path's tensors are one block
of the caching allocator, which may hand a freed block out again on the stream it came from,
whatever other streams still have to do with it (`Obtainable`). `staged` keeps the blocks of a
call; `Throw` is an exception at any allocation, event, wait or launch, also after the accumulations
were enqueued and whether or not a profiled call has waited for them yet.

### Legacy streamed backward

Thread pool, main thread and streams. `SubmitMore` is `_submit_more_prepared`, which the code calls
after every change of its queues and which is therefore part of those actions. A poll that finds
nothing is a step that changes nothing but `pc`.

## 3. The runs

| Run | Question | Bounds |
|---|---|---|
| `tree` | is every pair kept once at every reachable subproblem, do the tiles agree with the mask, and C++ with Python? | c = 7, (0, 1, 3) as in production; N in {1, 6, 8, 17, 49, 51}; alignment 1 and 2; tiles of, below and across a block |
| `kernels` | does every read find its tile, does every pair count once, does every load stay inside? | two warps; tiles 2x2, 4x2, 2x4, 4x4; full, causal, local; whole and ragged lengths up to 8; 1 to 3 splits; every buffer layout; four group masks |
| `softmax` | is a row the softmax of its keys however it was cut, merged and retried? | 4 keys with scores masked, 1/4, 1, 2 (as exponentials); up to 3 splits; floats up to 2, denominators clamped to 1/2 |
| `softmax_full` *(violated)* | the same in a build that has split kernels | as `softmax` |
| `fwd_pinned` | the safety and termination of the scheduler, and that it implements the loop | 3 + 9 subproblems, 4 streams, host inputs, memory runs out anywhere, every failure |
| `fwd_host` | recovery to a result, with a host accumulator | 2 streams; only the deepest level fits, alone |
| `ladder` | does either ladder save what the retry budget ends? | production constants, N = 16807: cap 5; `attention_oom_safe` given `max_itr=3`, `stream_cqsa_auto` with `ESCALATION`, whose first rung may be planned at 0 to 3 |
| `chunk_pool` | books, own rows, exhaustion under recovery | c = 7, N = 49, 2 streams, 5 of 7 slots |
| `chunk_refined` *(violated)* | are refined subproblems served their own rows? | 1 stream, default pool, pageable inputs |
| `backward` | exact gradients, own gradients, termination, on both paths | 3 slots; 1, 3 and 9 subproblems by depth; starting depths 0 and 1; out of memory anywhere |
| `cqsa_fwd` | when can the fused result be wrong, and does everything finish? | 2 calls, 4 paths (one empty), 2 streams, 3 blocks |
| `legacy_bwd` | conservation, completeness, termination of both schedulers | 5 paths (one empty), 3 slots, `max_rounds` 2 |

**Why the bounds are enough.** *Tree*: the lengths give no level at all (1, 6), one level with
chunks of one or two tokens (8, 17), two levels that divide evenly (49) and unevenly (51), and with
alignment also empty chunks and a ragged last one. The structure repeats from level to level. The
extra level of `FusedPathsAgree` is taken for calls of fewer than 49 tokens. *Kernels*: a race over
shared memory takes a reader and a writer, hence two warps; the pipelines are at most two stages
deep, so three iterations refill every buffer; the tile shapes give masking steps of one, two and
three. *Softmax*: the scores lie below, at and above 0 so that the maximum may or may not move, and
four keys cut into three parts leave one part with two tiles. *Scheduler*: four streams halve
twice, 4, 2, 1, and three top-level subproblems leave one stream idle; two streams with three
subproblems reuse each slot. A slot, two of its users and a bystander are all that a conflict over
a slot takes. Refinement to depth 2 puts children beside merged subproblems and beside parents. The
budget of 2 + subproblems * cap is 8 in `fwd_pinned`, which no call there reaches: the budget is the
subject of `ladder`. *Ladder*: at N = 16807 the budget of a
rung (64 + 16 * 7 * 5 = 624 for `itr` 1) is less than the retries a legitimate call needs, so the first
rungs really fail; three rungs of `attention_oom_safe` and the four of `stream_cqsa_auto` end at depths
whose budgets suffice. *Chunk pool*: five slots are the fewest with which two subproblems (they share one
chunk) fit, so every acquire of a third evicts. *Backward*: three slots, nine subproblems: every
slot is reused. *Fused*: a reused block takes one call that frees it and one that is given it; four
paths over two streams use each stream twice. *Legacy*: with `max_rounds` 2 the target is 5 of 5 at
three slots and 4 at two, so that a downscale moves it. Counters need no bound of their own: they
grow with the work.

**Runs without a deadlock check.** `tree`, `ladder`, `softmax` (both) and `cqsa_fwd` stop when the walk
reaches a leaf or the calls have ended. All the others check deadlock; what has ended stutters in an
action of its own (`Finished`, `Retired`, `DeviceEnded`). In `kernels` the check means that no CTA
hangs at a barrier.

**Fairness.** Weak fairness of the host thread (it runs Python code that only waits where the
model waits), of every stream (CUDA executes what it holds, in order), of the pool threads, of the
scatter worker, and of the one thread of the device backward. In `cqsa_fwd` the host does not stop
inside a call; whether another call follows is open. Nothing is assumed of memory: `Terminates`,
`CallTerminates` and `Survives` hold however often it runs out. `Recovers` takes the only instance
for which it can hold, memory that fits the deepest level on one stream.

### What the runs found

* **Shared chunks and refinement** (`chunk_refined`). The chunk pool requires `itr=1`, but recovery
  refines to itr 2 in the middle of a call, and the child is served the first rows of its ancestor
  (`stable_stream.py:1342`).
* **The fp32 result of a split kernel** (`softmax_full`). The merge is given the buffer `acc_out`
  (`interface.py:265`, the default of `local_stats_flash`), which only the kernel that is not split
  writes. In a build with `CQSA_KERNEL_SET=full` the heuristic of `flash_api.cpp:562` takes the split
  kernels when a subproblem does not fill the device, and the buffer is merged as it was allocated.
  It is the full build of `README.md:303`, with which `tests/test_stable_stream.py:457` expects an
  exact result.
  The model's choice for what it holds is zeros.

`shared_chunks` is off unless asked for. The fp32 buffer is in the path a call takes by default, but not
in a default build, which has no split kernels: `softmax` is that build. `ServedOwnRows` and
`ExhaustedOnlyRefined` say what does hold of the pool.

Observations, which the passing properties state with their exact limits or which have no run:

* The retry budget (`stable_stream.py:1475`) grows with the depth cap while legitimate retries grow
  with 7 to the depth. From N = 16807 on it can end a call that would have succeeded. `Survives` says
  that the ladder then answers; a direct call of `stream_cqsa_forward` has no ladder.
* A resident chunk may still be on its way on another stream (`stable_stream.py:768`): a hit waits for
  nothing, and the events of the pool only guard eviction. This is the second exception of
  `ServedOwnRows`. It takes copies that are really asynchronous, of inputs that are token-major and
  pinned by the caller: with two streams, seven slots and no failure at all TLC then violates
  `OwnRows`, while a copy out of pageable memory waits for its stream and hides it there.
* The side streams of the fused forward (`flash_api.cpp:1224`) never wait for the current stream, on
  which the caller computes q, k and v, and its blocks go back to the allocator while accumulations
  that read them are still enqueued, if it does not profile or throws.
  `WrongOnlyIfLateOrRecycled` says that nothing else can make a result wrong, and
  `ProfiledCallSettles` that a call that returned a profile ended the danger for itself and for every
  call before it. With `is_causal` it
  applies a local causal mask in gather order, which is not the order of the sequence.
* The fused accumulation adds `exp(lse)` unshifted: a row whose weight overflows is dropped and a
  small denominator is clamped. `OutputExact` promises the softmax only in between.
* The legacy event scheduler can strand a slot after a downscale (`streamed_fwd_bwd.py:1952`):
  the busy slot it gave up is never collected. `CompleteUnlessStranded` says what holds.
* The first `index_copy_` of a merge is outside the `try` that sets `dirty` (`stable_stream.py:249`). It
  allocates nothing, so only an interrupt could tear it, and that ends the call.
* Refining an aligned subproblem can give back a child as large as itself (`reference.py:104`): with
  fewer whole blocks than chunks, all its tokens may be in the chunks of one quorum.
  `RefinementShrinks` says from which length on that cannot happen.
* The last `out.to(device)` of `attention_oom_safe` is outside its `try` (`Deliver` in
  `EscalationLadder`), and `_is_oom` also takes the refusal after a torn merge for an out-of-memory failure. Both are harmless
  to the result: each rung starts afresh.
* The backward starts at `info["itr"]`, not at the depth the forward reached. It only costs retries:
  `GradientsOnce` and `CallTerminates` hold from either depth.
* With `Return_softmax` the forward kernel does not advance the pointer of the probabilities on a
  skipped tile; it is only asked for with dropout. The split kernel also ignores `cqs_block_base`.
* `mask.h` guards partial blocks more carefully than its tile decisions need, since
  `TilesKeepExactly` holds also for tiles across blocks. The docstring of `max_depth_for` calls
  nothing beyond its cap meaningful, while a subsequence keeps three of seven chunks, so that at
  N = 49 a subproblem at the cap could still be split.

## 4. What is proved

| Theorem | Module | States |
|---|---|---|
| `TreeTypeCorrect` | `RefinementTree_proofs` | `TreeSpec => []TreeTypeOK`: reachable subproblems have distinct tokens of the call, ordered when sorted |
| `Partition` | `RefinementTree_proofs` | `TreeSpec => []ChildrenPartition` |
| `Coverage` | `RefinementTree_proofs` | `TreeSpec => []PairCoverage`, at every depth |
| `RefinementProgress` | `RefinementTree_proofs` | `TreeSpec => []RefinementShrinks`: children are never larger, and smaller down to the depth cap, or while there are more whole blocks than a quorum has chunks |
| `BasesLocateRows` | `RefinementTree_proofs` | `TreeSpec => []BlockBaseExact` |
| `TilesExact` | `RefinementTree_proofs` | `TreeSpec => []TilesKeepExactly`, for blocks and tiles of any size |
| `TasksByPath` | `RefinementTree_proofs` | a subproblem reached by refining is the one its path alone determines |
| `FusedAgrees` | `RefinementTree_proofs` | `TreeSpec => []FusedPathsAgree`: the C++ decomposition is the Python one |
| `FusedCoverOnce` | `RefinementTree_proofs` | the fused operator's paths of any length keep every pair once |
| `LoopTypeCorrect` | `RefinementTree_proofs` | `Spec => []TypeOK`: depths, streams and retries stay in bounds |
| `LadderTypeCorrect` | `RefinementTree_proofs` | the same under either ladder, for any rungs |
| `Invariant`, `TypeCorrect` | `ForwardScheduler_proofs` | `Spec => []IInv`, `Spec => []TypeOK` |
| `NothingGarbled` | `ForwardScheduler_proofs` | `Spec => []NoGarbledMerge` |
| `ExactlyOnce` | `ForwardScheduler_proofs` | `Spec => []ReturnedExact` |
| `NothingLost` | `ForwardScheduler_proofs` | `Spec => []Conservation` |
| `Backpressure` | `ForwardScheduler_proofs` | `Spec => []BoundedInFlight` |
| `LoweredFirst` | `ForwardScheduler_proofs` | `Spec => []ConcurrencyFirst` |
| `Implements` | `ForwardScheduler_proofs` | `Spec => ImplementsLoop`, the scheduler implements the loop |
| `Invariant` | `ChunkPool_proofs` | `Spec => []IInv` |
| `BooksBalance` | `ChunkPool_proofs` | `Spec => []PoolOK` |
| `OwnRowsServed` | `ChunkPool_proofs` | `Spec => []ServedOwnRows` |
| `Invariant` | `NativeBackward_proofs` | `CallSpec => []IInv` |
| `EachGradientOnce` | `NativeBackward_proofs` | `CallSpec => []GradientsOnce`, on either path |
| `NothingForeign` | `NativeBackward_proofs` | `CallSpec => []OwnGradients` |
| `Invariant` | `LegacyBackward_proofs` | `Spec => []IInv`, under either scheduler |
| `NoneLostOrTwice` | `LegacyBackward_proofs` | `Spec => []Conservation` |
| `CompleteAtReturn` | `LegacyBackward_proofs` | `Spec => []CompleteUnlessStranded` |
| `Invariant`, `TypeCorrect` | `CqsaForward_proofs` | `FairSpec => []IInv`, `FairSpec => []TypeOK` |
| `ResultsExact` | `CqsaForward_proofs` | `FairSpec => []WrongOnlyIfLateOrRecycled` |
| `OverwrittenByLaterCallsOnly` | `CqsaForward_proofs` | within one call no block is overwritten before it is read |
| `ProfiledSettles` | `CqsaForward_proofs` | `FairSpec => []ProfiledCallSettles` |
| `LoadsStayInBounds` | `FlashKernels_proofs` | `Spec => []LoadsInBounds`, for every shape, window and tile |
| `ForwardCountsOnce` | `FlashKernels_proofs` | `Spec => []ForwardCountsEachPairOnce`, for any number of splits |
| `BackwardCountsOnce` | `FlashKernels_proofs` | `Spec => []BackwardCountsEachPairOnce` |
| `EveryReadSeesItsTile` | `FlashKernels_proofs` | `Spec => []ReadsSeeTheirTile`, for any number of warps and every layout |
| `KernelsTypeCorrect` | `FlashKernels_proofs` | `Spec => []TypeOK`: never more than two groups of copies outstanding |

**Assumptions.** Each is a named `ASSUME` of the module it is about, and TLC evaluates it for the
constants of every run. Of the decomposition: `PerfectDifferenceSet` (what makes an `interest_set`
valid) and `LengthsAreNat`, for the tiles also `TilesArePositive`. `LoopParameters` for the loop, with `RungsAreCalls` for the ladder;
`Decomposition`, `Lineage` and `Parameters` for the forward scheduler; `PoolParameters` for the chunk
pool, besides `PerfectDifferenceSet`; `BackwardParameters`, `BackwardTasks` and `BackwardChildren` for the
backward, `LegacyParameters` for the legacy one; `CqsaForwardAssumption` for the fused forward;
`LaunchesAreValid` and `KernelsRun` (the machine runs the code of the kernels, on their layout of shared memory) for `FlashKernels`. They leave
open the length, the alignment, the gather order, the tiles, windows, masks and splits of a kernel, the number of streams, slots, blocks, paths and calls, the placement of inputs and
accumulators, and where memory runs out.

The schedulers do not fix how a call is decomposed. They assume that the subproblems of a list
keep each pair once and that children do the same for their parent (`Decomposition`,
`BackwardTasks`, `BackwardChildren`). `Coverage` and `Partition` are these two facts for the
decomposition of the code. No formal step joins them: the schedulers' constants are not
instantiated with the operators of `QuorumDecomposition`.

### The arguments

**Decomposition.** Chunks are consecutive segments of the sequence, and every token is in exactly
one (`ChunksAscend`, `OneChunk`). In a perfect difference set two chunks, the same or not, meet in
quorums of exactly one owner that counts the pair (`OneOwner`): for different chunks because their
distance is one difference, for the same chunk because all but one quorum are given a bit for
it. So of the children of a task exactly one keeps a given pair of its tokens (`OneChild`). From
one level to all of them (`OnePath`, `LeavesCoverOnce`) is an induction over the depth, made by taking the
least depth that fails, since the library's induction theorems cannot be applied here.

`RefinementProgress` needs to know how much a subproblem still holds: without alignment at least
`c ** k` tokens when k levels are left to the cap (`Filled`). So every chunk has a token, and a
child has fewer tokens than its parent because no owner gathers every chunk (`Ungathered`): otherwise
all owners did, against `OneOwner`. With alignment the blocks dealt out first fill the first chunks
(`EarlyChunksFilled`), and when there are more whole blocks than a quorum has chunks every quorum
misses one of those (`QuorumMisses`). That a child is never larger is that its tokens are tokens of
its parent, each once (`ChildIsPart`). For `BasesLocateRows` the invariant is that aligned blocks are runs of
consecutive tokens (`Runs`). A sorted gather keeps it since all its chunks but possibly its
last are whole blocks; only the last chunk of a level may have a ragged end, and in a sorted gather
it comes last. `TilesExact` holds of any list of ids: the blocks a range consults cover the range,
because the first is rounded down and the last up (`SpanCovers`).

`FusedAgrees` compares two walks that keep different things: the Python one a set of tokens for each
bit, the C++ one a label per token and level, from which it makes bits at the end. The first fact is
that a task reached by refining is the one its path determines (`WalkedTo`, an invariant). The
second is a simulation along the path: after each level the fused walk `Stands` for the subproblem,
with the same tokens in the same order, and two of its positions have the same label at a level
whose owner gave that label a bit (`SameRun`) just when a group of the subproblem holds both. A level keeps
this (`StandsStep`) because it carries the earlier labels through the same gather as the tokens, and
because the front layout of C++ and the segments of Python cut at the same places. The walk being the
same, so are the paths' pairs, and `LeavesCoverOnce` holds of them at any depth (`FusedCoverOnce`).

**Forward scheduler.** `ReturnedExact` speaks of the end of a call only and is not inductive. `IInv`
adds what the code relies on without saying so. *Ledger*: the subproblems still in the list, the
one in hand and those whose merge was issued are pairwise apart (neither refined from the other,
hence without a common pair), together cover every pair, and the one merge that executes works on
a fresh copy of the accumulator, because there is one merge stream. Halving puts the subproblem in
hand back; splitting replaces it by children that cover it and are apart from whatever it was apart
from. *Pipeline*: for every slot, the subproblem that owns it (the one in hand, or the last one
whose done event guards it) has come to one of five stages, and each buffer on the way holds its
data; two slots never have the same owner. Waiting for the done event means that the owner's merge
has left the queue, which is why the next one may overwrite the buffers. *Control* ties `pc`, `cur`
and `outcome` together. Each action has its lemma for the flow and, where it touches it, one for
the ledger.

`NothingLost` follows from the ledger. `Backpressure` needs in addition that what is in flight
belongs to a slot in use (`SlotsInUse`), and a bound on the size of a set that slots number.
`LoweredFirst` needs that while there are streams to give up everything there is of the call, also
what the merge stream is about to write, is of the depth it started at (`TopLevelOnly`).
`Implements` needs that the subproblem in hand at a failure is the one that failed (`FailedHere`):
then, with the depths of the subproblem in hand and of the list for `depths`, issuing a merge is
`RunOne`, halving `LowerConcurrency`, splitting `Deepen`, giving up `Capped`, and every step of a
stream, and of the host between two of these, is a stutter.

**Chunk pool.** The danger is an eviction whose load overwrites rows a queued kernel has still to
read. `PoolOK` says nothing of kernels; the invariant adds four facts. A queued kernel finds every
one of its chunks still in the slot it was given (`Served`), because either the subproblem in hand
holds the references, or the event recorded last for the chunk lies no earlier than the merge behind
the kernel (`Guarded`): an eviction waits for that event, hence for the kernel. A queued load has a
kernel behind it, or about to be, that wants its chunk (the second half of `Guarded`), so the same
wait covers a chunk that is evicted before it has come. No load lies behind a kernel of its own
stream that reads its chunk (`Loaded`), so what a kernel misses is loading on *another* stream. And the
rows of a resident chunk are in its slot or on their way (`Filled`). A failed attempt leaks its
references, but recovery first empties the streams, so leaked references only keep a slot from
being evicted and never free one. That the rows of a top-level subproblem's chunks are the rows of
its token ids is `ChildIds` of `QuorumDecomposition_proofs`; a refined subproblem's are not, which is the
first exception of `ServedOwnRows` and the finding of `chunk_refined`.

**Backward.** On the host path: of an issued subproblem the gradients are either in the accumulator
or owed by exactly one slot (`Owed`): in flight there, staged there for its flush, or in a job
of the scatter worker. A slot with a job has nothing in flight, two jobs never share a slot, and
the one worker adds to a copy of the accumulator no one else writes (`JobsOwn`). The closing flush
visits the slots in order (`Closing`), so at the return nobody owes anything. On the device path a pair is, for
each of dQ, dK and dV separately, in exactly one of three places: to be run, in hand and not yet
added, or in the accumulator once (`EachPairOnce`), until an addition is torn, after which the call
cannot return.

**Legacy backward.** A path goes through up to seven places: not yet handed over, with the pool, ready, in
a slot, waiting to be merged, added, skipped. `OnePlaceEach` says it is at exactly one of them, and
every action but a change of control moves a set of paths from one place to another (`Moved`,
`HeldAfter`). The sum of `Conservation` counts occurrences, so the queues and slots must also
hold nothing twice (`NoneTwice`). A downscaled target never falls below what was handed over
(`TargetIs`), hence all that is ready is within reach and nothing is dropped (`AllInReach`). For the return,
the event scheduler ends when nothing is left but the slots it gave up. The round scheduler ends
either when the paths added and skipped are as many as the target has, and then they are the target's
(`AllCounted`), or after a round that launched nothing with memory to spare, which had nothing
left to launch (`Rounds`).

**Fused forward.** The current stream's queue is ordered call by call and within a call in the
order zero, wait, accumulate, divide (`CurrentStream`); a side stream has the work of at most one
path, whose wait lies before its accumulation (`SideStreams`). A block that is kept or still to be
read is written by its own path or by a later call (`Exclusive`), and holds its path once that has
run (`Written`), unless the call is excused by `late` or `recycled`. `Ledger` then counts: what was added and what is
still due are the live paths, each once. `Settled`, the last part of the invariant, is for
`ProfiledSettles`: once a call has returned a profile, no call up to it has an accumulation left on
the current stream, because the wait before the return emptied it and later calls add only their own
(`HandReads`, `HostReads`, `StreamReads`). A block written too early is written against an accumulation
that is still queued (`LateWrite`), so the old call of such a pair is then a later one, and what
is in `recycled` of calls up to it was written by calls up to it.

**Kernels.** Block bounds are quotients, which C++ truncates, of numbers that may be negative. Each bound
is first turned into what it means for a block index: a block is visited just when some row of the
tile has a key of it in the window (`ForwardBlocks`, `BackwardBlocks`, from `BelowCeil` and
`AboveFloor`), and a block below the masking iterations lies below the diagonal as a whole
(`BelowDiagonal`, which needs one side of a tile to divide the other). The code of a kernel is then put together
from *pieces*: a piece is an instruction sequence whose copies keep the bounds and whose
computations are exactly a given set, in descending order of their tiles, each once; pieces join where one's
tiles lie above the other's (`PieceJoin`, `PieceFlatten` for a loop). So `CodeIsProgram`: in any
launch the code of a warp is a `Program` of the `Computations` of the launch. For the backward this
includes that the pointers a tile is computed with are its own (`PointersFollow`), by walking
the recursive function of the pointers. What is left of the machine is small: the code never
changes, and what a warp has computed is the computations before its program counter
(`KernelInv`, `Outcome`), whatever the other warps do. Finished, it has done all of them, and the
pairs these hold are the ones the mask keeps (`NoOtherPair`, `NoPairMissing`, `BackwardDone`). The
lemmas on sequences are those of `QuorumDecomposition_proofs`, whose constants play no part.

**Shared memory.** That a read sees the tile it means (`ReadsSeeTheirTile`) is a property of all
warps together, but what makes it true can be said of the code of one warp and of one place at a
time. `FlashKernelsInv` keeps for each place what is known between two instructions (`PlaceStates`):
the tile written last and whether it was copied, what was done with the place since a barrier of all
warps, how many commits ago a copy in flight was issued, and how many groups are outstanding.
`Allowed` is the discipline: a barrier between any use of a place and the next write, and between a write, or the end of a copy, and the
next read; and the tile read is the one written. The first half of the argument is that the code of
each kernel keeps it (`CodeIsDisciplined`), in every layout and for any number of iterations. As before it is
put together from pieces, each of which *leads* from what may be known before it to what may be
known after it (`Leads`): prologue, iterations with or without skipping and prefetching, epilogue.
Loops have an invariant of their own, such as that between two iterations one group is outstanding
and the place of K holds, or is about to hold, the tile of the next one.

The second half is `RaceInv`, about any disciplined code. Between two barriers all warps are in the same
stretch of it, but for those a barrier holds (`InStep`); what a warp has in flight is what its view of
the place tells (`CopiesKnown`); and what a cell of shared memory holds follows from the views of the two warps that
copy and compute that part of a tile (`Contents`), of which the one that is ahead knows more.
It is inductive because two warps that are in one stretch cannot be separated by a barrier, so that
by the discipline the one that writes is alone with the place. `TypeOK` and `ReadsSeeTheirTile`
alone are not inductive: neither says that a warp about to write is not a barrier ahead of a reader.
TLC found `RaceInv` to hold and every kernel to be disciplined, on launches like those of `kernels`,
before either was proved.

### Only model-checked

* `ExhaustedOnlyRefined` in `chunk_pool` is a fact about the numbers of that instance (two streams,
  five slots, c = 7), not about the pool: with fewer slots a top-level acquire does exhaust it.
* The statistics of a row, whose fractions multiply beyond what the arithmetic of the provers decides.
* Out of the provers' reach altogether: liveness under fairness (`Terminates`, `Recovers`,
  `Survives`, `CallTerminates`, `EverythingFinishes`), `ENABLED`, and what a recursive operator or
  a fold computes for every input.

## 5. What is not modelled

* *Rounding.* `AttentionStatistics` computes with exact fractions; of floating point it has only
  infinities, NaN and the overflow and clamp of the fused sums.
* *Which launch is split.* `SplitKernels` says whether a build has split kernels; the heuristic's
  occupancy estimate is not modelled, it may choose them for any subproblem.
* *Parts of the kernels*: dropout, ALiBi, softcap, paged and appended KV, the deterministic dQ
  reduction, the layouts of the matrix instructions, head dimensions.
* *Memory sizes.* Where memory runs out is a parameter, not a consequence, so the planner and the
  choice of parallelism are not modelled: every outcome of theirs is allowed.
* *Calls that run at the same time in one process*, and with them the task cache they would share.
* *The legacy forward runner, `streamed_forward_phase` and the retry ladder of `autograd_op.py`*: the
  same loops as the legacy backward without its recovery, or a ladder like `EscalationLadder`.
* Timing, traces and logs; the probe and the offload helpers (processes and transfers); wrappers.
* *Some errors of the legacy backward*: a preparation that raises, or a launch that fails for another
  reason than memory, ends the call with an exception.
* *One assumption on failures*: an `index_add_` or `index_copy_` that raises has written nothing.
  Everything after a first write is taken to be torn.
* *Vendored code.* Nearly all lines of the repository are the templates under
  `src/csrc/cutlass`, which the models see only as the matrix and copy instructions the kernels
  use.

Components listed as `not_modelled` in `PROJECT.json` carry their reason there.

## 6. Plan

Done, in the order of importance: decomposition and tile masking, its coverage proved; recovery
loop and forward scheduler with their invariant, limits and refinement proved; chunk pool, proved;
streamed and device backward under the autograd operator, proved; escalation ladder; fused forward
and its decomposition, proved; statistics of a row; kernels, what they load, read and compute proved; legacy
backward, proved.

Next modules, in this order: `TaskCache` (concurrent calls at one shape sharing task objects), the
retry ladder of `autograd_op.py` over `LegacyBackward`, the legacy forward phase, the bisection of
the probe.

Next theorem: `OnlineRowExact` of `AttentionStatistics`, from lemmas on `LogFractions` that keep the
products of fractions out of the leaves.
