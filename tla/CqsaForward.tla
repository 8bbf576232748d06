---------------------------- MODULE CqsaForward ----------------------------
(***************************************************************************)
(* The fused forward of the CUDA extension (mha_fwd_cqsa_impl in           *)
(* flash_api.cpp): the host forks the 7^num_itr paths over side streams,   *)
(* joins them on the current stream through events, and returns with the   *)
(* device still at work. Streams, events and the caching allocator are     *)
(* external (CUDA, PyTorch): a stream runs its operations in order, and a  *)
(* block that is freed may be handed out again at once on the stream it    *)
(* was allocated on, whatever other streams still have to do with it.      *)
(***************************************************************************)
EXTENDS Integers, Sequences, FiniteSets, Functions

CONSTANTS
  Calls,       \* how many times the operator is called, one after the other
  NumPaths,    \* 7^num_itr
  EmptyPaths,  \* the paths without a token
  MaxStreams,  \* the streams of a call: 4, or CQSA_FUSED_STREAMS
  PoolSize,    \* the side streams of the process; a call takes the next ones
  NumBlocks    \* the blocks the side streams' allocations may occupy

ASSUME CqsaForwardAssumption ==
  /\ Calls \in Nat \ {0} /\ NumPaths \in Nat \ {0} /\ NumBlocks \in Nat \ {0}
  /\ EmptyPaths \subseteq 0 .. NumPaths - 1
  /\ PoolSize \in Nat \ {0} /\ MaxStreams \in 1 .. PoolSize

VARIABLES
  host,      \* the host: [at, call, path, profile]
  streams,   \* the side streams of the call
  lastUsed,  \* the pool's counter
  staged,    \* staged_results of the call: [path, block]
  queue,     \* the operations each stream still has to run
  recorded,  \* the events that have happened
  block,     \* the allocator: [owner, free] of each block
  holds,     \* what each block holds: [call, path, whole]
  produced,  \* the calls whose q, k and v are complete
  sum,       \* global_num and global_den of each call
  result,    \* what each call computed
  late,      \* history: the calls that read q, k or v before they were complete
  recycled,  \* history: [old, new], the calls, when a block was written too early
  profiled   \* history: the calls that have returned a profile

vars == <<host, streams, lastUsed, staged, queue, recorded, block, holds, produced,
          sum, result, late, recycled, profiled>>
device == <<recorded, holds, produced, sum, result, late, recycled>>

Current == PoolSize            \* the current stream; the side streams are 0 ..
Side == 0 .. PoolSize - 1
Blocks == 1 .. NumBlocks
CallIds == 1 .. Calls

Void == [call |-> 0, path |-> 0, whole |-> FALSE]
Pending == <<"pending">>

Live == (0 .. NumPaths - 1) \ EmptyPaths

Init ==
  /\ host = [at |-> "idle", call |-> 0, path |-> 0, profile |-> FALSE]
  /\ streams = <<>>
  /\ lastUsed = 0
  /\ staged = <<>>
  /\ queue = [s \in Side \cup {Current} |-> <<>>]
  /\ recorded = {}
  /\ block = [b \in Blocks |-> [owner |-> Current, free |-> TRUE]]
  /\ holds = [b \in Blocks |-> Void]
  /\ produced = {}
  /\ sum = [n \in CallIds |-> <<>>]
  /\ result = [n \in CallIds |-> Pending]
  /\ late = {}
  /\ recycled = {}
  /\ profiled = {}

-----------------------------------------------------------------------------
(* The host.                                                               *)

Enqueue(s, ops) == queue' = [queue EXCEPT ![s] = @ \o ops]

\* num_streams, and the streams the pool hands out in turn (setup).
NumStreams == IF NumPaths < MaxStreams THEN NumPaths ELSE MaxStreams

Begin ==
  /\ host.at = "idle" /\ host.call < Calls
  /\ \E profile \in BOOLEAN, produce \in BOOLEAN :
       LET n == host.call + 1
       IN  /\ host' = [at |-> "fork", call |-> n, path |-> 0, profile |-> profile]
           \* q, k and v may still be being computed on the current stream.
           /\ Enqueue(Current, (IF produce THEN <<[op |-> "produce", call |-> n]>> ELSE <<>>)
                               \o <<[op |-> "zero", call |-> n]>>)
           /\ produced' = IF produce THEN produced ELSE produced \cup {n}
  /\ streams' = [i \in 1 .. NumStreams |-> (lastUsed + i - 1) % PoolSize]
  /\ lastUsed' = (lastUsed + NumStreams) % PoolSize
  /\ staged' = <<>>
  /\ UNCHANGED <<recorded, block, holds, sum, result, late, recycled, profiled>>

StreamOf(path) == streams[(path % Len(streams)) + 1]

\* slip: the tensors of a path live only as long as its iteration
ObtainableOnceForked(s) ==
  LET fresh == {b \in Blocks : block[b].owner = Current}
  IN  {b \in Blocks : block[b].owner = s} \cup {b \in fresh : \A c \in fresh : b <= c}

\* What the allocator may answer on stream s: a block freed there, or the next fresh one.
Obtainable(s) ==
  LET fresh == {b \in Blocks : block[b].owner = Current}
  IN  {b \in Blocks : block[b].free /\ block[b].owner = s}
      \cup {b \in fresh : \A c \in fresh : b <= c}

\* slip: the event is recorded before the work it stands for
ForkEventFirst(path, b) ==
  <<[op |-> "record", call |-> host.call, path |-> path],
    [op |-> "local", call |-> host.call, path |-> path, block |-> b]>>

\* What the path's stream is given: the tensors of the path, its attention, its event.
ForkOps(path, b) ==
  <<[op |-> "local", call |-> host.call, path |-> path, block |-> b],
    [op |-> "record", call |-> host.call, path |-> path]>>

\* The token ids are copied from pageable memory: the host waits for the path's
\* stream, so that the stream is empty when the path's work is given to it.
Fork ==
  /\ host.at = "fork" /\ host.path < NumPaths /\ host.path \notin EmptyPaths
  /\ queue[StreamOf(host.path)] = <<>>
  /\ \E b \in Obtainable(StreamOf(host.path)) :
       /\ block' = [block EXCEPT ![b] = [owner |-> StreamOf(host.path), free |-> FALSE]]
       /\ staged' = Append(staged, [path |-> host.path, block |-> b])
       /\ Enqueue(StreamOf(host.path), ForkOps(host.path, b))
  /\ host' = [host EXCEPT !.path = @ + 1]
  /\ UNCHANGED <<streams, lastUsed, profiled, device>>

\* slip: an empty path is looked at again
ForkEmptyStays ==
  /\ host.at = "fork" /\ host.path < NumPaths /\ host.path \in EmptyPaths
  /\ host' = [host EXCEPT !.profile = ~ @]
  /\ UNCHANGED <<streams, lastUsed, staged, queue, block, profiled, device>>

\* A path without tokens is not staged.
ForkEmpty ==
  /\ host.at = "fork" /\ host.path < NumPaths /\ host.path \in EmptyPaths
  /\ host' = [host EXCEPT !.path = @ + 1]
  /\ UNCHANGED <<streams, lastUsed, staged, queue, block, profiled, device>>

Freed(blocks) == [b \in Blocks |-> IF b \in blocks THEN [block[b] EXCEPT !.free = TRUE] ELSE block[b]]
StagedBlocks == {staged[i].block : i \in DOMAIN staged}

WaitForAll == [i \in DOMAIN staged |-> [op |-> "await", call |-> host.call, path |-> staged[i].path]]

Accumulations ==
  [i \in DOMAIN staged |->
     [op |-> "accumulate", call |-> host.call, path |-> staged[i].path, block |-> staged[i].block]]

\* The waits, then one accumulation per staged path, all on the current stream.
Join ==
  /\ host.at = "fork" /\ host.path = NumPaths
  /\ Enqueue(Current, WaitForAll \o Accumulations)
  /\ host' = [host EXCEPT !.at = "join"]
  /\ UNCHANGED <<streams, lastUsed, staged, block, profiled, device>>

\* An allocation, an event, a wait or a launch fails: what was enqueued stays, the
\* exception unwinds and frees what was staged. After the accumulations a profiled
\* call may fail before its wait for the current stream, in it, or after it.
Throw ==
  /\ \/ host.at = "fork" /\ host.path \in Live /\ UNCHANGED queue
     \/ /\ host.at = "fork" /\ host.path = NumPaths
        /\ \E k \in 0 .. 2 * Len(staged) - 1 :
             Enqueue(Current, SubSeq(WaitForAll \o Accumulations, 1, k))
     \/ host.at = "join" /\ UNCHANGED queue
  /\ host' = [host EXCEPT !.at = "idle"]
  /\ block' = Freed(StagedBlocks)
  /\ staged' = <<>>
  /\ UNCHANGED <<streams, lastUsed, profiled, device>>

\* slip: the profiled call does not wait either
ReturnAtOnce ==
  /\ host.at = "join"
  /\ Enqueue(Current, <<[op |-> "divide", call |-> host.call]>>)
  /\ block' = Freed(StagedBlocks)
  /\ staged' = <<>>
  /\ host' = [host EXCEPT !.at = "idle"]
  /\ profiled' = IF host.profile THEN profiled \cup {host.call} ELSE profiled
  /\ UNCHANGED <<streams, lastUsed, device>>

\* With return_profile the host waits for the current stream; then it divides and
\* returns, and with staged_results go the blocks.
Return ==
  /\ host.at = "join"
  /\ host.profile => queue[Current] = <<>>
  /\ Enqueue(Current, <<[op |-> "divide", call |-> host.call]>>)
  /\ block' = Freed(StagedBlocks)
  /\ staged' = <<>>
  /\ host' = [host EXCEPT !.at = "idle"]
  /\ profiled' = IF host.profile THEN profiled \cup {host.call} ELSE profiled
  /\ UNCHANGED <<streams, lastUsed, device>>

Host == Begin \/ Fork \/ ForkEmpty \/ Throw \/ Join \/ Return

-----------------------------------------------------------------------------
(* The device: the first operation of some stream.                         *)

First(s) == queue[s][1]
Running(s, op) == queue[s] # <<>> /\ First(s).op = op
Done(s) == queue' = [queue EXCEPT ![s] = Tail(@)]

hostVars == <<host, streams, lastUsed, staged, block, profiled>>

Produce(s) ==
  /\ Running(s, "produce") /\ Done(s)
  /\ produced' = produced \cup {First(s).call}
  /\ UNCHANGED <<hostVars, recorded, holds, sum, result, late, recycled>>

Zero(s) ==
  /\ Running(s, "zero") /\ Done(s)
  /\ sum' = [sum EXCEPT ![First(s).call] = <<>>]
  /\ UNCHANGED <<hostVars, recorded, holds, produced, result, late, recycled>>

\* The accumulations that still have to read block b.
Readers(b) ==
  {queue[Current][i] : i \in {j \in DOMAIN queue[Current] :
     queue[Current][j].op = "accumulate" /\ queue[Current][j].block = b}}

\* The path's token ids, q_sub, k_sub, v_sub, output and lse are written to its block.
Local(s) ==
  /\ Running(s, "local") /\ Done(s)
  /\ LET o == First(s)
     IN  /\ holds' = [holds EXCEPT ![o.block] =
                        [call |-> o.call, path |-> o.path, whole |-> o.call \in produced]]
         /\ late' = IF o.call \in produced THEN late ELSE late \cup {o.call}
         /\ recycled' = recycled \cup
              {[old |-> r.call, new |-> o.call] : r \in {x \in Readers(o.block) : <<x.call, x.path>> # <<o.call, o.path>>}}
  /\ UNCHANGED <<hostVars, recorded, produced, sum, result>>

Record(s) ==
  /\ Running(s, "record") /\ Done(s)
  /\ recorded' = recorded \cup {<<First(s).call, First(s).path>>}
  /\ UNCHANGED <<hostVars, holds, produced, sum, result, late, recycled>>

Await(s) ==
  /\ Running(s, "await") /\ <<First(s).call, First(s).path>> \in recorded /\ Done(s)
  /\ UNCHANGED <<hostVars, device>>

\* cqsa_accum_out_lse_index: adds out * exp(lse), at the token ids, to the sums.
Accumulate(s) ==
  /\ Running(s, "accumulate") /\ Done(s)
  /\ sum' = [sum EXCEPT ![First(s).call] = Append(@, holds[First(s).block])]
  /\ UNCHANGED <<hostVars, recorded, holds, produced, result, late, recycled>>

Divide(s) ==
  /\ Running(s, "divide") /\ Done(s)
  /\ result' = [result EXCEPT ![First(s).call] = sum[First(s).call]]
  /\ UNCHANGED <<hostVars, recorded, holds, produced, sum, late, recycled>>

Stream(s) ==
  \/ Produce(s) \/ Zero(s) \/ Local(s) \/ Record(s)
  \/ Await(s) \/ Accumulate(s) \/ Divide(s)

Next == Host \/ \E s \in Side \cup {Current} : Stream(s)

\* The host does not stop inside a call, and every stream gets on.
FairSpec ==
  /\ Init /\ [][Next]_vars
  /\ WF_vars(Fork \/ ForkEmpty \/ Throw \/ Join \/ Return)
  /\ \A s \in Side \cup {Current} : WF_vars(Stream(s))

-----------------------------------------------------------------------------

TypeOK ==
  /\ host.at \in {"idle", "fork", "join"} /\ host.call \in 0 .. Calls /\ host.path \in 0 .. NumPaths
  /\ recorded \subseteq CallIds \X Live
  /\ \A i \in DOMAIN staged : ~ block[staged[i].block].free
  /\ \A i, j \in DOMAIN staged : i # j => staged[i].block # staged[j].block
  /\ produced \subseteq CallIds /\ late \subseteq CallIds

Exact(n) ==
  /\ Len(result[n]) = Cardinality(Live)
  /\ Range(result[n]) = {[call |-> n, path |-> p, whole |-> TRUE] : p \in Live}

\* What a call divides and returns holds every path that has tokens once, each
\* with the token ids it was computed for, unless the call was made before its
\* inputs were complete (the side streams do not wait for the current stream) or
\* a later call was given one of its blocks too early. The call itself never
\* takes one of its blocks twice: staged_results keeps them.
WrongOnlyIfLateOrRecycled ==
  \A n \in CallIds :
    result[n] # Pending =>
      Exact(n) \/ n \in late \/ \E r \in recycled : r.old = n /\ r.new > n

\* A call that has returned a profile has settled the score: it waited for the
\* current stream, so it is exact unless its own inputs were late, and no call
\* after it can overwrite a block of it, nor of any call before it.
ProfiledCallSettles ==
  \A m \in profiled : \A n \in 1 .. m :
    result[n] # Pending =>
      Exact(n) \/ n \in late \/ \E r \in recycled : r.old = n /\ r.new \in n + 1 .. m

\* Every call that starts comes back, with a result or an exception, and the
\* device finishes what it was given: the waits for events form no cycle.
EverythingFinishes ==
  [](host.at # "idle" => <>(host.at = "idle")) /\ []<>(\A s \in Side \cup {Current} : queue[s] = <<>>)

=============================================================================
