---------------------------- MODULE FlashKernels ----------------------------
(***************************************************************************)
(* The attention kernels as code for the KernelMachine: the forward kernel *)
(* and its split-KV form (flash_fwd_kernel.h), the backward kernel         *)
(* (flash_bwd_kernel.h). One CTA is one block of queries (forward) or of   *)
(* keys (backward) of one head; its control depends on nothing the CTA     *)
(* computes, so the code of a warp is a sequence of instructions.          *)
(*                                                                         *)
(* A launch l has the shape of TileBounds and: kernel ("fwd", "split",     *)
(* "bwd"), block (the CTA), traits (the buffers' layout), idx and num (the *)
(* split), bits (the set of group bits of each position; CQS is enabled    *)
(* when some position has one).                                            *)
(***************************************************************************)
EXTENDS KernelMachine, TileBounds, FiniteSets

\* The instructions if the condition holds, as one element of a sequence.
If(condition, seq) == IF condition THEN seq ELSE <<>>

-----------------------------------------------------------------------------
(* The group mask. The verdict on a tile comes from the summaries of its   *)
(* blocks (module TileMask); here a block is one position.                 *)

RowsOf(l, m) == m * l.M .. (m + 1) * l.M - 1
ColsOf(l, n) == n * l.N .. (n + 1) * l.N - 1

\* cqs_tile_is_fully_masked, cqs_tile_masked
Skipped(l, m, n) ==
  /\ RowsOf(l, m) \cup ColsOf(l, n) \subseteq DOMAIN l.bits
  /\ \E g \in UNION {l.bits[i] : i \in DOMAIN l.bits} :
       \A i \in RowsOf(l, m) \cup ColsOf(l, n) : g \in l.bits[i]

\* cqs_should_mask
SharesBit(l, i, j) ==
  i \in DOMAIN l.bits /\ j \in DOMAIN l.bits /\ l.bits[i] \cap l.bits[j] # {}

-----------------------------------------------------------------------------
(* The forward kernel, and its split-KV form.                              *)

FwdMin(l) == IF l.kernel = "split" THEN SplitMin(l, l.block, l.idx, l.num) ELSE NBlockMin(l, l.block)
FwdMax(l) == IF l.kernel = "split" THEN SplitMax(l, l.block, l.idx, l.num) ELSE NBlockMax(l, l.block)

\* The last block the masking loop treats: with one masking step there is
\* always a block for it; with more, the loop breaks after the first block.
LastMasked(l) ==
  LET last == FwdMax(l) - MaskingSteps(l)
  IN  IF last < FwdMin(l) THEN FwdMin(l) ELSE last

PrefetchK(l, n) ==
  IF n > FwdMin(l) THEN <<Load("sK", Tile("K", n - 1), "all"), Commit>> ELSE <<>>

ScoreGemm(l, n) ==
  If(l.traits = "plain", <<UseRows("sQ", Tile("Q", l.block))>>) \o <<Use("sK", Tile("K", n))>>

\* One iteration of either loop. Only the second loop skips, and only in the
\* kernel that is not split; a skipped tile still moves the pipeline on.
ForwardStep(l, n, masking) ==
  LET live == masking \/ l.kernel = "split" \/ ~ Skipped(l, l.block, n)
      edge == masking /\ n = FwdMax(l) - 1 /\ ~ l.even
  IN  <<Wait(0), Sync, Load("sV", Tile("V", n), IF edge THEN "clear" ELSE "all"), Commit>>
      \o If(live, ScoreGemm(l, n))
      \o <<Wait(0), Sync>> \o PrefetchK(l, n)
      \o If(live, <<Use("sV", Tile("V", n)), Emit([tile |-> n, masking |-> masking])>>)

\* Q goes to registers before the loop unless the traits leave it in shared memory.
ForwardPrologue(l) ==
  LET q == Tile("Q", l.block)
      edge == IF l.even THEN "all" ELSE "skip"
  IN  <<Load("sQ", q, edge)>>
      \o If(l.traits # "plain", <<Commit>>)
      \o If(l.traits = "share", <<Wait(0), Sync, UseRows("sQ", q), Sync>>)
      \o <<Load("sK", Tile("K", FwdMax(l) - 1), edge), Commit>>
      \o If(l.traits = "qregs", <<Wait(1), Sync, UseRows("sQ", q)>>)

\* sO takes the place of sQ; the fp32 output of a split takes more than that.
ForwardEpilogue(l) ==
  If(l.traits = "share" \/ (l.kernel = "split" /\ l.num > 1), <<Sync>>)
  \o <<Put("sO", Tile("O", l.block)), Sync, Fetch("sO", Tile("O", l.block))>>

\* A CTA without a row returns; one without a block writes zeros and returns, if
\* the kernel it was compiled to can meet one: a whole, unmasked call is not asked.
ForwardCode(l, w) ==
  IF \/ l.block * l.M >= l.sq
     \/ FwdMax(l) <= FwdMin(l) /\ (l.kernel = "split" \/ l.mode # "full" \/ ~ l.even)
  THEN <<>>
  ELSE ForwardPrologue(l)
       \o FlattenSeq([i \in 1 .. FwdMax(l) - LastMasked(l) |-> ForwardStep(l, FwdMax(l) - i, TRUE)])
       \o FlattenSeq([i \in 1 .. LastMasked(l) - FwdMin(l) |-> ForwardStep(l, LastMasked(l) - i, FALSE)])
       \o ForwardEpilogue(l)

-----------------------------------------------------------------------------
(* The backward kernel, in the grid that gives every block of keys a CTA.  *)

DoubleBuffer(l) == l.traits \in {"double", "double_vregs"}
VInRegs(l) == l.traits \in {"double_vregs", "single_vregs"}

QSlot(i) == IF i = 0 THEN "sQ" ELSE "sQ2"

\* slip: the rows past the last query keep what shared memory held
EdgeSkipped(l) == IF l.even THEN "all" ELSE "skip"

\* The first loads clear the rows out of bounds (Clear_OOB_MN); the loads of the
\* later iterations ask nothing, for those blocks are whole.
EdgeCleared(l) == IF l.even THEN "all" ELSE "clear"

BackwardPrologue(l, n, m, slot) ==
  LET edge == EdgeCleared(l)
  IN  If(VInRegs(l), <<Load("sV", Tile("V", n), edge), Commit>>)
      \o <<Load("sdO", Tile("dO", m), edge), Load(QSlot(slot), Tile("Q", m), edge),
           Load("sK", Tile("K", n), edge)>>
      \o If(~ VInRegs(l), <<Load("sV", Tile("V", n), edge)>>)
      \o <<Commit>>
      \o If(VInRegs(l), <<Wait(1), Sync, Use("sV", Tile("V", n))>>)

\* The pointers the loop carries: the buffer of sQ the loads and the score GEMM
\* use, the one the dK GEMM uses, the rows of lse and dPsum, the rows of dQ.
BackwardPointers(l, m) ==
  LET slot == IF DoubleBuffer(l) THEN m % 2 ELSE 0
  IN  [q |-> slot, qt |-> slot, stats |-> m, dq |-> m + 1]

\* slip: a skipped tile leaves the dQ pointer where it was
AdvancedUnlessSkipped(l, n, m, ptr) ==
  LET more == m > MBlockMin(l, n)
      flip == IF m % 2 = 0 THEN 1 ELSE -1
  IN  [q |-> IF DoubleBuffer(l) /\ more THEN ptr.q + flip ELSE ptr.q,
       qt |-> IF DoubleBuffer(l) THEN ptr.qt + flip ELSE ptr.qt,
       stats |-> IF more THEN ptr.stats - 1 ELSE ptr.stats,
       dq |-> IF Skipped(l, m, n) THEN ptr.dq ELSE ptr.dq - 1]

\* The pointers after the iteration of block m.
Advanced(l, n, m, ptr) ==
  LET more == m > MBlockMin(l, n)
      flip == IF m % 2 = 0 THEN 1 ELSE -1
  IN  [q |-> IF DoubleBuffer(l) /\ more THEN ptr.q + flip ELSE ptr.q,
       qt |-> IF DoubleBuffer(l) THEN ptr.qt + flip ELSE ptr.qt,
       stats |-> IF more THEN ptr.stats - 1 ELSE ptr.stats,
       dq |-> ptr.dq - 1]

\* slip: the loads of the iteration before are not waited for
TopWithoutWait(l) == <<Sync>>

TopOfLoop(l) == <<Wait(0), Sync>>

\* S and P, dP and dS, and the next Q into the other buffer.
BackwardScores(l, n, m, ptr, next) ==
  LET live == ~ Skipped(l, m, n)
  IN  If(live, <<Use(QSlot(ptr.q), Tile("Q", m)), Use("sK", Tile("K", n))>>)
      \o <<Put("sP", Tile("P", m))>>
      \o If(live, <<Use("sdO", Tile("dO", m))>> \o If(~ VInRegs(l), <<Use("sV", Tile("V", n))>>))
      \o If(DoubleBuffer(l) /\ m > MBlockMin(l, n),
            <<Load(QSlot(next.q), Tile("Q", m - 1), "all"), Commit>>)
      \o <<Put("sdS", Tile("dS", m)), Sync>>

\* slip: dO is loaded again without waiting for the dV GEMMs of the other warps
BackwardDVNoSync(l, n, m) ==
  If(~ Skipped(l, m, n),
     <<Use("sP", Tile("P", m)), Use("sdO", Tile("dO", m)), Emit([out |-> "dV", tile |-> m])>>)
  \o If(m > MBlockMin(l, n), <<Load("sdO", Tile("dO", m - 1), "all"), Commit>>)

\* dV, and the next dO into the buffer dV read.
BackwardDV(l, n, m) ==
  If(~ Skipped(l, m, n),
     <<Use("sP", Tile("P", m)), Use("sdO", Tile("dO", m)), Emit([out |-> "dV", tile |-> m])>>)
  \o <<Sync>>
  \o If(m > MBlockMin(l, n), <<Load("sdO", Tile("dO", m - 1), "all"), Commit>>)

\* dQ, added to global memory whether the tile was skipped or not, and dK.
BackwardDQDK(l, n, m, ptr, next) ==
  LET live == ~ Skipped(l, m, n)
  IN  If(live, <<Use("sdS", Tile("dS", m)), Use("sK", Tile("K", n))>>)
      \o <<Emit([out |-> "dQ", tile |-> m, at |-> next.dq, stats |-> ptr.stats, zero |-> ~ live])>>
      \o If(live, <<Use("sdS", Tile("dS", m)), Use(QSlot(ptr.qt), Tile("Q", m)),
                    Emit([out |-> "dK", tile |-> m])>>)
      \o If(~ DoubleBuffer(l) /\ m > MBlockMin(l, n),
            <<Sync, Load("sQ", Tile("Q", m - 1), "all"), Commit>>)

\* One iteration. A skipped tile leaves out the five GEMMs and nothing else.
BackwardStep(l, n, m, ptr) ==
  LET next == Advanced(l, n, m, ptr)
  IN  TopOfLoop(l) \o BackwardScores(l, n, m, ptr, next) \o BackwardDV(l, n, m)
      \o BackwardDQDK(l, n, m, ptr, next)

\* sdK and sdV take the places of sK and of what follows it.
BackwardEpilogue(n) ==
  <<Sync, Put("sdK", Tile("dK", n)), Put("sdV", Tile("dV", n)), Sync,
    Fetch("sdK", Tile("dK", n)), Fetch("sdV", Tile("dV", n))>>

\* The pointers before each iteration, the first with block `first`.
PointersFrom(l, n, first) ==
  LET ptr[i \in 0 .. first] == IF i = 0 THEN BackwardPointers(l, first)
                              ELSE Advanced(l, n, first - (i - 1), ptr[i - 1])
  IN  ptr

\* A CTA without a column returns; one without a block of queries writes zeros,
\* if the window or the edge can leave it without one.
BackwardCode(l, w) ==
  LET n == l.block
      first == MBlockMax(l, n) - 1
      ptr == PointersFrom(l, n, first)
  IN  IF \/ n * l.N >= l.sk
         \/ first < MBlockMin(l, n) /\ (l.mode = "local" \/ ~ l.even)
      THEN <<>>
      ELSE BackwardPrologue(l, n, first, ptr[0].q)
           \o FlattenSeq([i \in 1 .. first - MBlockMin(l, n) + 1 |->
                             BackwardStep(l, n, first - (i - 1), ptr[i - 1])])
           \o BackwardEpilogue(n)

KernelCode(l, w) == IF l.kernel = "bwd" THEN BackwardCode(l, w) ELSE ForwardCode(l, w)

-----------------------------------------------------------------------------
(* Where the buffers lie in shared memory.                                 *)

\* With V in registers sdS and sP lie where sV was.
KernelPlaces(l, buf) ==
  CASE buf = "sQ"  -> {"q"}
    [] buf = "sQ2" -> {"q2"}
    [] buf = "sdO" -> {"do"}
    [] buf = "sK"  -> IF l.traits = "share" THEN {"q"} ELSE {"k"}
    [] buf = "sV"  -> {"v", "v2"}
    [] buf = "sO"  -> IF l.kernel = "split" /\ l.num > 1 THEN {"q", "k"} ELSE {"q"}
    [] buf = "sdS" -> IF VInRegs(l) THEN {"v"} ELSE {"ds"}
    [] buf = "sP"  -> IF VInRegs(l) THEN {"v2"} ELSE {"p"}
    [] buf = "sdK" -> {"k"}
    [] buf = "sdV" -> {"v", "v2"}

SmemPlaces == {"q", "q2", "do", "k", "v", "v2", "ds", "p"}

\* The tensors of shared memory the kernels name.
Buffers == {"sQ", "sQ2", "sdO", "sK", "sV", "sO", "sdS", "sP", "sdK", "sdV"}

\* A block of the grid, and of a split one of those there are. Split kernels are
\* compiled for the plain layout only.
ValidLaunch(l) ==
  /\ ValidShape(l)
  /\ l.block \in Nat
  /\ l.num \in Nat \ {0} /\ l.idx \in 0 .. l.num - 1
  /\ \/ l.kernel = "fwd" /\ l.traits \in {"plain", "qregs", "share"}
     \/ l.kernel = "split" /\ l.traits = "plain"
     \/ l.kernel = "bwd" /\ l.traits \in {"double", "single", "double_vregs", "single_vregs"}

ASSUME LaunchesAreValid == \A l \in Launches : ValidLaunch(l)

ASSUME KernelsRun ==
  /\ AllPlaces = SmemPlaces
  /\ \A l \in Launches : /\ \A w \in Warps : Code(l, w) = KernelCode(l, w)
                         /\ \A buf \in Buffers : Places(l, buf) = KernelPlaces(l, buf)

-----------------------------------------------------------------------------
(* What the kernels promise.                                               *)

\* The rows of a tile of queries that warp w computes.
WarpRows(l, w, m) == {i \in RowsOf(l, m) : i % Cardinality(Warps) = w}

\* The pairs a forward iteration gives to the softmax of warp w.
Accumulated(l, w, e) ==
  {p \in WarpRows(l, w, l.block) \X ColsOf(l, e.tile) :
     /\ IF e.masking THEN Unmasked(l, p[1], p[2]) ELSE UnmaskedLater(l, p[1], p[2])
     /\ ~ SharesBit(l, p[1], p[2])}

\* The pairs block m of queries contributes to the gradients of block n of keys;
\* a row past the end has lse = inf, and probability 0.
Differentiated(l, m, n) ==
  {p \in RowsOf(l, m) \X ColsOf(l, n) :
     /\ Unmasked(l, p[1], p[2])
     /\ l.even \/ p[1] < l.sq
     /\ ~ SharesBit(l, p[1], p[2])}

\* The types, and the depth of the pipeline: no wait asks for fewer than all
\* groups but one, so no warp may ever have more than two outstanding.
TypeOK ==
  /\ launch.kernel \in {"fwd", "split", "bwd"}
  /\ \A w \in Warps :
       /\ pc[w] \in 1 .. Len(code[w]) + 1
       /\ barrier[w] \in 0 .. Len(code[w])
       /\ Len(groups[w]) <= 2

\* A warp that may read shared memory finds there the whole tile the code means
\* to read, from that moment on: no copy still in flight, no tile of another
\* iteration, no output staged over an operand that another warp has yet to read
\* (the comments on __syncthreads and on the fence of the K prefetch).
ReadsSeeTheirTile ==
  \A w \in Warps :
    Ready(w) /\ Next_(w).op \in {"use", "userows", "fetch"} =>
      \A p \in Places(launch, Next_(w).buf), x \in Touched(w, Next_(w)) :
        smem[p][x] = Next_(w).tile

\* The splits of a block of queries share out its blocks of keys: each block is
\* in the range of exactly one split.
SharedOut(l) ==
  l.kernel = "split" =>
    \A b \in NBlockMin(l, l.block) .. NBlockMax(l, l.block) - 1 :
      Cardinality({i \in 0 .. l.num - 1 :
                     SplitMin(l, l.block, i, l.num) <= b /\ b < SplitMax(l, l.block, i, l.num)}) = 1

\* When a warp of the forward kernel is done, each pair of its rows that the
\* masks keep has entered the softmax exactly once and no other pair has: the
\* loop without masks and the skipped tiles leave out nothing and let nothing in.
\* A split has the pairs of its own blocks, and the splits leave none over.
ForwardCountsEachPairOnce ==
  \A w \in Warps :
    launch.kernel # "bwd" /\ Finished(w) =>
      /\ SharedOut(launch)
      /\ \A i, j \in DOMAIN emitted[w] : i # j => emitted[w][i].tile # emitted[w][j].tile
      /\ {p \in UNION {Accumulated(launch, w, emitted[w][i]) : i \in DOMAIN emitted[w]} :
            p[1] < launch.sq}
         = {p \in WarpRows(launch, w, launch.block) \X (0 .. launch.sk - 1) :
              /\ Attends(launch, p[1], p[2])
              /\ ~ SharesBit(launch, p[1], p[2])
              /\ launch.kernel = "split" =>
                   p[2] \div launch.N \in launch.idx * BlocksPerSplit(launch, launch.num) ..
                                         (launch.idx + 1) * BlocksPerSplit(launch, launch.num) - 1}

\* When a warp of the backward kernel is done, the blocks of queries that gave dV
\* and dK hold every pair the masks keep, once; dQ was added for the same blocks,
\* each at its own rows and with its own lse and dPsum, although the pointers
\* move by one block per iteration and a skipped tile computes nothing.
BackwardCountsEachPairOnce ==
  \A w \in Warps :
    launch.kernel = "bwd" /\ Finished(w) =>
      LET n == launch.block
          All(out) == {i \in DOMAIN emitted[w] : emitted[w][i].out = out}
          Blocks(out) == {emitted[w][i].tile : i \in All(out)}
      IN  /\ \A out \in {"dQ", "dK", "dV"} : Cardinality(All(out)) = Cardinality(Blocks(out))
          /\ \A out \in {"dQ", "dK", "dV"} :
               UNION {Differentiated(launch, m, n) : m \in Blocks(out)}
               = {p \in (0 .. launch.sq - 1) \X ColsOf(launch, n) :
                    Attends(launch, p[1], p[2]) /\ ~ SharesBit(launch, p[1], p[2])}
          /\ \A i \in All("dQ") :
               /\ emitted[w][i].at = emitted[w][i].tile
               /\ emitted[w][i].stats = emitted[w][i].tile
               /\ emitted[w][i].zero => Differentiated(launch, emitted[w][i].tile, n) = {}

\* A load that checks no bounds (Is_even_MN = true) stays inside its tensor, and
\* an operand of a product whose factor may be zero is never left holding what
\* shared memory held before, which could be NaN: everywhere but in the forward
\* Q and K, whose scores are masked or not stored, the rest of the tile is cleared.
InBounds(l, load) ==
  LET queries == load.tile.name \in {"Q", "dO"}
      whole == IF queries THEN (load.tile.at + 1) * l.M <= l.sq
                          ELSE (load.tile.at + 1) * l.N <= l.sk
  IN  /\ load.tile.at >= 0
      /\ load.bounds = "all" => whole
      /\ load.bounds = "skip" => whole \/ (l.kernel # "bwd" /\ load.tile.name \in {"Q", "K"})

\* Every load a warp comes to, in whatever iteration, keeps these bounds.
LoadsInBounds ==
  \A w \in Warps :
    ~ Finished(w) /\ Next_(w).op = "load" => InBounds(launch, Next_(w))

=============================================================================
