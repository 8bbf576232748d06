--------------------------- MODULE KernelMachine ---------------------------
(***************************************************************************)
(* One thread block (CTA) of a CUDA kernel, as the kernels of              *)
(* src/csrc/flash_attn/src use it: warps that run the code of the kernel,  *)
(* each at its own pace, over shared memory that is filled by cp.async.    *)
(* The machine itself is external (CUDA and CuTe).                         *)
(*                                                                         *)
(* Shared memory is a set of places; a buffer of the kernel occupies one   *)
(* or more of them, and two buffers may share one. A place is cut in cells *)
(* <<c, r>>: warp c copies it from global memory, warp r computes with its *)
(* rows. An asynchronous copy is over only when the warp that issued it    *)
(* has waited for its group: until then its cells hold no data.            *)
(***************************************************************************)
EXTENDS Integers, Sequences, SequencesExt

CONSTANTS
  Warps,     \* the warps of the CTA
  Launches,  \* what may be launched: records with the fields the code reads
  Code(_, _),     \* Code(l, w): the instructions warp w runs in launch l
  Places(_, _),   \* Places(l, buf): the places buffer buf occupies in launch l
  AllPlaces       \* every place

VARIABLES
  launch,   \* what was launched
  code,     \* the instructions of each warp
  pc,       \* the next instruction of each warp
  smem,     \* what each cell of each place holds
  open,     \* the copies each warp has issued since its last commit
  groups,   \* the copies each warp has committed and not waited for
  barrier,  \* how many barriers each warp has arrived at
  emitted   \* what each warp has computed, in order

vars == <<launch, code, pc, smem, open, groups, barrier, emitted>>

-----------------------------------------------------------------------------
(* Tiles and instructions.                                                 *)

Tile(name, i) == [name |-> name, at |-> i]

Nothing == Tile("nothing", 0)
InFlight == Tile("in flight", 0)   \* a copy was issued and not waited for
Torn == Tile("torn", 0)            \* two writers met

\* copy(gmem_tiled_copy, ...): bounds is "all" when every row is loaded unasked
\* (Is_even_MN = true), "skip" when rows out of bounds keep what smem held,
\* "clear" when they are zeroed (Clear_OOB_MN).
Load(buf, tile, bounds) == [op |-> "load", buf |-> buf, tile |-> tile, bounds |-> bounds]
Commit == [op |-> "commit"]                             \* cp_async_fence
Wait(n) == [op |-> "wait", n |-> n]                     \* cp_async_wait<n>
Sync == [op |-> "sync"]                                 \* __syncthreads
Use(buf, tile) == [op |-> "use", buf |-> buf, tile |-> tile]          \* read all of it
UseRows(buf, tile) == [op |-> "userows", buf |-> buf, tile |-> tile]  \* read the warp's rows
Fetch(buf, tile) == [op |-> "fetch", buf |-> buf, tile |-> tile]      \* read the warp's copy share
Put(buf, tile) == [op |-> "put", buf |-> buf, tile |-> tile]          \* write the warp's rows
Emit(what) == [op |-> "emit", what |-> what]                          \* compute from registers

Cells == Warps \X Warps

CopyShare(w) == {w} \X Warps
Rows(w) == Warps \X {w}

\* The cells an instruction of warp w touches.
Touched(w, ins) ==
  CASE ins.op = "use" -> Cells
    [] ins.op \in {"userows", "put"} -> Rows(w)
    [] ins.op \in {"load", "fetch"} -> CopyShare(w)

-----------------------------------------------------------------------------

Init ==
  /\ launch \in Launches
  /\ code = [w \in Warps |-> Code(launch, w)]
  /\ pc = [w \in Warps |-> 1]
  /\ smem = [p \in AllPlaces |-> [x \in Cells |-> Nothing]]
  /\ open = [w \in Warps |-> {}]
  /\ groups = [w \in Warps |-> <<>>]
  /\ barrier = [w \in Warps |-> 0]
  /\ emitted = [w \in Warps |-> <<>>]

Finished(w) == pc[w] > Len(code[w])

\* A warp is held at the barrier it arrived at until all the others are there.
Ready(w) ==
  /\ ~ Finished(w)
  /\ \A v \in Warps : barrier[v] >= barrier[w]

Next_(w) == code[w][pc[w]]

\* The cells of buf that warp w's instruction writes get the tile; a cell that
\* another copy is still filling is torn.
Written(w, ins, value) ==
  [p \in AllPlaces |->
     IF p \notin Places(launch, ins.buf) THEN smem[p]
     ELSE [x \in Cells |-> IF x \notin Touched(w, ins) THEN smem[p][x]
                           ELSE IF smem[p][x] \in {InFlight, Torn} THEN Torn
                           ELSE value]]

\* The copies of the groups a wait completes arrive.
Arrived(w, done) ==
  [p \in AllPlaces |->
     [x \in Cells |->
        IF x \in CopyShare(w) /\ \E l \in done : p \in Places(launch, l.buf)
        THEN IF smem[p][x] = InFlight
             THEN (CHOOSE l \in done : p \in Places(launch, l.buf)).tile
             ELSE Torn
        ELSE smem[p][x]]]

IssueCopy(w) ==
  /\ Next_(w).op = "load"
  /\ smem' = Written(w, Next_(w), InFlight)
  /\ open' = [open EXCEPT ![w] = @ \cup {Next_(w)}]
  /\ UNCHANGED <<groups, barrier, emitted>>

CommitGroup(w) ==
  /\ Next_(w).op = "commit"
  /\ groups' = [groups EXCEPT ![w] = Append(@, open[w])]
  /\ open' = [open EXCEPT ![w] = {}]
  /\ UNCHANGED <<smem, barrier, emitted>>

\* Until at most n of the committed groups are outstanding; copies not yet
\* committed are not waited for.
WaitGroups(w) ==
  /\ Next_(w).op = "wait"
  /\ LET last == Len(groups[w]) - Next_(w).n
     IN  /\ smem' = Arrived(w, UNION {groups[w][i] : i \in 1 .. last})
         /\ groups' = [groups EXCEPT ![w] = SubSeq(@, (IF last < 0 THEN 0 ELSE last) + 1, Len(@))]
  /\ UNCHANGED <<open, barrier, emitted>>

Arrive(w) ==
  /\ Next_(w).op = "sync"
  /\ barrier' = [barrier EXCEPT ![w] = @ + 1]
  /\ UNCHANGED <<smem, open, groups, emitted>>

ReadSmem(w) ==
  /\ Next_(w).op \in {"use", "userows", "fetch"}
  /\ UNCHANGED <<smem, open, groups, barrier, emitted>>

WriteSmem(w) ==
  /\ Next_(w).op = "put"
  /\ smem' = Written(w, Next_(w), Next_(w).tile)
  /\ UNCHANGED <<open, groups, barrier, emitted>>

Compute(w) ==
  /\ Next_(w).op = "emit"
  /\ emitted' = [emitted EXCEPT ![w] = Append(@, Next_(w).what)]
  /\ UNCHANGED <<smem, open, groups, barrier>>

Step(w) ==
  /\ Ready(w)
  /\ \/ IssueCopy(w) \/ CommitGroup(w) \/ WaitGroups(w) \/ Arrive(w)
     \/ ReadSmem(w) \/ WriteSmem(w) \/ Compute(w)
  /\ pc' = [pc EXCEPT ![w] = @ + 1]
  /\ UNCHANGED <<launch, code>>

\* The CTA has retired. A CTA in any other state that cannot step is deadlocked.
Retired == /\ \A w \in Warps : Finished(w)
           /\ UNCHANGED vars

Next == (\E w \in Warps : Step(w)) \/ Retired

Spec == Init /\ [][Next]_vars

=============================================================================
