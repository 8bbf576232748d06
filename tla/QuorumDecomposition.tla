------------------------ MODULE QuorumDecomposition ------------------------
(***************************************************************************)
(* The cyclic quorum decomposition of stream_cqsa/reference.py: how a      *)
(* sequence of N tokens is cut into c chunks, which chunks each of the c   *)
(* subsequences gathers, which pairs of tokens it keeps, and what a        *)
(* further level of decomposition makes of it.                             *)
(*                                                                         *)
(* A subproblem is a record [path, ids, groups].  ids is the sequence of   *)
(* global token ids in local order (build_path_state).  groups is what     *)
(* the int64 bitset of group_bits_for_path encodes: one set of tokens for  *)
(* every bit handed out, so that bits[x] & bits[y] # 0 iff some group      *)
(* holds both x and y.                                                     *)
(***************************************************************************)
EXTENDS Integers, SequencesExt

CONSTANTS
  c,             \* number of chunks of a level (7 in production)
  interest_set   \* offsets gathered by every owner, a sequence (<<0, 1, 3>>)

Chunk   == 0 .. c - 1
Offsets == Range(interest_set)

\* build_tasks' requirement on (c, interest_set): every non-zero residue mod c
\* is the difference of exactly one ordered pair of offsets.
ASSUME PerfectDifferenceSet ==
  /\ c \in Nat \ {0, 1}
  /\ interest_set \in Seq(Nat)
  /\ Offsets \subseteq Chunk
  /\ 0 \in Offsets
  /\ IsInjective(interest_set)
  /\ \A d \in Chunk \ {0} :
       Cardinality({p \in Offsets \X Offsets : (p[1] - p[2]) % c = d}) = 1

-----------------------------------------------------------------------------
(* The layout of a level. *)

(* A definition named as a slip of the one below it is what a plausible     *)
(* mistake in the code would make of it; the properties tell them apart.    *)

\* slip: the ragged tail goes to the first chunk
RaggedFirst(n, align, i) ==
  LET blocks == n \div align
      whole  == (blocks \div c) * align + (IF i < blocks % c THEN align ELSE 0)
  IN  IF i = 0 THEN whole + (n % align) ELSE whole

AlignedSize(n, align, i) ==
  LET blocks == n \div align
      whole  == (blocks \div c) * align + (IF i < blocks % c THEN align ELSE 0)
  IN  IF i = c - 1 THEN whole + (n % align) ELSE whole

\* slip: the remainder is dropped
EvenRounded(n, i) == n \div c

EvenSize(n, i) == n \div c + (IF i < n % c THEN 1 ELSE 0)

\* chunk_layout: sizes of the c chunks of n tokens.
ChunkSize(n, align) ==
  [i \in Chunk |-> IF align <= 1 THEN EvenSize(n, i) ELSE AlignedSize(n, align, i)]

ChunkStart(n, align) ==
  LET start[i \in Chunk] ==
        IF i = 0 THEN 0 ELSE start[i - 1] + ChunkSize(n, align)[i - 1]
  IN  start

\* The tokens of chunk k of a local sequence, in local order.
Segment(ids, align, k) ==
  LET first == ChunkStart(Len(ids), align)[k]
  IN  SubSeq(ids, first + 1, first + ChunkSize(Len(ids), align)[k])

\* quorum_chunks, in gather order.
QuorumChunks(owner) == [i \in DOMAIN interest_set |-> (owner + interest_set[i]) % c]

\* The numbers of a finite set in increasing order.
Ascending(S) ==
  [i \in 1 .. Cardinality(S) |-> CHOOSE x \in S : Cardinality({y \in S : y < x}) = i - 1]

GatherOrder(owner, sorted) ==
  IF sorted THEN Ascending(Range(QuorumChunks(owner))) ELSE QuorumChunks(owner)

-----------------------------------------------------------------------------
(* Subproblems. *)

Root(n) == [path |-> <<>>, ids |-> [i \in 1 .. n |-> i - 1], groups |-> {}]

\* slip: only the last level's bits
NothingInherited(groups, tokens) == {}

\* slip: the parent's bits are not gathered along
AllInherited(groups, tokens) == groups

\* group_bits_for_path: the bits of the earlier levels, gathered with the tokens.
Inherited(groups, tokens) == {g \cap tokens : g \in groups}

\* quorum_non_self: the gathered chunks that receive a bit of the level.
NonSelf(order, owner) == {k \in DOMAIN order : order[k] # owner}

\* One iteration of the loop of build_path_state, with the bits that
\* group_bits_for_path hands out for that level.
Child(t, owner, sorted, align) ==
  LET order    == GatherOrder(owner, sorted)
      segments == [i \in DOMAIN order |-> Segment(t.ids, align, order[i])]
      gathered == FlattenSeq(segments)
      foreign  == {Range(segments[i]) : i \in NonSelf(order, owner)}
      earlier  == Inherited(t.groups, Range(gathered))
  IN  [path   |-> Append(t.path, owner),
       ids    |-> gathered,
       groups |-> (earlier \cup foreign) \ {{}}]

\* build_path_state and group_bits_for_path: the subproblem at the end of a path.
AtPath(n, path, sorted, align) ==
  LET walk[k \in 0 .. Len(path)] ==
        IF k = 0 THEN Root(n) ELSE Child(walk[k - 1], path[k], sorted, align)
  IN  walk[Len(path)]

\* refine_task: the children of t, an empty one left out, in index order.
Children(t, sorted, align) ==
  LET owners == Ascending({o \in Chunk : Child(t, o, sorted, align).ids # <<>>})
  IN  [i \in DOMAIN owners |-> Child(t, owners[i], sorted, align)]

\* dense_keep_mask_for_path: the global pairs (query, key) a subproblem keeps.
Masked(t, x, y) == \E g \in t.groups : x \in g /\ y \in g

Kept(t, causal) ==
  {p \in Range(t.ids) \X Range(t.ids) :
     /\ ~ Masked(t, p[1], p[2])
     /\ causal => p[2] <= p[1]}

\* The target of check_pair_coverage.
Target(n, causal) == {p \in (0 .. n - 1) \X (0 .. n - 1) : causal => p[2] <= p[1]}

\* all_paths and build_tasks: the leaves of a uniform decomposition.
Leaves(n, itr, sorted, align) ==
  {t \in {AtPath(n, path, sorted, align) : path \in [1 .. itr -> Chunk]} : t.ids # <<>>}

\* c ** k: the chunks that k levels make.
Power(k) ==
  LET power[i \in 0 .. k] == IF i = 0 THEN 1 ELSE c * power[i - 1]
  IN  power[k]

\* slip: one level too many
OneDeeper(n) ==
  IF n = 0 THEN 0 ELSE CHOOSE k \in 1 .. n + 1 : Power(k - 1) <= n /\ n < Power(k)

\* max_depth_for: the deepest level refinement is allowed to reach.
MaxDepth(n) ==
  IF n = 0 THEN 0 ELSE CHOOSE k \in 0 .. n : Power(k) <= n /\ n < Power(k + 1)

\* segment_block_base: the global row at which every aligned block starts.
BlockBase(t, align) ==
  [b \in 0 .. (Len(t.ids) + align - 1) \div align - 1 |-> t.ids[b * align + 1]]

=============================================================================
