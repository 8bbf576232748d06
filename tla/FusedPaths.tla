----------------------------- MODULE FusedPaths -----------------------------
(***************************************************************************)
(* The decomposition a second time: the fused operator of the CUDA         *)
(* extension computes it in C++ (build_path_state_and_group_bits in        *)
(* flash_api.cpp), with its own layout and its own bookkeeping. It walks   *)
(* the path with the label every token had at each level, and only at the  *)
(* end turns labels into bits, one for every set of positions not seen     *)
(* before. Here it is compared with reference.py's.                        *)
(***************************************************************************)
EXTENDS RefinementTree

\* compute_chunk_layout_front: the positions of chunk k of len tokens, in order.
FrontChunk(len, k) ==
  LET q == len \div c
      r == len % c
      first == k * q + (IF k < r THEN k ELSE r)
  IN  [i \in 1 .. q + (IF k < r THEN 1 ELSE 0) |-> first + i]

\* cqs_quorum_for_subseq
FusedQuorum(owner) == [j \in DOMAIN interest_set |-> (owner + interest_set[j]) % c]

\* gather_idx: the positions the owner's chunks have, chunk after chunk.
Gathered(len, owner) ==
  FlattenSeq([j \in DOMAIN interest_set |-> FrontChunk(len, FusedQuorum(owner)[j])])

\* labels_cur: the chunk a position lies in.
LabelOf(len, pos) == CHOOSE k \in Chunk : pos \in Range(FrontChunk(len, k))

\* slip: the labels of the earlier levels stay in the order they had
KeptInPlace(labels, gather) == [i \in DOMAIN gather |-> labels[i]]

Reordered(labels, gather) == [i \in DOMAIN gather |-> labels[gather[i]]]

\* One level: the tokens are gathered, and every level's labels along with them.
\* Once there is no token left the walk stops.
FusedStep(w, owner) ==
  LET len == Len(w.ids)
      gather == Gathered(len, owner)
  IN  IF len = 0 THEN w
      ELSE [ids |-> [i \in DOMAIN gather |-> w.ids[gather[i]]],
            owners |-> Append(w.owners, owner),
            labels |-> Append([h \in DOMAIN w.labels |-> Reordered(w.labels[h], gather)],
                              [i \in DOMAIN gather |-> LabelOf(len, gather[i])])]

FusedWalk(len, path) ==
  LET walk[k \in 0 .. Len(path)] ==
        IF k = 0 THEN [ids |-> [i \in 1 .. len |-> i - 1], owners |-> <<>>, labels |-> <<>>]
        ELSE FusedStep(walk[k - 1], path[k])
  IN  walk[Len(path)]

\* The positions whose label at the level is the chunk (runs).
Labelled(labels, chunk) == {i \in DOMAIN labels : labels[i] = chunk}

\* The bits of one level, a bit being the set of the positions that have it: one
\* for every gathered chunk but the owner's own.
LevelGroups(labels, owner) ==
  {Labelled(labels, chunk) : chunk \in Range(FusedQuorum(owner)) \ {owner}}

\* group_bits: no bit without a position, and none a second time (seen_groups).
FusedGroups(w) ==
  (UNION {LevelGroups(w.labels[h], w.owners[h]) : h \in DOMAIN w.labels}) \ {{}}

\* The pairs of tokens the kernel keeps: those of positions without a common bit.
FusedKept(w) ==
  LET groups == FusedGroups(w)
      SameBit(i, j) == \E g \in groups : i \in g /\ j \in g
  IN  {<<w.ids[p[1]], w.ids[p[2]]>> :
         p \in {q \in (DOMAIN w.ids) \X (DOMAIN w.ids) : ~ SameBit(q[1], q[2])}}

-----------------------------------------------------------------------------

\* The two implementations agree on every subproblem: the same tokens in the same
\* order and the same pairs kept, although one gathers bits and the other labels.
\* The operator takes any num_itr: also one level deeper than max_depth_for lets
\* the scheduler go, where chunks and whole paths are empty, every pair is kept by
\* exactly one path.
FusedPathsAgree ==
  ~ sorted /\ align = 1 =>
    /\ LET w == FusedWalk(n, task.path)
       IN  w.ids = task.ids /\ FusedKept(w) = Kept(task, FALSE)
    /\ task.path = <<>> /\ MaxDepth(n) < 2 =>
         LET deeper == [1 .. MaxDepth(n) + 1 -> Chunk]
             kept == [path \in deeper |-> FusedKept(FusedWalk(n, path))]
         IN  \A p \in Target(n, FALSE) : Cardinality({path \in deeper : p \in kept[path]}) = 1

=============================================================================
