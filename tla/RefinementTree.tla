--------------------------- MODULE RefinementTree ---------------------------
(***************************************************************************)
(* Walks the tree of subproblems that refine_task can produce below one    *)
(* attention call, so that what the docstrings of build_path_state,        *)
(* refine_task and segment_block_base promise of EVERY subproblem is       *)
(* checked at every node that recovery can reach.                          *)
(***************************************************************************)
EXTENDS QuorumDecomposition

CONSTANTS
  Lengths,   \* the numbers of tokens N a call may have
  Aligns     \* the values of seg_align (1: no alignment)

ASSUME LengthsAreNat == Lengths \subseteq Nat \ {0} /\ Aligns \subseteq Nat \ {0}

VARIABLES
  n, sorted, align,   \* the arguments of the call, fixed
  task                \* the subproblem at hand

treeVars == <<n, sorted, align, task>>

TreeInit ==
  /\ n \in Lengths
  /\ sorted \in BOOLEAN
  /\ align \in Aligns
  /\ task = Root(n)

\* The scheduler replaces the subproblem at hand by its children; follow one.
Refine ==
  /\ Len(task.path) < MaxDepth(n)
  /\ \E kid \in Range(Children(task, sorted, align)) : task' = kid
  /\ UNCHANGED <<n, sorted, align>>

TreeNext == Refine

TreeSpec == TreeInit /\ [][TreeNext]_treeVars

-----------------------------------------------------------------------------

\* With sorted_gather the token ids come out increasing at every level, so that a
\* local lower-triangular mask is the global causal mask (build_path_state).
TreeTypeOK ==
  /\ n \in Lengths
  /\ sorted \in BOOLEAN
  /\ align \in Aligns
  /\ task.path \in Seq(Chunk)
  /\ task.ids \in Seq(0 .. n - 1)
  /\ IsInjective(task.ids)
  /\ sorted => \A i, j \in DOMAIN task.ids : i < j => task.ids[i] < task.ids[j]
  /\ \A g \in task.groups : g # {} /\ g \subseteq Range(task.ids)

\* refine_task: the children's kept pairs partition exactly the parent's, so
\* that replacing a task by its children mid-run neither loses nor doubles a
\* pair, whatever the layout, the gather order and the depth.
ChildrenPartition ==
  LET kids == Children(task, sorted, align)
      kept == [i \in DOMAIN kids |-> Kept(kids[i], FALSE)]
  IN  /\ UNION Range(kept) = Kept(task, FALSE)
      /\ \A i, j \in DOMAIN kids : i # j => kept[i] \cap kept[j] = {}

\* check_pair_coverage: under uniform decomposition at any admissible depth
\* every target pair is kept by exactly one leaf that build_tasks returns, and
\* no leaf keeps a pair outside the target.
PairCoverage ==
  task.path = <<>> =>
    \A itr \in 0 .. MaxDepth(n), causal \in BOOLEAN :
      LET leaves == Leaves(n, itr, sorted, align)
      IN  /\ \A t \in leaves : Kept(t, causal) \subseteq Target(n, causal)
          /\ \A p \in Target(n, causal) :
               Cardinality({t \in leaves : p \in Kept(t, causal)}) = 1

\* segment_block_base: once chunks are aligned, no aligned block of the local
\* sequence straddles a run boundary, so a base row per block locates every row.
BlockBaseExact ==
  sorted /\ task.path # <<>> =>
    \A r \in 0 .. Len(task.ids) - 1 :
      task.ids[r + 1] = BlockBase(task, align)[r \div align] + (r % align)

\* refine_task as a recovery step: a child is never larger than the task it takes
\* the place of, and it is strictly smaller, so that refining lowers the working
\* set that did not fit, without alignment as long as the depth cap lets the task be
\* refined, and with it as long as the task has more whole blocks than a quorum has
\* chunks. A shorter aligned task may come back as it was: its blocks do not reach
\* beyond the chunks of one quorum.
RefinementShrinks ==
  \A kid \in Range(Children(task, sorted, align)) :
    /\ Len(kid.ids) <= Len(task.ids)
    /\ align = 1 /\ Len(task.path) < MaxDepth(n) => Len(kid.ids) < Len(task.ids)
    /\ Len(task.ids) \div align > Len(interest_set) => Len(kid.ids) < Len(task.ids)

=============================================================================
