------------------------ MODULE MCForwardScheduler ------------------------
(***************************************************************************)
(* ForwardScheduler over the refinement tree of a small call: chunks of a  *)
(* (3, {0, 1}) decomposition, refined at most once.  A subproblem is named *)
(* by its path.  Pairs are taken up to the one leaf that keeps them, which *)
(* RefinementTree's PairCoverage and ChildrenPartition allow.              *)
(***************************************************************************)
EXTENDS ForwardSchedulerInv

Chunks == 0 .. 2
Tops   == {<<i>> : i \in Chunks}
Leafs  == {<<i, j>> : i, j \in Chunks}
Tasks  == Tops \cup Leafs

KeepOf    == [t \in Tasks |-> {l \in Leafs : IsPrefix(t, l)}]
KinOf     == {p \in Tasks \X Tasks : IsPrefix(p[1], p[2]) \/ IsPrefix(p[2], p[1])}
DepthOf   == [t \in Tasks |-> Len(t)]
TopLevel  == << <<0>>, <<1>>, <<2>> >>
RefinedTo ==
  [t \in Tasks |-> IF t \in Tops THEN [j \in 1 .. 3 |-> Append(t, j - 1)] ELSE <<>>]

Anywhere == Tasks \X (1 .. NPar)
\* Memory runs out unless a subproblem of the second level runs alone.
Shallow  == {p \in Anywhere : Len(p[1]) < 2 \/ p[2] > 1}

=============================================================================
