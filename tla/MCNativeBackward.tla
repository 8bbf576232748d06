-------------------------- MODULE MCNativeBackward --------------------------
(* NativeBackward over a (3, {0, 1}) decomposition: the whole call, three   *)
(* subproblems, nine.  Pairs are taken up to the leaf that keeps them.      *)
EXTENDS NativeBackward

Leafs == {<<i, j>> : i, j \in 0 .. 2}
Tasks3 == {<<>>} \cup {<<i>> : i \in 0 .. 2} \cup Leafs
KeepOf == [t \in Tasks3 |-> {l \in Leafs : IsPrefix(t, l)}]
DepthOf == [t \in Tasks3 |-> Len(t)]
RefinedTo ==
  [t \in Tasks3 |-> IF t \in Leafs THEN <<>> ELSE [j \in 1 .. 3 |-> Append(t, j - 1)]]

Lists == [d \in 0 .. 2 |->
  CASE d = 0 -> << <<>> >>
    [] d = 1 -> [i \in 1 .. 3 |-> <<i - 1>>]
    [] d = 2 -> [i \in 1 .. 9 |-> <<(i - 1) \div 3, (i - 1) % 3>>]]

Anywhere == (0 .. 2) \X (1 .. MaxParallel)

=============================================================================
