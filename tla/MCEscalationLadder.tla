------------------------- MODULE MCEscalationLadder -------------------------
(***************************************************************************)
(* EscalationLadder with the production constants, N = 16807 (depth cap 5): *)
(* c = 7, 4 streams, memory that holds one subproblem of the deepest level. *)
(* The first rungs are not enough: their budget ends them. The planner     *)
(* starts at up to 3; attention_oom_safe is given max_itr = 3.             *)
(***************************************************************************)
EXTENDS EscalationLadder

CallAt(d) == [itr |-> d, initial |-> 7 ^ d]
SomeCalls == {CallAt(d) : d \in 0 .. 4}
ByDepth == << {CallAt(1)}, {CallAt(2)}, {CallAt(3)} >>
Planned == << {CallAt(d) : d \in 0 .. 3}, {CallAt(2)}, {CallAt(3)}, {CallAt(4)} >>

OnlyDeepestFits ==
  {p \in (0 .. DepthCap) \X (1 .. NPar) : p[1] < DepthCap \/ p[2] > 1}
\* The deepest level alone may fail, too.
NothingIsCertain == OnlyDeepestFits \cup {<<DepthCap, 1>>}

=============================================================================
