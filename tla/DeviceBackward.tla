--------------------------- MODULE DeviceBackward ---------------------------
(***************************************************************************)
(* The backward on device tensors (the second half of stream_cqsa_backward, *)
(* stable_stream.py): one stream, one subproblem at a time.  A subproblem  *)
(* that does not fit is replaced by its children.  Its gradients go into   *)
(* three accumulators by three additions, and only before the first of     *)
(* them may it be run again.                                               *)
(***************************************************************************)
EXTENDS Integers, SequencesExt

CONSTANTS
  Task, NoTask, Pairs, Keep, Depth, ChildrenOf,   \* as in ForwardScheduler
  TasksAt,          \* TasksAt[d]: the task list of build_tasks at depth d
  Starts,           \* the depths the caller may ask for
  DepthCap,         \* max_depth_for(N, c)
  BaseRetries, RetriesPerTask,  \* the 64 and the 16 of retry_budget
  AllowEscalation   \* allow_escalation

Gradient == {"dq", "dk", "dv"}

VARIABLES
  todo,      \* pending
  hand,      \* the subproblem being run
  at,        \* how far it has come
  initial,   \* the number of subproblems at the start, which the budget is made of
  tries,     \* retries
  grad,      \* grad[g][t]: how often t's contribution is in accumulator g
  half,      \* nonlocal_dirty
  ending     \* how the call ended

vars == <<todo, hand, at, initial, tries, grad, half, ending>>

Init ==
  /\ \E d \in Starts : todo = TasksAt[d]
  /\ initial = Len(todo)
  /\ hand = NoTask
  /\ at = "setup"
  /\ tries = 0
  /\ grad = [g \in Gradient |-> [t \in Task |-> 0]]
  /\ half = FALSE
  /\ ending = "running"

AtLeastOne(n) == IF n > 1 THEN n ELSE 1

RetryBudget == BaseRetries + RetriesPerTask * AtLeastOne(initial) * AtLeastOne(DepthCap)

\* The accumulators are allocated before the loop, where nothing is caught.
Setup ==
  /\ at = "setup"
  /\ \/ at' = "pop" /\ UNCHANGED ending
     \/ at' = "end" /\ ending' = "setup"
  /\ UNCHANGED <<todo, hand, initial, tries, grad, half>>

Pop ==
  /\ at = "pop" /\ todo # <<>>
  /\ hand' = Head(todo)
  /\ todo' = Tail(todo)
  /\ at' = "compute"
  /\ UNCHANGED <<initial, tries, grad, half, ending>>

\* The gathers, the kernel, and the casts of all three gradients.
Compute ==
  /\ at = "compute"
  /\ at' = "dq"
  /\ UNCHANGED <<todo, hand, initial, tries, grad, half, ending>>

\* index_add_ into g, before what comes next.
Add(g, after) ==
  /\ at = g
  /\ grad' = [grad EXCEPT ![g][hand] = @ + 1]
  /\ at' = after
  /\ hand' = IF after = "pop" THEN NoTask ELSE hand
  /\ UNCHANGED <<todo, initial, tries, half, ending>>

Commit == Add("dq", "dk") \/ Add("dk", "dv") \/ Add("dv", "pop")

\* An addition that fails once the first one was made.
Begun == at \in {"dk", "dv"} \/ half

\* Memory runs out in an allocation, or an addition reports that it did.
RunOut ==
  /\ at \in {"compute"} \cup Gradient
  /\ half' = Begun
  /\ at' = "oom"
  /\ UNCHANGED <<todo, hand, initial, tries, grad, ending>>

\* Any other error goes to the caller.
Fault ==
  /\ at \in {"compute"} \cup Gradient
  /\ at' = "end" /\ ending' = "error"
  /\ UNCHANGED <<todo, hand, initial, tries, grad, half>>

RefuseTorn ==
  /\ at = "oom" /\ half
  /\ at' = "end" /\ ending' = "torn"
  /\ UNCHANGED <<todo, hand, initial, tries, grad, half>>

Refinable == AllowEscalation /\ Depth[hand] < DepthCap /\ tries + 1 <= RetryBudget

GiveUp ==
  /\ at = "oom" /\ ~ half /\ ~ Refinable
  /\ tries' = tries + 1
  /\ at' = "end" /\ ending' = "capped"
  /\ UNCHANGED <<todo, hand, initial, grad, half>>

Split ==
  /\ at = "oom" /\ ~ half /\ Refinable
  /\ tries' = tries + 1
  /\ todo' = ChildrenOf[hand] \o todo
  /\ hand' = NoTask
  /\ at' = "pop"
  /\ UNCHANGED <<initial, grad, half, ending>>

Return ==
  /\ at = "pop" /\ todo = <<>>
  /\ at' = "end" /\ ending' = "returned"
  /\ UNCHANGED <<todo, hand, initial, tries, grad, half>>

Next ==
  \/ Setup \/ Pop \/ Compute \/ Commit \/ RunOut \/ Fault
  \/ RefuseTorn \/ GiveUp \/ Split \/ Return

-----------------------------------------------------------------------------

\* Each gradient that is returned holds every pair exactly once.
GradientsExact ==
  ending = "returned" =>
    \A g \in Gradient, p \in Pairs : \E t \in Task :
      grad[g][t] = 1 /\ {u \in Task : grad[g][u] > 0 /\ p \in Keep[u]} = {t}

=============================================================================
