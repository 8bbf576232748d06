---------------------------- MODULE RecoveryLoop ----------------------------
(***************************************************************************)
(* What the loop of stream_cqsa_forward (stable_stream.py) promises of     *)
(* out-of-memory recovery, seen from its counters alone: a subproblem is   *)
(* its depth, running it either succeeds or runs out of memory, and a      *)
(* failure is answered by half the streams, or, once a single stream is    *)
(* left, by the subproblem's children one level deeper.  ForwardScheduler  *)
(* implements it; here the number of subproblems, the depth bound and the  *)
(* budget can take the values they have in production.                    *)
(***************************************************************************)
EXTENDS Integers, SequencesExt

CONSTANTS
  Calls,            \* the calls there may be, as [itr, initial]: the depth a call
                    \* starts at, and the number of subproblems build_tasks returns
  Arities,          \* how many children with tokens a subproblem may have
  DepthCap,         \* max_depth_for(N, c)
  NPar,             \* n_par
  BaseRetries,      \* the 64 and the 16 of oom_retry_budget
  RetriesPerTask,
  AllowEscalation,  \* allow_escalation
  MayFail,          \* the <<depth, streams>> at which memory may run out
  MustFail          \* those at which it always does

ASSUME LoopParameters ==
  /\ Calls \subseteq [itr : Nat, initial : Nat]
  /\ {DepthCap, BaseRetries, RetriesPerTask} \subseteq Nat
  /\ NPar \in Nat \ {0}
  /\ Arities \subseteq Nat
  /\ AllowEscalation \in BOOLEAN
  /\ MustFail \subseteq MayFail

VARIABLES
  call,     \* the call
  depths,   \* the depths of the subproblems still to complete, in order
  streams,  \* len(streams)
  retries,  \* info["oom_retries"]
  outcome   \* how the call ended

vars == <<call, depths, streams, retries, outcome>>

AtLeastOne(n) == IF n > 1 THEN n ELSE 1

\* slip: the fixed limit of an earlier version
FixedBudget == BaseRetries

\* oom_retry_budget
RetryBudget == BaseRetries + RetriesPerTask * AtLeastOne(call.initial) * AtLeastOne(DepthCap)

Copies(n, d) == [i \in 1 .. n |-> d]

Init ==
  /\ call \in Calls
  /\ depths = Copies(call.initial, call.itr)
  /\ streams = NPar
  /\ retries = 0
  /\ outcome = "running"

Running == outcome = "running" /\ depths # <<>>
Load    == <<Head(depths), streams>>

RunOne ==
  /\ Running
  /\ Load \notin MustFail
  /\ depths' = Tail(depths)
  /\ UNCHANGED <<call, streams, retries, outcome>>

\* The test at the end of the handler.
CountRetry ==
  /\ retries' = retries + 1
  /\ outcome' = IF retries' > RetryBudget THEN "budget" ELSE outcome

LowerConcurrency ==
  /\ Running
  /\ Load \in MayFail
  /\ streams > 1
  /\ streams' = streams \div 2
  /\ CountRetry
  /\ UNCHANGED <<call, depths>>

\* slip: one level past the bound
RefinableAtCap == AllowEscalation /\ Head(depths) <= DepthCap

Refinable == AllowEscalation /\ Head(depths) < DepthCap

\* refine_task leaves out children without tokens.
Deepen ==
  /\ Running
  /\ Load \in MayFail
  /\ streams = 1
  /\ Refinable
  /\ \E n \in Arities : depths' = Copies(n, Head(depths) + 1) \o Tail(depths)
  /\ CountRetry
  /\ UNCHANGED <<call, streams>>

\* The depth bound is reached, or escalation is disabled.
Capped ==
  /\ Running
  /\ Load \in MayFail
  /\ streams = 1
  /\ ~ Refinable
  /\ retries' = retries + 1
  /\ outcome' = "capped"
  /\ UNCHANGED <<call, depths, streams>>

\* A failure of the setup, of a merge's commit, or not of memory at all.
Raise ==
  /\ outcome = "running"
  /\ outcome' \in {"setup", "torn", "error"}
  /\ UNCHANGED <<call, depths, streams, retries>>

\* The result is made of the accumulator and brought to the device, which may fail.
Finish ==
  /\ outcome = "running" /\ depths = <<>>
  /\ outcome' \in {"returned", "undelivered"}
  /\ UNCHANGED <<call, depths, streams, retries>>

Next == RunOne \/ LowerConcurrency \/ Deepen \/ Capped \/ Raise \/ Finish

Spec == Init /\ [][Next]_vars

-----------------------------------------------------------------------------

\* The depths refinement may reach.
AdmissibleDepth == {d \in Nat : d = call.itr \/ d <= DepthCap}

TypeOK ==
  /\ call \in Calls
  /\ depths \in Seq(AdmissibleDepth)
  /\ streams \in 1 .. NPar
  /\ retries \in 0 .. RetryBudget + 1
  /\ outcome = "running" => retries <= RetryBudget
  /\ outcome \in {"running", "returned", "setup", "capped", "budget", "torn", "error",
                  "undelivered"}

=============================================================================
