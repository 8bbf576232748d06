-------------------------- MODULE EscalationLadder --------------------------
(***************************************************************************)
(* The two ladders around a call (oom_fallback.py). attention_oom_safe     *)
(* tries the ordinary path and then one depth after the other;             *)
(* stream_cqsa_auto walks ESCALATION, whose first rung leaves the depth to *)
(* the planner. Each attempt is a call of its own, with its own            *)
(* accumulator and its own recovery (RecoveryLoop), so the levels a call   *)
(* refined to are tried again by the next. Where the inputs and the        *)
(* accumulator lie is left out: the depth is what the rungs differ by once *)
(* the inputs are on the host.                                             *)
(***************************************************************************)
EXTENDS RecoveryLoop

CONSTANTS   \* for each rung the calls it may make: one, or as the planner chooses
  SafeRungs,   \* attention_oom_safe: itr = 1 .. max_itr
  AutoRungs    \* stream_cqsa_auto: ESCALATION

ASSUME RungsAreCalls ==
  /\ SafeRungs \in Seq(SUBSET Calls) /\ SafeRungs # <<>>
  /\ AutoRungs \in Seq(SUBSET Calls) /\ AutoRungs # <<>>

VARIABLES
  ladder,  \* which of the two the caller called
  rung,    \* the rung that is tried; 0: the ordinary path
  answer   \* what the caller gets: "pending" until then

ladderVars == <<vars, ladder, rung, answer>>

Rungs == IF ladder = "safe" THEN SafeRungs ELSE AutoRungs

LadderInit ==
  /\ Init
  /\ ladder \in {"safe", "auto"}
  /\ rung \in {0, 1}                  \* tensors on the host have no ordinary path,
  /\ ladder = "auto" => rung = 1      \* and stream_cqsa_auto does not try it
  /\ call \in Rungs[1]
  /\ answer = "pending"

\* stream_cqsa_forward is called anew.
Attempt(r) ==
  /\ rung' = r
  /\ call' \in Rungs[r]
  /\ depths' = Copies(call'.initial, call'.itr)
  /\ streams' = NPar
  /\ retries' = 0
  /\ outcome' = "running"
  /\ UNCHANGED <<ladder, answer>>

Primary ==
  /\ rung = 0 /\ answer = "pending"
  /\ \/ answer' \in {"primary", "error"} /\ UNCHANGED <<vars, ladder, rung>>
     \/ Attempt(1)

\* itr = 0: flash_attn_func once, outside of any recovery.
Monolithic ==
  /\ outcome = "running"
  /\ outcome' \in {"returned", "setup", "error"}
  /\ UNCHANGED <<call, depths, streams, retries>>

Inside ==
  /\ rung > 0 /\ answer = "pending"
  /\ IF call.itr = 0 THEN Monolithic ELSE Next
  /\ UNCHANGED <<ladder, rung, answer>>

\* _is_oom: every way in which memory ends a call says "out of memory", the refusal
\* to go on after a torn merge as well. What stream_cqsa_auto does with the result
\* is inside its try: bringing it to the caller's device may run out of memory, too.
OutOfMemory ==
  \/ outcome \in {"setup", "capped", "budget", "torn", "undelivered"}
  \/ outcome = "returned" /\ ladder = "auto"

Escalate ==
  /\ answer = "pending" /\ rung \in 1 .. Len(Rungs) - 1
  /\ OutOfMemory
  /\ Attempt(rung + 1)

\* The last rung has no next; any other error is raised as it is, and so is every
\* error of attention_oom_safe's last transfer, which is behind its loop.
Deliver ==
  /\ answer = "pending" /\ rung > 0
  /\ \/ outcome = "returned" /\ answer' \in {"answered", "error"}
     \/ outcome \in {"error", "undelivered"} /\ answer' = "error"
     \/ OutOfMemory /\ rung = Len(Rungs) /\ answer' = "exhausted"
  /\ UNCHANGED <<vars, ladder, rung>>

LadderNext == Primary \/ Inside \/ Escalate \/ Deliver

LadderSpec == LadderInit /\ [][LadderNext]_ladderVars /\ WF_ladderVars(LadderNext)

-----------------------------------------------------------------------------

\* A call whose retry budget ends an attempt is not lost: the ladder always ends,
\* and when it ends exhausted it was not the budget that stopped the last rung, but
\* memory where no depth helps: in a setup, a commit or the result, or for one
\* subproblem of the deepest level alone.
Survives == <>(answer # "pending" /\ (answer = "exhausted" => outcome # "budget"))

=============================================================================
