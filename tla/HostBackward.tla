---------------------------- MODULE HostBackward ----------------------------
(***************************************************************************)
(* The streamed backward (_stream_cqsa_backward_host and the retry loop    *)
(* around it in stream_cqsa_backward, stable_stream.py).  The host gathers *)
(* the inputs of a subproblem into the pinned buffers of a slot, a stream  *)
(* computes its gradients and copies them into further pinned buffers, and *)
(* a background thread, or the host itself, adds those into the            *)
(* accumulators once the slot is about to be reused or at the end.  Out of *)
(* memory, the whole call is repeated one level deeper, on fresh           *)
(* accumulators.                                                           *)
(*                                                                         *)
(* An addition reads the accumulators and writes them back later, so two   *)
(* that overlap would lose an update.  On the device (accOnGpu) it is one  *)
(* atomic index_add_ on the slot's stream.                                 *)
(***************************************************************************)
EXTENDS Integers, SequencesExt

CONSTANTS
  Task, NoTask, Pairs, Keep,   \* as in ForwardScheduler
  TasksAt,          \* TasksAt[d]: the task list of build_tasks at depth d
  Starts,           \* the depths the caller may ask for
  DepthCap,         \* max_depth_for(N, c)
  MaxParallel,      \* max_parallel
  Tight,            \* the <<depth, streams>> at which memory may run out
  AllowEscalation   \* allow_escalation

ASSUME BackwardParameters ==
  /\ NoTask \notin Task
  /\ DepthCap \in Nat /\ Starts \subseteq 0 .. DepthCap
  /\ TasksAt \in [0 .. DepthCap -> Seq(Task)]
  /\ \A d \in 0 .. DepthCap : TasksAt[d] # <<>>
  /\ MaxParallel \in Nat \ {0}
  /\ AllowEscalation \in BOOLEAN

\* Every pair of `whole` is kept by one of the subproblems, and no other pair is.
Shares(tasks, whole) ==
  /\ \A i \in DOMAIN tasks : Keep[tasks[i]] \subseteq whole
  /\ \A p \in whole : \E i \in DOMAIN tasks : p \in Keep[tasks[i]]
  /\ \A i, j \in DOMAIN tasks : i # j => Keep[tasks[i]] \cap Keep[tasks[j]] = {}

\* What build_tasks guarantees the backward (RefinementTree: PairCoverage), at
\* whichever depth: subproblems of different paths, which share the pairs.
ASSUME BackwardTasks ==
  /\ Keep \in [Task -> SUBSET Pairs]
  /\ \A d \in 0 .. DepthCap : IsInjective(TasksAt[d]) /\ Shares(TasksAt[d], Pairs)

Slot == 0 .. MaxParallel - 1

\* slip: one worker for each slot
WorkerPerSlot == Slot

\* "One worker, not a pool: the accumulators are shared mutable state".
Worker == {0}

VARIABLES
  accOnGpu,   \* accumulate_on_gpu, an argument of the call
  useScatter, \* _SCATTER_ASYNC, from the environment
  pc,         \* where the issuing thread is
  depth,      \* depth
  turn,       \* number of subproblems issued in this attempt
  draining,   \* the slots the closing flush has still to retire
  slotState,  \* slotState[s]: the subproblem whose gradients are in flight
  scatter,    \* slot_scatter[s]: the subproblem whose addition was handed over
  outcome,    \* how the call ended
  stageIn,    \* stageIn[s]: the subproblem gathered into the input buffers
  stageOut,   \* stageOut[s]: the subproblem whose gradients fill the output ones
  input,      \* input[s]: the subproblem whose inputs lie on the device for s
  work,       \* work[s]: what is enqueued on stream s
  jobs,       \* what the scatter pool still has to start, and
  adding,     \* adding[w]: <<what w adds, the accumulators it read>>
  acc,        \* acc[t]: how often t's gradients were added in this attempt
  foreign     \* subproblems in whose place other gradients were added

options == <<accOnGpu, useScatter>>
issuer == <<options, pc, depth, turn, draining, slotState, scatter, outcome>>
device == <<stageOut, input, work>>
adders == <<jobs, adding, acc, foreign>>
vars   == <<issuer, stageIn, device, adders>>

Tasks == TasksAt[depth]

\* n_par
NPar == Min({MaxParallel, Len(Tasks)})

\* Whether there is a scatter_pool.
Async == useScatter /\ Len(Tasks) > 1

Fresh ==
  /\ turn = 0 /\ draining = {}
  /\ slotState = [s \in Slot |-> NoTask] /\ scatter = [s \in Slot |-> NoTask]
  /\ stageIn = [s \in Slot |-> NoTask] /\ stageOut = [s \in Slot |-> NoTask]
  /\ input = [s \in Slot |-> NoTask] /\ work = [s \in Slot |-> <<>>]
  /\ jobs = <<>> /\ adding = [w \in Worker |-> <<>>]
  /\ acc = [t \in Task |-> 0]

Init ==
  /\ accOnGpu \in BOOLEAN /\ useScatter \in BOOLEAN
  /\ pc = "setup"
  /\ depth \in Starts
  /\ outcome = "running"
  /\ foreign = {}
  /\ Fresh

-----------------------------------------------------------------------------
(* The issuing thread. *)

TheSlot == turn % NPar
Next1   == Tasks[turn + 1]

MayRunOut == <<depth, NPar>> \in Tight

\* Accumulators, streams and pinned buffers; all of it inside the retry loop.
Setup ==
  /\ pc = "setup"
  /\ pc' = "flush"
  /\ UNCHANGED <<options, depth, turn, draining, slotState, scatter, outcome, stageIn,
                 device, adders>>

\* slip: hand the buffers to the adder before the copy into them has landed
CopyAssumed(s) == TRUE

\* ev.synchronize
CopyLanded(s) == work[s] = <<>>

\* flush: what is in flight in slot s is handed over to the scatter worker, or
\* added by the issuing thread itself.  On the device it was added in line.
HandOver(s) ==
  /\ CopyLanded(s)
  /\ slotState' = [slotState EXCEPT ![s] = NoTask]
  /\ IF accOnGpu \/ slotState[s] = NoTask THEN UNCHANGED <<scatter, adders>>
     ELSE IF Async
       THEN /\ jobs' = Append(jobs, [task |-> slotState[s], slot |-> s])
            /\ scatter' = [scatter EXCEPT ![s] = slotState[s]]
            /\ UNCHANGED <<adding, acc, foreign>>
       ELSE /\ acc' = [acc EXCEPT ![stageOut[s]] = @ + 1]
            /\ foreign' = IF stageOut[s] = slotState[s] THEN foreign
                          ELSE foreign \cup {slotState[s]}
            /\ UNCHANGED <<scatter, jobs, adding>>

Flush ==
  /\ pc = "flush" /\ turn < Len(Tasks)
  /\ HandOver(TheSlot)
  /\ pc' = "join"
  /\ UNCHANGED <<options, depth, turn, draining, outcome, stageIn, device>>

\* slip: wait for the adder to take the slot off the list itself
NeverHandedOver(s) == scatter[s] = NoTask

\* slot_scatter[s].result()
Joined(s) ==
  \/ scatter[s] = NoTask
  \/ /\ \A i \in DOMAIN jobs : jobs[i].slot # s
     /\ \A w \in Worker : adding[w] # <<>> => adding[w][1].slot # s

\* The slot's last addition is over; its input buffers are gathered anew.
JoinAndGather ==
  /\ pc = "join"
  /\ Joined(TheSlot)
  /\ scatter' = [scatter EXCEPT ![TheSlot] = NoTask]
  /\ stageIn' = [stageIn EXCEPT ![TheSlot] = Next1]
  /\ pc' = "issue"
  /\ UNCHANGED <<options, depth, turn, draining, slotState, outcome, device, adders>>

\* Upload, kernel, and the copy back or the addition on the device.
Issue ==
  /\ pc = "issue"
  /\ work' = [work EXCEPT ![TheSlot] = <<"upload", IF accOnGpu THEN "add" ELSE "download">>]
  /\ slotState' = [slotState EXCEPT ![TheSlot] = Next1]
  /\ turn' = turn + 1
  /\ pc' = "flush"
  /\ UNCHANGED <<options, depth, draining, scatter, outcome, stageIn, stageOut, input, adders>>

BeginDrain ==
  /\ pc = "flush" /\ turn = Len(Tasks)
  /\ draining' = 0 .. NPar - 1
  /\ pc' = "drain"
  /\ UNCHANGED <<options, depth, turn, slotState, scatter, outcome, stageIn, device, adders>>

Drain ==
  /\ pc = "drain" /\ draining # {}
  /\ LET s == Min(draining)
     IN  HandOver(s) /\ draining' = draining \ {s}
  /\ UNCHANGED <<options, pc, depth, turn, outcome, stageIn, device>>

\* Every addition is waited for, then the gradients are returned.
Return ==
  /\ pc = "drain" /\ draining = {}
  /\ \A s \in Slot : Joined(s)
  /\ outcome' = "returned"
  /\ pc' = "end"
  /\ UNCHANGED <<options, depth, turn, draining, slotState, scatter, stageIn, device,
                 adders>>

\* An allocation of the setup or of a subproblem fails.
RunOut ==
  /\ pc \in {"setup", "issue"}
  /\ MayRunOut
  /\ pc' = "oom"
  /\ UNCHANGED <<options, depth, turn, draining, slotState, scatter, outcome, stageIn,
                 device, adders>>

\* The retry, one level deeper, with accumulators of its own.  What the failed
\* attempt left on its scatter worker adds to accumulators nobody sees any more.
Deepen ==
  /\ pc = "oom"
  /\ \A s \in Slot : work[s] = <<>>
  /\ AllowEscalation /\ depth < DepthCap
  /\ depth' = depth + 1
  /\ turn' = 0 /\ draining' = {}
  /\ slotState' = [s \in Slot |-> NoTask] /\ scatter' = [s \in Slot |-> NoTask]
  /\ stageIn' = [s \in Slot |-> NoTask] /\ stageOut' = [s \in Slot |-> NoTask]
  /\ input' = [s \in Slot |-> NoTask]
  /\ jobs' = <<>> /\ adding' = [w \in Worker |-> <<>>]
  /\ acc' = [t \in Task |-> 0]
  /\ pc' = "setup"
  /\ UNCHANGED <<options, outcome, work, foreign>>

GiveUp ==
  /\ pc = "oom"
  /\ \A s \in Slot : work[s] = <<>>
  /\ ~ (AllowEscalation /\ depth < DepthCap)
  /\ outcome' = "capped"
  /\ pc' = "end"
  /\ UNCHANGED <<options, depth, turn, draining, slotState, scatter, stageIn, device,
                 adders>>

-----------------------------------------------------------------------------
(* The streams, and the scatter worker. *)

Doing(s, op) == work[s] # <<>> /\ Head(work[s]) = op

Upload(s) ==
  /\ Doing(s, "upload")
  /\ input' = [input EXCEPT ![s] = stageIn[s]]
  /\ work' = [work EXCEPT ![s] = Tail(@)]
  /\ UNCHANGED <<issuer, stageIn, stageOut, adders>>

Download(s) ==
  /\ Doing(s, "download")
  /\ stageOut' = [stageOut EXCEPT ![s] = input[s]]
  /\ work' = [work EXCEPT ![s] = Tail(@)]
  /\ UNCHANGED <<issuer, stageIn, input, adders>>

AddOnDevice(s) ==
  /\ Doing(s, "add")
  /\ acc' = [acc EXCEPT ![input[s]] = @ + 1]
  /\ work' = [work EXCEPT ![s] = Tail(@)]
  /\ UNCHANGED <<issuer, stageIn, stageOut, input, jobs, adding, foreign>>

AddRead(w) ==
  /\ adding[w] = <<>> /\ jobs # <<>>
  /\ adding' = [adding EXCEPT ![w] = <<Head(jobs), acc>>]
  /\ jobs' = Tail(jobs)
  /\ UNCHANGED <<issuer, stageIn, device, acc, foreign>>

AddWrite(w) ==
  /\ adding[w] # <<>>
  /\ LET job  == adding[w][1]
         from == stageOut[job.slot]
     IN  /\ acc' = IF from = NoTask THEN adding[w][2]
                   ELSE [adding[w][2] EXCEPT ![from] = @ + 1]
         /\ foreign' = IF from = job.task THEN foreign ELSE foreign \cup {job.task}
  /\ adding' = [adding EXCEPT ![w] = <<>>]
  /\ UNCHANGED <<issuer, stageIn, device, jobs>>

-----------------------------------------------------------------------------

IssuerNext ==
  \/ Setup \/ Flush \/ JoinAndGather \/ Issue \/ BeginDrain \/ Drain \/ Return
  \/ RunOut \/ Deepen \/ GiveUp

StreamNext(s) == Upload(s) \/ Download(s) \/ AddOnDevice(s)
AdderNext(w)  == AddRead(w) \/ AddWrite(w)

Finished == pc = "end" /\ UNCHANGED vars

Next ==
  \/ IssuerNext
  \/ \E s \in Slot : StreamNext(s)
  \/ \E w \in Worker : AdderNext(w)
  \/ Finished

-----------------------------------------------------------------------------

\* stream_cqsa_backward: gradients that are returned hold every pair exactly
\* once, whatever was tried before at a shallower depth.
ReturnedExact ==
  outcome = "returned" =>
    \A p \in Pairs : \E t \in Task :
      acc[t] = 1 /\ {u \in Task : acc[u] > 0 /\ p \in Keep[u]} = {t}

\* "A slot is not refilled until its own scatter has consumed the staging
\* buffer": no addition takes the gradients of another subproblem.
OwnGradients == foreign = {}

=============================================================================
