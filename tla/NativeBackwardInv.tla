------------------------- MODULE NativeBackwardInv -------------------------
(***************************************************************************)
(* The inductive invariants behind NativeBackward's safety properties.     *)
(* On the host the gradients of an issued subproblem are either added or   *)
(* still owed by exactly one slot, whose buffers hold its data and nobody  *)
(* else's. On the device every pair is still to be run, in hand or in the  *)
(* accumulator, for each of the three accumulators alike.                  *)
(***************************************************************************)
EXTENDS NativeBackward

Job == [task : Task, slot : Slot]
Op  == {"upload", "download", "add"}

\* What the variables of the streamed backward range over.
HostShape ==
  /\ accOnGpu \in BOOLEAN /\ useScatter \in BOOLEAN
  /\ pc \in {"setup", "flush", "join", "issue", "drain", "oom", "end"}
  /\ depth \in 0 .. DepthCap /\ turn \in 0 .. Len(Tasks)
  /\ slotState \in [Slot -> Task \cup {NoTask}] /\ scatter \in [Slot -> Task \cup {NoTask}]
  /\ stageIn \in [Slot -> Task \cup {NoTask}] /\ stageOut \in [Slot -> Task \cup {NoTask}]
  /\ input \in [Slot -> Task \cup {NoTask}]
  /\ work \in [Slot -> Seq(Op)]
  /\ jobs \in Seq(Job) /\ adding \in [Worker -> {<<>>} \cup (Job \X [Task -> Nat])]
  /\ acc \in [Task -> Nat]

-----------------------------------------------------------------------------
(* A slot and its buffers. *)

\* What the stream of a slot does last for a subproblem.
LastOp == IF accOnGpu THEN "add" ELSE "download"

\* The stream of s works for the subproblem in flight there, on its data.
Pipeline ==
  \A s \in Slot :
    \/ work[s] = <<"upload", LastOp>> /\ slotState[s] # NoTask /\ stageIn[s] = slotState[s]
    \/ work[s] = <<LastOp>> /\ slotState[s] # NoTask /\ input[s] = slotState[s]
    \/ /\ work[s] = <<>>
       /\ slotState[s] # NoTask /\ ~ accOnGpu => stageOut[s] = slotState[s]

\* What the slot about to be filled is like.
Filling ==
  /\ pc \in {"join", "issue"} => turn < Len(Tasks) /\ slotState[TheSlot] = NoTask
  /\ pc = "issue" => stageIn[TheSlot] = Next1 /\ Joined(TheSlot) /\ scatter[TheSlot] = NoTask

-----------------------------------------------------------------------------
(* The scatter worker. *)

\* The worker adds job e, or will.
Unfinished(e) ==
  \/ \E i \in DOMAIN jobs : jobs[i] = e
  \/ \E w \in Worker : adding[w] # <<>> /\ adding[w][1] = e

HasJob(s) == \E e \in Job : Unfinished(e) /\ e.slot = s

\* A job adds the gradients its slot was left with; nothing is in flight there.
JobsOwn ==
  /\ \A e \in Job : Unfinished(e) =>
       /\ slotState[e.slot] = NoTask /\ scatter[e.slot] = e.task /\ stageOut[e.slot] = e.task
  /\ \A i, j \in DOMAIN jobs : jobs[i].slot = jobs[j].slot => i = j
  /\ \A w \in Worker : adding[w] # <<>> =>
       /\ \E e \in Job : adding[w] = <<e, acc>>
       /\ \A i \in DOMAIN jobs : jobs[i].slot # adding[w][1].slot
  /\ accOnGpu \/ ~ Async => \A e \in Job : ~ Unfinished(e)

-----------------------------------------------------------------------------
(* The ledger. *)

Issued == {Tasks[i] : i \in 1 .. turn}

\* The subproblem whose gradients slot s has still to see added.
Owed(s) ==
  IF accOnGpu THEN (IF work[s] = <<>> THEN NoTask ELSE slotState[s])
  ELSE IF slotState[s] # NoTask THEN slotState[s]
  ELSE IF HasJob(s) THEN scatter[s] ELSE NoTask

Ledger ==
  /\ \A s \in Slot : Owed(s) # NoTask => Owed(s) \in Issued
  /\ \A r, s \in Slot : Owed(r) # NoTask /\ Owed(r) = Owed(s) => r = s
  /\ \A t \in Task : acc[t] = IF t \in Issued /\ \A s \in Slot : Owed(s) # t THEN 1 ELSE 0

\* The slots the closing flush has done with, and what is over in the end.
Closing ==
  /\ pc \in {"drain"} \/ outcome = "returned" => turn = Len(Tasks)
  /\ \A s \in Slot : slotState[s] # NoTask => s < NPar
  /\ pc = "drain" =>
       \E n \in 0 .. NPar : draining = n .. NPar - 1 /\ \A s \in 0 .. n - 1 : slotState[s] = NoTask
  /\ outcome = "returned" => pc = "end" /\ \A s \in Slot : slotState[s] = NoTask /\ ~ HasJob(s)
  /\ pc = "setup" => turn = 0 /\ \A s \in Slot : work[s] = <<>> /\ slotState[s] = NoTask

HostInv ==
  /\ HostShape /\ Pipeline /\ Filling /\ JobsOwn /\ Ledger /\ Closing
  /\ OwnGradients

-----------------------------------------------------------------------------
(* The device. *)

DeviceShape ==
  /\ todo \in Seq(Task) /\ hand \in Task \cup {NoTask}
  /\ at \in {"setup", "pop", "compute", "dq", "dk", "dv", "oom", "end"}
  /\ grad \in [OnDevice!Gradient -> [Task -> Nat]] /\ half \in BOOLEAN
  /\ at \in {"setup", "pop"} => hand = NoTask
  /\ at \in {"compute", "dq", "dk", "dv", "oom"} => hand \in Task
  /\ half => at \in {"oom", "end"} /\ ending # "returned"
  /\ ending = "returned" => at = "end" /\ todo = <<>> /\ hand = NoTask
  /\ at \in {"setup", "pop", "compute", "dq", "dk", "dv", "oom"} => ending = "running"

\* The subproblem in hand has not been added to g.
Owes(g) ==
  /\ hand # NoTask
  /\ \/ at \in {"compute", "dq", "oom"}
     \/ at = "dk" /\ g \in {"dk", "dv"}
     \/ at = "dv" /\ g = "dv"

ToRun(p)    == {i \in DOMAIN todo : p \in Keep[todo[i]]}
InHand(g, p) == Owes(g) /\ p \in Keep[hand]
Added(g, p)  == {t \in Task : grad[g][t] > 0 /\ p \in Keep[t]}

\* A pair is in one place, for each accumulator.
Waiting(g, p)  == (\E i \in DOMAIN todo : ToRun(p) = {i}) /\ ~ InHand(g, p) /\ Added(g, p) = {}
Running(g, p)  == ToRun(p) = {} /\ InHand(g, p) /\ Added(g, p) = {}
Finishing(g, p) == /\ ToRun(p) = {} /\ ~ InHand(g, p)
                   /\ \E t \in Task : Added(g, p) = {t} /\ grad[g][t] = 1

EachPairOnce ==
  ~ half /\ ending \in {"running", "returned"} =>
    \A g \in OnDevice!Gradient, p \in Pairs : Waiting(g, p) \/ Running(g, p) \/ Finishing(g, p)

DeviceInv == DeviceShape /\ EachPairOnce

IInv == HostInv /\ DeviceInv

=============================================================================
