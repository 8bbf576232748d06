---------------------- MODULE ForwardScheduler_proofs ----------------------
(* Theorems of ForwardScheduler, for every value of its constants: what its *)
(* inductive invariant says of the end of a call and of every moment        *)
(* before, and that the scheduler with its streams, buffers and merges      *)
(* implements the loop of RecoveryLoop.                                     *)
EXTENDS ForwardSchedulerInv, SequenceTheorems, FiniteSetTheorems, TLAPS

USE DEF Slot, Stream, MergeStream

\* The retry budget is a number.
LEMMA BudgetIsNat == RetryBudget \in Nat
<1>1. Roots \in Seq(Task) BY Decomposition DEF Decomposition
<1>2. Len(Roots) \in Nat BY <1>1, LenProperties
<1>3. AtLeastOne(Len(Roots)) \in Nat BY <1>2 DEF AtLeastOne
<1>4. AtLeastOne(DepthCap) \in Nat BY Parameters DEF Parameters, AtLeastOne
<1> QED
  BY <1>3, <1>4, Parameters DEF Parameters, RetryBudget

\* slot % max(1, len(streams)) names a stream.
LEMMA TheSlotIsSlot ==
  ASSUME HostTypeOK
  PROVE  TheSlot \in Slot /\ TheSlot # MergeStream
BY Parameters DEF Parameters, HostTypeOK, TheSlot

-----------------------------------------------------------------------------
(* Type correctness. *)

\* The state a call starts in is well-formed.
LEMMA InitType == Init => TypeOK
<1>1. Init => HostTypeOK
  <2> SUFFICES ASSUME Init PROVE HostTypeOK
    OBVIOUS
  <2>1. pending \in Seq(Task) BY Decomposition DEF Decomposition, Init
  <2>2. slotDone \in [Slot -> Task \cup {NoTask}] BY DEF Init
  <2>3. streams \in 1 .. NPar /\ deepest \in Nat
    BY Parameters DEF Parameters, Init
  <2> QED BY <2>1, <2>2, <2>3 DEF Init, HostTypeOK
<1>2. Init => DeviceTypeOK
  <2> SUFFICES ASSUME Init PROVE DeviceTypeOK
    OBVIOUS
  <2>1. /\ work \in [Slot -> Seq([op : {"copy", "kernel"}, task : Task])]
        /\ merges \in [Stream -> Seq([task : Task, slot : Slot])]
        /\ snapshot \in [Stream -> Seq([Task -> Nat])]
    BY DEF Init
  <2>2. /\ staging \in [Slot -> Task \cup {NoTask}]
        /\ input \in [Slot -> Task \cup {NoTask}]
        /\ ids \in [Slot -> Task \cup {NoTask}]
        /\ output \in [Task -> Task \cup {NoTask}]
        /\ acc \in [Task -> Nat]
        /\ garbled \subseteq Task
    BY DEF Init
  <2> QED BY <2>1, <2>2 DEF DeviceTypeOK
<1> QED BY <1>1, <1>2 DEF TypeOK

\* Every step of the host keeps the host's own state well-formed.
LEMMA HostNextHostType == HostTypeOK /\ HostNext => HostTypeOK'
<1> SUFFICES ASSUME HostTypeOK, HostNext PROVE HostTypeOK'
  OBVIOUS
<1> USE DEF HostTypeOK
<1>1. TheSlot \in Slot BY TheSlotIsSlot
<1>2. CASE Setup BY <1>2 DEF Setup
<1>3. CASE PopTask
  <2>1. Head(pending) \in Task /\ Tail(pending) \in Seq(Task)
    BY <1>3, HeadTailProperties DEF PopTask
  <2> QED BY <1>3, <2>1 DEF PopTask
<1>4. CASE WaitAndGather BY <1>4 DEF WaitAndGather
<1>5. CASE EnqueueCopy BY <1>5 DEF EnqueueCopy
<1>6. CASE EnqueueKernel BY <1>6 DEF EnqueueKernel
<1>7. CASE EnqueueMerge BY <1>7, <1>1 DEF EnqueueMerge, TaskDone
<1>8. CASE MergeOnHost BY <1>8, <1>1 DEF MergeOnHost, TaskDone
<1>9. CASE RunOut BY <1>9 DEF RunOut
<1>10. CASE TearMerge BY <1>10 DEF TearMerge
<1>11. CASE Fault BY <1>11 DEF Fault
<1>12. CASE RefuseDirty BY <1>12 DEF RefuseDirty
<1>13. CASE Halve
  <2>1. streams' \in 1 .. NPar
    BY <1>13, Parameters DEF Halve, Lowerable, Halved, Parameters
  <2>2. cur \in Task BY <1>13 DEF Halve
  <2>3. pending' \in Seq(Task)
    BY <1>13, <2>2, ConcatProperties DEF Halve
  <2> QED BY <1>13, <2>1, <2>3 DEF Halve, Resume
<1>14. CASE GiveUp BY <1>14 DEF GiveUp
<1>15. CASE Split
  <2>1. cur \in Task BY <1>15 DEF Split
  <2>2. ChildrenOf[cur] \in Seq(Task) /\ Depth[cur] \in Nat
    BY <2>1, Decomposition DEF Decomposition
  <2>3. pending' \in Seq(Task)
    BY <1>15, <2>2, ConcatProperties DEF Split, Replacement
  <2>4. deepest' \in Nat
    BY <1>15, <2>2 DEF Split, DeepestAfter
  <2> QED BY <1>15, <2>3, <2>4 DEF Split, Resume
<1>16. CASE Return BY <1>16 DEF Return
<1> QED
  BY <1>2, <1>3, <1>4, <1>5, <1>6, <1>7, <1>8, <1>9, <1>10, <1>11, <1>12,
     <1>13, <1>14, <1>15, <1>16 DEF HostNext

\* Adding one contribution keeps the accumulator a count for each subproblem.
LEMMA CountOne ==
  ASSUME NEW f \in [Task -> Nat], NEW t \in Task
  PROVE  [f EXCEPT ![t] = @ + 1] \in [Task -> Nat]
OBVIOUS

\* Enqueuing an operation keeps the worker streams well-formed.
LEMMA EnqueueType ==
  ASSUME DeviceTypeOK, NEW s \in Slot, cur \in Task,
         NEW op \in {"copy", "kernel"}, Enqueue(s, op)
  PROVE  work' \in [Slot -> Seq([op : {"copy", "kernel"}, task : Task])]
<1> DEFINE Op == [op : {"copy", "kernel"}, task : Task]
           e  == [op |-> op, task |-> cur]
<1>1. e \in Op OBVIOUS
<1>2. work \in [Slot -> Seq(Op)] BY DEF DeviceTypeOK
<1>3. Append(work[s], e) \in Seq(Op) BY <1>1, <1>2, AppendProperties
<1> QED BY <1>2, <1>3 DEF Enqueue

\* What the host enqueues keeps the device's state well-formed.
LEMMA HostNextDeviceType == TypeOK /\ HostNext => DeviceTypeOK'
<1> SUFFICES ASSUME TypeOK, HostNext PROVE DeviceTypeOK'
  OBVIOUS
<1>1. TheSlot \in Slot BY TheSlotIsSlot DEF TypeOK
<1>2. CASE UNCHANGED device
  BY <1>2 DEF TypeOK, DeviceTypeOK, device
<1>3. pc \in {"wait", "copy", "kernel", "merge", "oom"} => cur \in Task
  BY DEF TypeOK, HostTypeOK
<1> USE DEF DeviceTypeOK
<1> DeviceTypeOK BY DEF TypeOK
<1>4. CASE WaitAndGather BY <1>1, <1>3, <1>4 DEF WaitAndGather
<1>5. CASE EnqueueCopy
  <2>1. work' \in [Slot -> Seq([op : {"copy", "kernel"}, task : Task])]
    BY <1>1, <1>3, <1>5, EnqueueType DEF EnqueueCopy
  <2> QED BY <1>5, <2>1 DEF EnqueueCopy
<1>6. CASE EnqueueKernel
  <2>1. work' \in [Slot -> Seq([op : {"copy", "kernel"}, task : Task])]
    BY <1>1, <1>3, <1>6, EnqueueType DEF EnqueueKernel
  <2>2. output' \in [Task -> Task \cup {NoTask}]
    BY <1>3, <1>6 DEF EnqueueKernel
  <2> QED BY <1>6, <2>1, <2>2 DEF EnqueueKernel
<1>7. CASE EnqueueMerge
  <2> DEFINE e == [task |-> cur, slot |-> TheSlot]
  <2>1. e \in [task : Task, slot : Slot]
    BY <1>1, <1>3, <1>7 DEF EnqueueMerge
  <2>2. merges[MergeStream] \in Seq([task : Task, slot : Slot])
    BY Parameters DEF Parameters
  <2>3. Append(merges[MergeStream], e) \in Seq([task : Task, slot : Slot])
    BY <2>1, <2>2, AppendProperties
  <2>4. merges' = [merges EXCEPT ![MergeStream] = Append(@, e)]
    BY <1>7 DEF EnqueueMerge, MergeStreamOf
  <2>5. merges' \in [Stream -> Seq([task : Task, slot : Slot])]
    BY <2>3, <2>4
  <2> QED BY <1>7, <2>5 DEF EnqueueMerge
<1>8. CASE MergeOnHost
  <2>3. output[cur] \in Task
    BY <1>3, <1>8 DEF MergeOnHost
  <2>1. acc' \in [Task -> Nat]
    BY <1>8, <2>3 DEF MergeOnHost
  <2>2. garbled' \subseteq Task
    BY <1>3, <1>8 DEF MergeOnHost
  <2> QED BY <1>8, <2>1, <2>2 DEF MergeOnHost
<1>9. CASE TearMerge
  <2>1. acc' \in [Task -> Nat]
    BY <1>3, <1>9 DEF TearMerge
  <2> QED BY <1>9, <2>1 DEF TearMerge
<1> QED
  BY <1>2, <1>4, <1>5, <1>6, <1>7, <1>8, <1>9
  DEF HostNext, Setup, PopTask, RunOut, Fault, RefuseDirty, Halve, GiveUp, Split, Return

\* A copy or kernel that executes keeps the device's state well-formed.
LEMMA WorkerNextType ==
  ASSUME DeviceTypeOK, NEW s \in Slot, WorkerNext(s)
  PROVE  DeviceTypeOK'
<1> USE DEF DeviceTypeOK
<1>1. work[s] # <<>> BY DEF WorkerNext, Copy, Kernel, HeadOf
<1>2. /\ Head(work[s]).task \in Task
      /\ Tail(work[s]) \in Seq([op : {"copy", "kernel"}, task : Task])
  <2> DEFINE Op == [op : {"copy", "kernel"}, task : Task]
  <2>1. work[s] \in Seq(Op) OBVIOUS
  <2>2. Head(work[s]) \in Op /\ Tail(work[s]) \in Seq(Op)
    BY <1>1, <2>1, HeadTailProperties
  <2> QED BY <2>2
<1>3. CASE Copy(s)
  <2>1. work' \in [Slot -> Seq([op : {"copy", "kernel"}, task : Task])]
    BY <1>2, <1>3 DEF Copy
  <2>2. /\ ids' \in [Slot -> Task \cup {NoTask}]
        /\ input' \in [Slot -> Task \cup {NoTask}]
    BY <1>2, <1>3 DEF Copy
  <2> QED BY <1>3, <2>1, <2>2 DEF Copy
<1>4. CASE Kernel(s)
  <2>1. work' \in [Slot -> Seq([op : {"copy", "kernel"}, task : Task])]
    BY <1>2, <1>4 DEF Kernel
  <2>2. output' \in [Task -> Task \cup {NoTask}]
    BY <1>2, <1>4 DEF Kernel
  <2> QED BY <1>4, <2>1, <2>2 DEF Kernel
<1> QED BY <1>3, <1>4 DEF WorkerNext

\* A merge that executes on a computed output keeps the device's state
\* well-formed.
LEMMA MergeNextType ==
  ASSUME DeviceTypeOK, OwnOutput, NEW m \in Stream, MergeNext(m),
         snapshot[m] # <<>> => /\ merges[m] # <<>>
                               /\ output[Head(merges[m]).task] # NoTask
  PROVE  DeviceTypeOK'
<1> USE DEF DeviceTypeOK
<1>1. CASE MergeRead(m)
  <2>1. <<acc>> \in Seq([Task -> Nat])
    OBVIOUS
  <2>2. snapshot' \in [Stream -> Seq([Task -> Nat])]
    BY <1>1, <2>1 DEF MergeRead
  <2> QED BY <1>1, <2>2 DEF MergeRead
<1>2. CASE MergeWrite(m)
  <2> DEFINE e == Head(merges[m])
  <2>1. /\ e.task \in Task /\ e.slot \in Slot
        /\ Tail(merges[m]) \in Seq([task : Task, slot : Slot])
    <3> DEFINE Merge == [task : Task, slot : Slot]
    <3>1. merges[m] \in Seq(Merge) /\ merges[m] # <<>>
      BY <1>2 DEF MergeWrite
    <3>2. e \in Merge /\ Tail(merges[m]) \in Seq(Merge)
      BY <3>1, HeadTailProperties
    <3> QED BY <3>2
  <2>2. output[e.task] \in Task
    BY <1>2, <2>1 DEF MergeWrite
  <2>3. snapshot[m][1] \in [Task -> Nat]
    <3>1. snapshot[m] \in Seq([Task -> Nat]) /\ snapshot[m] # <<>>
      BY <1>2 DEF MergeWrite
    <3> QED BY <3>1, HeadTailProperties
  <2>4. acc' \in [Task -> Nat]
    <3>1. acc' = [snapshot[m][1] EXCEPT ![output[e.task]] = @ + 1]
      BY <1>2 DEF MergeWrite
    <3> QED BY <2>2, <2>3, <3>1, CountOne
  <2>5. merges' \in [Stream -> Seq([task : Task, slot : Slot])]
    <3>1. merges' = [merges EXCEPT ![m] = Tail(merges[m])]
      BY <1>2 DEF MergeWrite
    <3> QED BY <2>1, <3>1
  <2>6. snapshot' \in [Stream -> Seq([Task -> Nat])]
    <3>1. snapshot' = [snapshot EXCEPT ![m] = <<>>]
      BY <1>2 DEF MergeWrite
    <3>2. <<>> \in Seq([Task -> Nat])
      BY EmptySeq
    <3> QED BY <3>1, <3>2
  <2>7. garbled' \subseteq Task
    <3>1. garbled' = garbled \/ garbled' = garbled \cup {e.task}
      BY <1>2 DEF MergeWrite
    <3> QED BY <2>1, <3>1
  <2> QED BY <1>2, <2>4, <2>5, <2>6, <2>7 DEF MergeWrite
<1> QED BY <1>1, <1>2 DEF MergeNext

-----------------------------------------------------------------------------
(* Control. *)

\* Every step of the host keeps what is known of its hand and its outcome.
LEMMA HostControl ==
  ASSUME TypeOK, Control, MergeQueue, HostNext
  PROVE  Control'
<1> USE DEF Control
<1>1. CASE Setup BY <1>1 DEF Setup, device, Synchronized
<1>2. CASE PopTask BY <1>2 DEF PopTask, device, Synchronized
<1>3. CASE WaitAndGather BY <1>3 DEF WaitAndGather, Synchronized
<1>4. CASE EnqueueCopy BY <1>4 DEF EnqueueCopy
<1>5. CASE EnqueueKernel BY <1>5 DEF EnqueueKernel
<1>6. CASE EnqueueMerge BY <1>6 DEF EnqueueMerge, TaskDone
<1>7. CASE MergeOnHost BY <1>7 DEF MergeOnHost, TaskDone
<1>8. CASE RunOut BY <1>8 DEF RunOut
<1>9. CASE TearMerge BY <1>9 DEF TearMerge
<1>10. CASE Fault BY <1>10 DEF Fault
<1>11. CASE RefuseDirty BY <1>11 DEF RefuseDirty
<1>12. CASE Halve BY <1>12 DEF Halve, Resume, MergeTorn
<1>13. CASE GiveUp BY <1>13 DEF GiveUp, MergeTorn
<1>14. CASE Split BY <1>14 DEF Split, Resume, MergeTorn
<1>15. CASE Return BY <1>15 DEF Return, device, Synchronized
<1> QED
  BY <1>1, <1>2, <1>3, <1>4, <1>5, <1>6, <1>7, <1>8, <1>9, <1>10, <1>11, <1>12,
     <1>13, <1>14, <1>15 DEF HostNext

\* Once synchronized, the streams have nothing left to do.
LEMMA StreamsIdle ==
  ASSUME MergeQueue, Synchronized
  PROVE  /\ \A s \in Slot : ~ WorkerNext(s)
         /\ \A m \in Stream : ~ MergeNext(m)
BY DEF MergeQueue, Synchronized, WorkerNext, Copy, Kernel, HeadOf, MergeNext,
       MergeRead, MergeWrite

\* So does every step of a stream: after the call has returned there is none.
LEMMA DeviceControl ==
  ASSUME Control, MergeQueue,
         (\E s \in Slot : WorkerNext(s)) \/ (\E m \in Stream : MergeNext(m))
  PROVE  Control'
<1>1. UNCHANGED host
  BY DEF WorkerNext, Copy, Kernel, MergeNext, MergeRead, MergeWrite
<1>2. ~ Synchronized
  BY StreamsIdle
<1> QED
  BY <1>1, <1>2 DEF Control, host

-----------------------------------------------------------------------------
(* Flow: the worker streams. *)

\* What a worker stream is about to execute is its owner's.
LEMMA HeadOfWork ==
  ASSUME TypeOK, Pipeline, NEW s \in Slot, work[s] # <<>>
  PROVE  /\ Owner(s) \in Task
         /\ \/ work[s] = <<CopyOf(Owner(s))>> /\ Staged(s, Owner(s))
            \/ /\ work[s] = <<CopyOf(Owner(s)), KernelOf(Owner(s))>>
               /\ output[Owner(s)] = NoTask /\ Staged(s, Owner(s))
            \/ /\ work[s] = <<KernelOf(Owner(s))>>
               /\ output[Owner(s)] = NoTask /\ Loaded(s, Owner(s))
<1>1. CASE InHand /\ s = TheSlot
  BY <1>1 DEF TypeOK, HostTypeOK, Pipeline, SlotInHand, InHand, Owner, Copying, Computing
<1>2. CASE ~ (InHand /\ s = TheSlot)
  BY <1>2 DEF TypeOK, HostTypeOK, Pipeline, SlotLeft, Owner, Computing
<1> QED BY <1>1, <1>2

\* A stream never holds more than two operations.
LEMMA ShortQueues ==
  ASSUME NEW a, NEW b
  PROVE  /\ Head(<<a>>) = a /\ Tail(<<a>>) = <<>>
         /\ Head(<<a, b>>) = a /\ Tail(<<a, b>>) = <<b>>
         /\ <<a>> # <<>> /\ <<a, b>> # <<>> /\ <<a>> # <<a, b>>
         /\ Append(<<>>, a) = <<a>> /\ Append(<<a>>, b) = <<a, b>>
<1>1. Head(<<a>>) = a OBVIOUS
<1>2. Head(<<a,b>>) = a OBVIOUS
<1>3. Tail(<<a>>) = <<>> OBVIOUS
<1>4. Tail(<<a,b>>) = <<b>> OBVIOUS
<1>5. /\ <<a>> # <<>> /\ <<a, b>> # <<>> /\ <<a>> # <<a, b>> OBVIOUS
<1>6. Append(<<>>, a) = <<a>> OBVIOUS
<1>7. Append(<<a>>, b) = <<a, b>>
  <2> DEFINE x == Append(<<a>>, b)
             y == <<a, b>>
  <2>1. <<a>> \in Seq({a, b}) /\ y \in Seq({a, b}) /\ b \in {a, b} /\ Len(y) = 2 /\ y[1] = a /\ y[2] = b
    OBVIOUS
  <2>2. x \in Seq({a, b}) /\ Len(x) = 2 /\ x[1] = a /\ x[2] = b
    BY <2>1, AppendProperties
  <2> HIDE DEF x, y
  <2>3. \A i \in 1 .. Len(x) : x[i] = y[i]
    BY <2>1, <2>2
  <2>4. x = y BY <2>1, <2>2, <2>3, SeqEqual
  <2> QED BY <2>4 DEF x, y
<1> QED BY <1>1, <1>2, <1>3, <1>4, <1>5, <1>6, <1>7

\* The upload of a subproblem leaves every pipeline its owner's.
LEMMA CopyFlow ==
  ASSUME TypeOK, Flow, NEW s \in Slot, Copy(s)
  PROVE  Flow'
<1> DEFINE t == Owner(s)
<1>1. work[s] # <<>> /\ Head(work[s]).op = "copy"
  BY DEF Copy, HeadOf
<1>2. /\ t \in Task
      /\ Staged(s, t)
      /\ \/ work[s] = <<CopyOf(t)>>
         \/ work[s] = <<CopyOf(t), KernelOf(t)>> /\ output[t] = NoTask
  BY <1>1, HeadOfWork DEF Flow, CopyOf, KernelOf
<1>3. Head(work[s]).task = t
  BY <1>2 DEF CopyOf
<1>4. /\ UNCHANGED <<host, staging, output, merges, snapshot, acc, garbled>>
      /\ \A r \in Slot : r # s => work'[r] = work[r] /\ ids'[r] = ids[r] /\ input'[r] = input[r]
  BY DEF Copy, TypeOK, DeviceTypeOK
<1>5. Loaded(s, t)'
  BY <1>2, <1>3, <1>4 DEF Copy, TypeOK, DeviceTypeOK, Loaded, Staged, host, Owner, InHand, TheSlot
<1>6. work'[s] = Tail(work[s])
  BY DEF Copy, TypeOK, DeviceTypeOK
<1>7. \/ work[s] = <<CopyOf(t)>> /\ work'[s] = <<>>
      \/ /\ work[s] = <<CopyOf(t), KernelOf(t)>> /\ output[t] = NoTask
         /\ work'[s] = <<KernelOf(t)>>
  <2>1. CASE work[s] = <<CopyOf(t)>>
    BY <1>6, <2>1, ShortQueues
  <2>2. CASE work[s] = <<CopyOf(t), KernelOf(t)>> /\ output[t] = NoTask
    <3>1. Tail(work[s]) = <<KernelOf(t)>>
      BY <2>2, ShortQueues
    <3> QED BY <1>6, <2>2, <3>1
  <2> QED BY <1>2, <2>1, <2>2
<1>8. /\ InHand' = InHand /\ TheSlot' = TheSlot
      /\ \A r \in Slot : Owner(r)' = Owner(r)
  BY <1>4 DEF host, InHand, TheSlot, Owner
<1>9. Pipeline'
  <2> SUFFICES ASSUME NEW r \in Slot
               PROVE  (IF InHand /\ r = TheSlot THEN SlotInHand(r, cur) ELSE SlotLeft(r))'
    BY DEF Pipeline
  <2>1. CASE r # s
    BY <1>4, <1>8, <2>1
    DEF Flow, Pipeline, SlotInHand, SlotLeft, Copying, Computing, Staged, Loaded, host
  <2>2. CASE r = s /\ InHand /\ s = TheSlot
    <3>1. t = cur /\ SlotInHand(s, t) /\ cur' = cur /\ pc' = pc
      BY <1>4, <2>2 DEF Owner, Flow, Pipeline, host
    <3>2. CASE work'[s] = <<>>
      <4>1. Copying(s, t)'
        BY <1>5, <1>8, <3>2 DEF Copying
      <4>2. work[s] = <<CopyOf(t)>>
        BY <1>7, <3>2, ShortQueues
      <4>3. pc # "copy" /\ pc # "merge"
        BY <3>1, <4>2, ShortQueues DEF SlotInHand, Computing, CopyOf, KernelOf
      <4> QED BY <1>8, <2>2, <3>1, <4>1, <4>3 DEF SlotInHand, Copying
    <3>3. CASE work[s] = <<CopyOf(t), KernelOf(t)>> /\ Computing(s, t)'
      <4>1. pc # "copy" /\ pc # "kernel"
        BY <3>1, <3>3, ShortQueues DEF SlotInHand, Copying, CopyOf, KernelOf
      <4> QED BY <1>8, <2>2, <3>1, <3>3, <4>1 DEF SlotInHand
    <3>4. work'[s] # <<>> => Computing(s, t)'
      BY <1>4, <1>5, <1>7, <1>8 DEF Computing
    <3> QED BY <1>7, <3>2, <3>3, <3>4
  <2>3. CASE r = s /\ ~ (InHand /\ s = TheSlot)
    <3>1. slotDone[s] = t /\ slotDone'[s] = t
      BY <1>4, <2>3 DEF Owner, host
    <3>2. Computing(s, t)
      BY <1>2, <2>3, <3>1, Decomposition DEF Flow, Pipeline, SlotLeft, Decomposition
    <3>3. work[s] # <<CopyOf(t)>>
      BY <3>2, ShortQueues DEF Computing, CopyOf, KernelOf
    <3>4. work'[s] = <<KernelOf(t)>> /\ output'[t] = NoTask
      BY <1>4, <1>7, <3>3
    <3>5. Computing(s, t)'
      BY <1>5, <1>8, <3>4 DEF Computing
    <3>6. t \in Task /\ t # NoTask
      BY <1>2, Decomposition DEF Decomposition
    <3> QED BY <1>8, <2>3, <3>1, <3>5, <3>6 DEF SlotLeft
  <2> QED BY <2>1, <2>2, <2>3
<1>10. OwnersDiffer'
  BY <1>8 DEF Flow, OwnersDiffer
<1>11. OwnOutput' /\ garbled' = {}
  BY <1>4 DEF Flow, OwnOutput
<1>12. MergeQueue'
  BY <1>4, <1>8 DEF Flow, MergeQueue, host
<1> QED BY <1>9, <1>10, <1>11, <1>12 DEF Flow

\* So does its kernel, whose output is computed from its own input.
LEMMA KernelFlow ==
  ASSUME TypeOK, Flow, NEW s \in Slot, Kernel(s)
  PROVE  Flow'
<1> DEFINE t == Owner(s)
<1>1. work[s] # <<>> /\ Head(work[s]).op = "kernel"
  BY DEF Kernel, HeadOf
<1>2. /\ t \in Task /\ t # NoTask
      /\ work[s] = <<KernelOf(t)>> /\ output[t] = NoTask /\ Loaded(s, t)
  <2>1. t \in Task /\ t # NoTask
    BY <1>1, HeadOfWork, Decomposition DEF Flow, Decomposition
  <2>2. /\ work[s] # <<CopyOf(t)>>
        /\ work[s] # <<CopyOf(t), KernelOf(t)>>
    BY <1>1, ShortQueues DEF CopyOf
  <2> QED BY <1>1, <2>1, <2>2, HeadOfWork DEF Flow
<1>3. Head(work[s]).task = t
  BY <1>2 DEF KernelOf
<1>4. /\ UNCHANGED <<host, staging, input, ids, merges, snapshot, acc, garbled>>
      /\ \A r \in Slot : r # s => work'[r] = work[r]
      /\ work'[s] = <<>>
  BY <1>2 DEF Kernel, TypeOK, DeviceTypeOK
<1>5. output' = [output EXCEPT ![t] = t]
  BY <1>2, <1>3 DEF Kernel, Loaded
<1>6. /\ output'[t] = t
      /\ \A u \in Task : u # t => output'[u] = output[u]
  BY <1>2, <1>5 DEF TypeOK, DeviceTypeOK
<1>7. /\ InHand' = InHand /\ TheSlot' = TheSlot
      /\ \A r \in Slot : Owner(r)' = Owner(r)
  BY <1>4 DEF host, InHand, TheSlot, Owner
<1>8. Pipeline'
  <2> SUFFICES ASSUME NEW r \in Slot
               PROVE  (IF InHand /\ r = TheSlot THEN SlotInHand(r, cur) ELSE SlotLeft(r))'
    BY DEF Pipeline
  <2>1. CASE r # s
    <3>1. Owner(r) # t
      BY <1>2, <2>1 DEF Flow, OwnersDiffer
    <3>2. Owner(r) \in Task \cup {NoTask}
      BY DEF TypeOK, HostTypeOK, Owner
    <3>3. CASE InHand /\ r = TheSlot
      BY <1>4, <1>6, <1>7, <2>1, <3>1, <3>2, <3>3
      DEF Flow, Pipeline, SlotInHand, Copying, Computing, Staged, Loaded, host, Owner, InHand
    <3>4. CASE ~ (InHand /\ r = TheSlot)
      BY <1>4, <1>6, <1>7, <2>1, <3>1, <3>2, <3>4
      DEF Flow, Pipeline, SlotLeft, Computing, Staged, Loaded, host, Owner
    <3> QED BY <3>3, <3>4
  <2>2. CASE r = s /\ InHand /\ s = TheSlot
    BY <1>2, <1>4, <1>6, <1>7, <2>2
    DEF Flow, Pipeline, SlotInHand, Copying, Computing, Loaded, host, Owner, CopyOf, KernelOf
  <2>3. CASE r = s /\ ~ (InHand /\ s = TheSlot)
    BY <1>2, <1>4, <1>6, <1>7, <2>3
    DEF Flow, Pipeline, SlotLeft, Computing, Loaded, host, Owner
  <2> QED BY <2>1, <2>2, <2>3
<1>9. OwnersDiffer'
  BY <1>7 DEF Flow, OwnersDiffer
<1>10. OwnOutput' /\ garbled' = {}
  BY <1>4, <1>6 DEF Flow, OwnOutput
<1>11. MergeQueue'
  <2>1. snapshot[MergeStream] # <<>> => Head(merges[MergeStream]).task \in Task
    <3> DEFINE Merge == [task : Task, slot : Slot]
    <3>1. merges[MergeStream] \in Seq(Merge)
      BY Parameters DEF Parameters, TypeOK, DeviceTypeOK
    <3>2. ASSUME snapshot[MergeStream] # <<>>
          PROVE  Head(merges[MergeStream]) \in Merge
      BY <3>1, <3>2, HeadTailProperties DEF Flow, MergeQueue
    <3> QED BY <3>2
  <2> QED BY <1>2, <1>4, <1>6, <1>7, <2>1 DEF Flow, MergeQueue, host
<1> QED BY <1>8, <1>9, <1>10, <1>11 DEF Flow

-----------------------------------------------------------------------------
(* Flow: the merge stream. *)

\* The merge at the head of the queue, and the slot whose ids it reads.
LEMMA HeadOfMerges ==
  ASSUME TypeOK, Flow, merges[MergeStream] # <<>>
  PROVE  LET e == Head(merges[MergeStream]) IN
           /\ e \in [task : Task, slot : Slot]
           /\ e = merges[MergeStream][1] /\ 1 \in DOMAIN merges[MergeStream]
           /\ Owner(e.slot) = e.task
           /\ output[e.task] # NoTask => output[e.task] = e.task /\ ids[e.slot] = e.task
<1> DEFINE Merge == [task : Task, slot : Slot]
           e     == Head(merges[MergeStream])
<1>1. merges[MergeStream] \in Seq(Merge)
  BY Parameters DEF Parameters, TypeOK, DeviceTypeOK
<1>2. e \in Merge /\ e = merges[MergeStream][1] /\ 1 \in DOMAIN merges[MergeStream]
  <2>1. e \in Merge
    BY <1>1, HeadTailProperties
  <2>2. e = merges[MergeStream][1] /\ 1 \in DOMAIN merges[MergeStream]
    BY <1>1, LenProperties, EmptySeq
  <2> QED BY <2>1, <2>2
<1>3. slotDone[e.slot] = e.task /\ (InHand => e.slot # TheSlot)
  BY <1>2 DEF Flow, MergeQueue
<1>4. SlotLeft(e.slot)
  BY <1>2, <1>3 DEF Flow, Pipeline
<1>5. e.task \in Task /\ e.task # NoTask
  BY <1>2, Decomposition DEF Decomposition
<1>6. output[e.task] # NoTask => output[e.task] = e.task /\ ids[e.slot] = e.task
  BY <1>3, <1>4, <1>5 DEF SlotLeft, Computing
<1> QED BY <1>2, <1>3, <1>6 DEF Owner

\* So does the first half of a merge.
LEMMA MergeReadFlow ==
  ASSUME TypeOK, Flow, NEW m \in Stream, MergeRead(m)
  PROVE  Flow'
<1>1. m = MergeStream
  BY DEF MergeRead, Flow, MergeQueue
<1>2. UNCHANGED <<host, work, staging, input, ids, output, merges, acc, garbled>>
  BY DEF MergeRead
<1>3. /\ \A k \in Stream : k # MergeStream => snapshot'[k] = snapshot[k]
      /\ merges[MergeStream] # <<>> /\ output[Head(merges[MergeStream]).task] # NoTask
  BY <1>1 DEF MergeRead, TypeOK, DeviceTypeOK
<1>4. Pipeline' /\ OwnersDiffer' /\ OwnOutput' /\ garbled' = {}
  BY <1>2
  DEF Flow, Pipeline, SlotInHand, SlotLeft, Copying, Computing, Staged, Loaded,
      OwnersDiffer, OwnOutput, Owner, InHand, TheSlot, host
<1>5. MergeQueue'
  <2>1. InHand' = InHand /\ TheSlot' = TheSlot /\ slotDone' = slotDone
    BY <1>2 DEF InHand, TheSlot, host
  <2> QED BY <1>2, <1>3, <2>1 DEF Flow, MergeQueue
<1> QED BY <1>4, <1>5 DEF Flow

\* So does the second half, which adds the output of the subproblem itself to
\* its own rows.
LEMMA MergeWriteFlow ==
  ASSUME TypeOK, Flow, NEW m \in Stream, MergeWrite(m)
  PROVE  Flow'
<1> DEFINE e == Head(merges[MergeStream])
<1>1. m = MergeStream /\ merges[MergeStream] # <<>> /\ output[e.task] # NoTask
  BY DEF MergeWrite, Flow, MergeQueue
<1>2. UNCHANGED <<host, work, staging, input, ids, output>>
  BY DEF MergeWrite
<1>3. garbled' = {}
  BY <1>1, HeadOfMerges DEF MergeWrite, Flow
<1>4. Pipeline' /\ OwnersDiffer' /\ OwnOutput'
  BY <1>2
  DEF Flow, Pipeline, SlotInHand, SlotLeft, Copying, Computing, Staged, Loaded,
      OwnersDiffer, OwnOutput, Owner, InHand, TheSlot, host
<1>5. MergeQueue'
  <2>1. /\ merges'[MergeStream] = Tail(merges[MergeStream])
        /\ snapshot'[MergeStream] = <<>>
        /\ \A k \in Stream : k # MergeStream =>
             merges'[k] = merges[k] /\ snapshot'[k] = snapshot[k]
    BY <1>1 DEF MergeWrite, TypeOK, DeviceTypeOK
  <2>2. merges[MergeStream] \in Seq([task : Task, slot : Slot])
    BY Parameters DEF Parameters, TypeOK, DeviceTypeOK
  <2>3. \A i \in DOMAIN Tail(merges[MergeStream]) :
          /\ i + 1 \in DOMAIN merges[MergeStream]
          /\ Tail(merges[MergeStream])[i] = merges[MergeStream][i + 1]
    BY <1>1, <2>2, HeadTailProperties, LenProperties
  <2>4. \A i \in DOMAIN merges'[MergeStream] :
          /\ slotDone[merges'[MergeStream][i].slot] = merges'[MergeStream][i].task
          /\ InHand => merges'[MergeStream][i].slot # TheSlot
    BY <2>1, <2>3 DEF Flow, MergeQueue
  <2>5. AccOnGpu
    BY <1>1 DEF Flow, MergeQueue
  <2>6. InHand' = InHand /\ TheSlot' = TheSlot /\ slotDone' = slotDone
    BY <1>2 DEF InHand, TheSlot, host
  <2> QED BY <2>1, <2>4, <2>5, <2>6 DEF Flow, MergeQueue
<1> QED BY <1>3, <1>4, <1>5 DEF Flow

-----------------------------------------------------------------------------
(* Flow: the host. *)

\* Steps of the host that only move on to the next subproblem or to the end.
LEMMA NothingInHandFlow ==
  ASSUME TypeOK, Flow, ~ InHand, ~ InHand',
         UNCHANGED <<work, staging, input, ids, output, merges, snapshot, garbled,
                     slot, streams, slotDone>>
  PROVE  Flow'
<1>1. Pipeline' /\ OwnersDiffer' /\ OwnOutput' /\ garbled' = {}
  BY DEF Flow, Pipeline, SlotLeft, Computing, Staged, Loaded, OwnersDiffer, OwnOutput, Owner
<1>2. MergeQueue'
  BY DEF Flow, MergeQueue
<1> QED BY <1>1, <1>2 DEF Flow

\* A failure leaves the slot in hand as far as it came.
LEMMA FailureFlow ==
  ASSUME TypeOK, Flow, InHand, cur' = cur, pc' \in {"oom", "end"},
         UNCHANGED <<work, staging, input, ids, output, merges, snapshot, garbled,
                     slot, streams, slotDone>>
  PROVE  Flow'
<1>1. InHand' /\ TheSlot' = TheSlot
  BY DEF InHand, TheSlot
<1>2. Pipeline'
  <2> SUFFICES ASSUME NEW r \in Slot
               PROVE  (IF InHand /\ r = TheSlot THEN SlotInHand(r, cur) ELSE SlotLeft(r))'
    BY DEF Pipeline
  <2>1. CASE r = TheSlot
    BY <1>1, <2>1
    DEF Flow, Pipeline, SlotInHand, Copying, Computing, Staged, Loaded, InHand
  <2>2. CASE r # TheSlot
    BY <1>1, <2>2 DEF Flow, Pipeline, SlotLeft, Computing, Staged, Loaded
  <2> QED BY <2>1, <2>2
<1>3. OwnersDiffer' /\ OwnOutput' /\ garbled' = {}
  BY <1>1 DEF Flow, OwnersDiffer, OwnOutput, Owner
<1>4. MergeQueue'
  BY <1>1 DEF Flow, MergeQueue
<1> QED BY <1>2, <1>3, <1>4 DEF Flow

\* After a recovery the streams are idle and no slot is guarded.
LEMMA ResumeFlow ==
  ASSUME TypeOK, Flow, Synchronized, Resume, UNCHANGED device
  PROVE  Flow'
<1>1. ~ InHand' /\ \A s \in Slot : slotDone'[s] = NoTask
  BY DEF Resume, InHand
<1>2. \A s \in Slot : work'[s] = <<>>
  BY DEF Synchronized, device
<1>3. \A m \in Stream : merges'[m] = <<>> /\ snapshot'[m] = <<>>
  BY DEF Synchronized, device, Flow, MergeQueue
<1>4. Pipeline' /\ OwnersDiffer'
  BY <1>1, <1>2 DEF Pipeline, SlotLeft, OwnersDiffer, Owner
<1>5. OwnOutput' /\ garbled' = {}
  BY DEF Flow, OwnOutput, device
<1>6. MergeQueue'
  <2>1. MergeStream \in Stream
    BY Parameters DEF Parameters
  <2>2. merges'[MergeStream] = <<>> /\ snapshot'[MergeStream] = <<>>
    BY <1>3, <2>1
  <2> QED BY <1>1, <1>3, <2>2 DEF MergeQueue
<1> QED BY <1>4, <1>5, <1>6 DEF Flow

\* The slot the host waited for is idle, and no merge refers to it any more.
LEMMA WaitFlow ==
  ASSUME TypeOK, Flow, Ledger, Control, WaitAndGather
  PROVE  Flow'
<1> DEFINE s == TheSlot
<1>1. /\ s \in Slot /\ cur \in Task /\ cur # NoTask
      /\ ~ InHand /\ InHand' /\ TheSlot' = TheSlot
  BY TheSlotIsSlot, Decomposition
  DEF WaitAndGather, TypeOK, HostTypeOK, Decomposition, InHand, TheSlot
<1>2. /\ UNCHANGED <<cur, slot, streams, slotDone, work, input, ids, output, merges,
                     snapshot, garbled>>
      /\ pc' = "copy"
      /\ \A r \in Slot : r # s => staging'[r] = staging[r]
      /\ Staged(s, cur)'
  BY <1>1 DEF WaitAndGather, TypeOK, DeviceTypeOK, Staged
<1>3. SlotLeft(s)
  BY <1>1 DEF Flow, Pipeline
<1>4. work[s] = <<>>
  <2>1. CASE slotDone[s] = NoTask
    BY <1>3, <2>1 DEF SlotLeft
  <2>2. CASE slotDone[s] # NoTask
    <3>1. Computing(s, slotDone[s]) /\ ~ Queued(slotDone[s])
      BY <1>3, <2>2 DEF SlotLeft, WaitAndGather, SlotFree
    <3>2. ASSUME work[s] # <<>> PROVE FALSE
      <4>1. \/ work[s] = <<CopyOf(slotDone[s]), KernelOf(slotDone[s])>>
            \/ work[s] = <<KernelOf(slotDone[s])>>
        BY <3>1, <3>2 DEF Computing
      <4>2. 1 \in DOMAIN work[s] /\ work[s][1].task = slotDone[s]
        BY <4>1 DEF CopyOf, KernelOf
      <4> QED BY <1>1, <3>1, <4>2 DEF Queued
    <3> QED BY <3>2
  <2> QED BY <2>1, <2>2
<1>5. \A i \in DOMAIN merges[MergeStream] : merges[MergeStream][i].slot # s
  <2> SUFFICES ASSUME NEW i \in DOMAIN merges[MergeStream],
                      merges[MergeStream][i].slot = s
               PROVE  FALSE
    OBVIOUS
  <2>1. slotDone[s] = merges[MergeStream][i].task
    BY DEF Flow, MergeQueue
  <2>2. MergeStream \in Stream /\ merges[MergeStream] \in Seq([task : Task, slot : Slot])
    BY Parameters DEF Parameters, TypeOK, DeviceTypeOK
  <2>3. merges[MergeStream][i] \in [task : Task, slot : Slot]
    BY <2>2, LenProperties, ElementOfSeq
  <2>4. slotDone[s] # NoTask
    BY <2>1, <2>3, Decomposition DEF Decomposition
  <2>5. Queued(slotDone[s])
    BY <2>1, <2>2 DEF Queued
  <2> QED BY <2>4, <2>5 DEF WaitAndGather, SlotFree
<1>6. \A r \in Slot : slotDone[r] # cur
  <2>1. Accounted
    BY DEF WaitAndGather, Control, Accounted
  <2>2. cur \notin Issued
    BY <1>1, <2>1, Lineage DEF Ledger, LedgerDisjoint, Held, Apart, Lineage
  <2> QED BY <1>1, <2>1, <2>2 DEF Ledger, SlotsIssued
<1>7. Pipeline'
  <2> SUFFICES ASSUME NEW r \in Slot
               PROVE  (IF InHand /\ r = TheSlot THEN SlotInHand(r, cur) ELSE SlotLeft(r))'
    BY DEF Pipeline
  <2>1. CASE r = s
    BY <1>1, <1>2, <1>4, <2>1 DEF SlotInHand
  <2>2. CASE r # s
    BY <1>1, <1>2, <2>2 DEF Flow, Pipeline, SlotLeft, Computing, Staged, Loaded
  <2> QED BY <2>1, <2>2
<1>8. OwnersDiffer'
  BY <1>1, <1>2, <1>6 DEF Flow, OwnersDiffer, Owner
<1>9. OwnOutput' /\ garbled' = {}
  BY <1>2 DEF Flow, OwnOutput
<1>10. MergeQueue'
  BY <1>1, <1>2, <1>5 DEF Flow, MergeQueue
<1> QED BY <1>7, <1>8, <1>9, <1>10 DEF Flow

\* The upload is enqueued on an idle stream.
LEMMA EnqueueCopyFlow ==
  ASSUME TypeOK, Flow, EnqueueCopy
  PROVE  Flow'
<1> DEFINE s == TheSlot
<1>1. /\ s \in Slot /\ cur \in Task /\ cur # NoTask
      /\ InHand /\ InHand' /\ TheSlot' = TheSlot
  BY TheSlotIsSlot, Decomposition
  DEF EnqueueCopy, TypeOK, HostTypeOK, Decomposition, InHand, TheSlot
<1>2. /\ UNCHANGED <<cur, slot, streams, slotDone, staging, input, ids, output, merges,
                     snapshot, garbled>>
      /\ pc = "copy" /\ pc' = "kernel"
  BY DEF EnqueueCopy
<1>3. work[s] = <<>> /\ Staged(s, cur)
  BY <1>1, <1>2 DEF Flow, Pipeline, SlotInHand
<1>4. /\ work'[s] = <<CopyOf(cur)>>
      /\ \A r \in Slot : r # s => work'[r] = work[r]
  BY <1>1, <1>3, ShortQueues DEF EnqueueCopy, Enqueue, CopyOf, TypeOK, DeviceTypeOK
<1>5. Pipeline'
  <2> SUFFICES ASSUME NEW r \in Slot
               PROVE  (IF InHand /\ r = TheSlot THEN SlotInHand(r, cur) ELSE SlotLeft(r))'
    BY DEF Pipeline
  <2>1. CASE r = s
    BY <1>1, <1>2, <1>3, <1>4, <2>1 DEF SlotInHand, Copying, Staged, CopyOf
  <2>2. CASE r # s
    BY <1>1, <1>2, <1>4, <2>2 DEF Flow, Pipeline, SlotLeft, Computing, Staged, Loaded
  <2> QED BY <2>1, <2>2
<1>6. OwnersDiffer' /\ OwnOutput' /\ garbled' = {}
  BY <1>1, <1>2 DEF Flow, OwnersDiffer, OwnOutput, Owner
<1>7. MergeQueue'
  BY <1>1, <1>2 DEF Flow, MergeQueue
<1> QED BY <1>5, <1>6, <1>7 DEF Flow

\* The kernel is enqueued behind the upload of the same subproblem.
LEMMA EnqueueKernelFlow ==
  ASSUME TypeOK, Flow, EnqueueKernel
  PROVE  Flow'
<1> DEFINE s == TheSlot
<1>1. /\ s \in Slot /\ cur \in Task /\ cur # NoTask
      /\ InHand /\ InHand' /\ TheSlot' = TheSlot /\ Owner(s) = cur
  BY TheSlotIsSlot, Decomposition
  DEF EnqueueKernel, TypeOK, HostTypeOK, Decomposition, InHand, TheSlot, Owner
<1>2. /\ UNCHANGED <<cur, slot, streams, slotDone, staging, input, ids, merges,
                     snapshot, garbled>>
      /\ pc = "kernel" /\ pc' = "merge"
      /\ output'[cur] = NoTask
      /\ \A u \in Task : u # cur => output'[u] = output[u]
  BY <1>1 DEF EnqueueKernel, TypeOK, DeviceTypeOK
<1>3. \/ work[s] = <<CopyOf(cur)>> /\ Staged(s, cur)
      \/ work[s] = <<>> /\ Loaded(s, cur)
  BY <1>1, <1>2 DEF Flow, Pipeline, SlotInHand, Copying
<1>4. /\ work'[s] = Append(work[s], KernelOf(cur))
      /\ \A r \in Slot : r # s => work'[r] = work[r]
  BY <1>1 DEF EnqueueKernel, Enqueue, KernelOf, TypeOK, DeviceTypeOK
<1>5. Computing(s, cur)'
  <2>1. CASE work[s] = <<CopyOf(cur)>> /\ Staged(s, cur)
    <3>1. work'[s] = <<CopyOf(cur), KernelOf(cur)>>
      BY <1>4, <2>1, ShortQueues
    <3> QED BY <1>1, <1>2, <2>1, <3>1 DEF Computing, Staged, CopyOf, KernelOf
  <2>2. CASE work[s] = <<>> /\ Loaded(s, cur)
    <3>1. work'[s] = <<KernelOf(cur)>>
      BY <1>4, <2>2, ShortQueues
    <3> QED BY <1>1, <1>2, <2>2, <3>1 DEF Computing, Loaded, CopyOf, KernelOf
  <2> QED BY <1>3, <2>1, <2>2
<1>6. Pipeline'
  <2> SUFFICES ASSUME NEW r \in Slot
               PROVE  (IF InHand /\ r = TheSlot THEN SlotInHand(r, cur) ELSE SlotLeft(r))'
    BY DEF Pipeline
  <2>1. CASE r = s
    BY <1>1, <1>2, <1>5, <2>1 DEF SlotInHand
  <2>2. CASE r # s
    <3>1. slotDone[r] # NoTask => slotDone[r] \in Task /\ slotDone[r] # cur
      BY <1>1, <2>2 DEF Flow, OwnersDiffer, Owner, TypeOK, HostTypeOK
    <3> QED BY <1>1, <1>2, <1>4, <2>2, <3>1
            DEF Flow, Pipeline, SlotLeft, Computing, Staged, Loaded
  <2> QED BY <2>1, <2>2
<1>7. OwnersDiffer' /\ OwnOutput' /\ garbled' = {}
  BY <1>1, <1>2 DEF Flow, OwnersDiffer, OwnOutput, Owner
<1>8. MergeQueue'
  <2>1. ASSUME snapshot[MergeStream] # <<>>
        PROVE  Head(merges[MergeStream]).task \in Task \ {cur}
    <3>1. merges[MergeStream] # <<>>
      BY <2>1 DEF Flow, MergeQueue
    <3>2. MergeStream \in Stream /\ 1 \in DOMAIN merges[MergeStream]
      BY <3>1, HeadOfMerges, Parameters DEF Parameters
    <3>3. Head(merges[MergeStream]).slot # s
      BY <1>1, <3>1, <3>2, HeadOfMerges DEF Flow, MergeQueue
    <3> QED BY <1>1, <3>1, <3>3, HeadOfMerges DEF Flow, OwnersDiffer
  <2> QED BY <1>1, <1>2, <2>1 DEF Flow, MergeQueue
<1> QED BY <1>6, <1>7, <1>8 DEF Flow

\* Leaving the slot to its merge: it is owned by what its done event guards.
LEMMA TaskDoneFlow ==
  ASSUME TypeOK, Flow, pc = "merge", TaskDone, Computing(TheSlot, cur),
         UNCHANGED <<work, staging, input, ids, output>>
  PROVE  /\ ~ InHand' /\ cur # NoTask
         /\ slotDone'[TheSlot] = cur
         /\ \A r \in Slot : r # TheSlot => slotDone'[r] = slotDone[r]
         /\ Pipeline' /\ OwnersDiffer' /\ OwnOutput'
<1> DEFINE s == TheSlot
<1>1. /\ s \in Slot /\ cur \in Task /\ cur # NoTask /\ InHand
  BY TheSlotIsSlot, Decomposition DEF TypeOK, HostTypeOK, Decomposition, InHand
<1>2. /\ ~ InHand'
      /\ slotDone'[s] = cur
      /\ \A r \in Slot : r # s => slotDone'[r] = slotDone[r]
  BY <1>1 DEF TaskDone, InHand, TypeOK, HostTypeOK
<1>3. Pipeline'
  <2> SUFFICES ASSUME NEW r \in Slot PROVE SlotLeft(r)'
    BY <1>2 DEF Pipeline
  <2>1. CASE r = s
    BY <1>1, <1>2, <2>1 DEF SlotLeft, Computing, Staged, Loaded
  <2>2. CASE r # s
    BY <1>1, <1>2, <2>2 DEF Flow, Pipeline, SlotLeft, Computing, Staged, Loaded
  <2> QED BY <2>1, <2>2
<1>4. \A r \in Slot : Owner(r)' = Owner(r)
  BY <1>1, <1>2 DEF Owner
<1> QED BY <1>1, <1>2, <1>3, <1>4 DEF Flow, OwnersDiffer, OwnOutput

\* The merge is enqueued behind its kernel, and the slot becomes guarded by it.
LEMMA EnqueueMergeFlow ==
  ASSUME TypeOK, Flow, EnqueueMerge
  PROVE  Flow'
<1> DEFINE s == TheSlot
           e == [task |-> cur, slot |-> s]
           q == merges[MergeStream]
<1>1. /\ s \in Slot /\ cur \in Task /\ InHand /\ Computing(s, cur)
      /\ pc = "merge" /\ AccOnGpu /\ TaskDone
      /\ UNCHANGED <<work, staging, input, ids, output, snapshot, acc, garbled>>
  BY TheSlotIsSlot, Decomposition
  DEF EnqueueMerge, TypeOK, HostTypeOK, Decomposition, InHand, Flow, Pipeline, SlotInHand
<1>2. /\ ~ InHand'
      /\ slotDone'[s] = cur
      /\ \A r \in Slot : r # s => slotDone'[r] = slotDone[r]
      /\ Pipeline' /\ OwnersDiffer' /\ OwnOutput'
  BY <1>1, TaskDoneFlow
<1>3. /\ MergeStream \in Stream
      /\ q \in Seq([task : Task, slot : Slot])
      /\ e \in [task : Task, slot : Slot]
  BY <1>1, Parameters DEF Parameters, TypeOK, DeviceTypeOK
<1>4. /\ merges'[MergeStream] = Append(q, e)
      /\ \A m \in Stream : m # MergeStream => merges'[m] = merges[m]
  BY <1>3 DEF EnqueueMerge, MergeStreamOf, TypeOK, DeviceTypeOK
<1>5. \A i \in DOMAIN Append(q, e) :
        Append(q, e)[i] = e \/ (i \in DOMAIN q /\ Append(q, e)[i] = q[i])
  <2> HIDE DEF q, e
  <2> QED BY <1>3, AppendProperties, LenProperties
<1>6. \A i \in DOMAIN q : q[i] \in [task : Task, slot : Slot]
  <2> HIDE DEF q
  <2> QED BY <1>3, ElementOfSeq, LenProperties
<1>7. \A i \in DOMAIN merges'[MergeStream] :
        slotDone'[merges'[MergeStream][i].slot] = merges'[MergeStream][i].task
  BY <1>1, <1>2, <1>4, <1>5, <1>6 DEF Flow, MergeQueue
<1>8. snapshot[MergeStream] # <<>> =>
        merges'[MergeStream] # <<>> /\ Head(merges'[MergeStream]) = Head(q)
  <2>1. ASSUME q # <<>> PROVE Append(q, e) # <<>> /\ Head(Append(q, e)) = Head(q)
    <3> HIDE DEF q, e
    <3> QED BY <1>3, <2>1, AppendProperties, HeadTailProperties, LenProperties, EmptySeq
  <2> QED BY <1>4, <2>1 DEF Flow, MergeQueue
<1>9. MergeQueue'
  BY <1>1, <1>2, <1>4, <1>7, <1>8 DEF Flow, MergeQueue
<1> QED BY <1>1, <1>2, <1>9 DEF Flow

\* The host merges what the kernel of the subproblem itself has computed.
LEMMA MergeOnHostFlow ==
  ASSUME TypeOK, Flow, MergeOnHost
  PROVE  Flow'
<1> DEFINE s == TheSlot
<1>1. /\ s \in Slot /\ cur \in Task /\ InHand /\ Computing(s, cur)
      /\ pc = "merge" /\ TaskDone
      /\ UNCHANGED <<work, staging, input, ids, output, merges, snapshot>>
  BY TheSlotIsSlot, Decomposition
  DEF MergeOnHost, TypeOK, HostTypeOK, Decomposition, InHand, Flow, Pipeline, SlotInHand
<1>2. /\ ~ InHand' /\ Pipeline' /\ OwnersDiffer' /\ OwnOutput'
  BY <1>1, TaskDoneFlow
<1>3. output[cur] = cur
  BY <1>1 DEF MergeOnHost, Flow, OwnOutput
<1>4. garbled' = {}
  BY <1>3 DEF MergeOnHost, Flow
<1>5. MergeQueue'
  <2>1. merges[MergeStream] = <<>> /\ snapshot[MergeStream] = <<>>
    BY DEF MergeOnHost, Flow, MergeQueue
  <2> QED BY <1>1, <2>1 DEF Flow, MergeQueue
<1> QED BY <1>2, <1>4, <1>5 DEF Flow

\* Every step keeps the streams carrying their owners' data.
LEMMA NextFlow ==
  ASSUME IInv, [Next]_vars
  PROVE  Flow'
<1> USE DEF IInv
<1>1. CASE Setup
  BY <1>1, NothingInHandFlow DEF Setup, Control, InHand, device
<1>2. CASE PopTask
  BY <1>2, NothingInHandFlow DEF PopTask, Control, InHand, device
<1>3. CASE WaitAndGather BY <1>3, WaitFlow
<1>4. CASE EnqueueCopy BY <1>4, EnqueueCopyFlow
<1>5. CASE EnqueueKernel BY <1>5, EnqueueKernelFlow
<1>6. CASE EnqueueMerge BY <1>6, EnqueueMergeFlow
<1>7. CASE MergeOnHost BY <1>7, MergeOnHostFlow
<1>8. CASE RunOut \/ TearMerge \/ Fault \/ RefuseDirty \/ GiveUp
  <2>1. cur \in Task /\ cur # NoTask /\ InHand
    BY <1>8, Decomposition
    DEF RunOut, TearMerge, Fault, RefuseDirty, GiveUp, TypeOK, HostTypeOK, InHand, Decomposition
  <2> QED BY <1>8, <2>1, FailureFlow
          DEF RunOut, TearMerge, Fault, RefuseDirty, GiveUp, device
<1>9. CASE Halve BY <1>9, ResumeFlow DEF Halve
<1>10. CASE Split BY <1>10, ResumeFlow DEF Split
<1>11. CASE Return
  BY <1>11, NothingInHandFlow DEF Return, Control, InHand, device
<1>12. CASE \E s \in Slot : WorkerNext(s)
  BY <1>12, CopyFlow, KernelFlow DEF WorkerNext
<1>13. CASE \E m \in Stream : MergeNext(m)
  BY <1>13, MergeReadFlow, MergeWriteFlow DEF MergeNext
<1>14. CASE UNCHANGED vars
  BY <1>14
  DEF vars, host, device, Flow, Pipeline, SlotInHand, SlotLeft, Copying, Computing, Staged,
      Loaded, OwnersDiffer, OwnOutput, MergeQueue, Owner, InHand, TheSlot
<1> QED
  BY <1>1, <1>2, <1>3, <1>4, <1>5, <1>6, <1>7, <1>8, <1>9, <1>10, <1>11, <1>12, <1>13,
     <1>14 DEF Next, HostNext, Finished

-----------------------------------------------------------------------------
(* The ledger. *)

\* Subproblems apart from each other are different and share no pair.
LEMMA ApartFacts ==
  ASSUME NEW t \in Task, NEW u \in Task
  PROVE  /\ ~ Apart(t, t)
         /\ Apart(t, u) => Apart(u, t) /\ Keep[t] \cap Keep[u] = {}
BY Lineage DEF Lineage, Apart

\* Steps that move no subproblem.
LEMMA LedgerFrame ==
  ASSUME Ledger, UNCHANGED <<pending, cur, merges, acc, slotDone>>,
         snapshot'[MergeStream] \in {snapshot[MergeStream], <<acc>>, <<>>},
         Accounted' => Accounted
  PROVE  Ledger'
<1> SUFFICES ASSUME Accounted' PROVE (Ledger')
  BY DEF Ledger
<1>1. Issued' = Issued /\ Held' = Held /\ \A t \in Task : InMerges(t)' = InMerges(t)
  BY DEF Issued, Held, InMerges
<1>2. /\ LedgerDisjoint /\ MergedOnce /\ LedgerCovers /\ SlotsIssued /\ SnapshotFresh
  BY DEF Ledger
<1>3. LedgerDisjoint' BY <1>1, <1>2 DEF LedgerDisjoint, Unrelated, Apart
<1>4. MergedOnce' BY <1>1, <1>2 DEF MergedOnce
<1>5. LedgerCovers' BY <1>1, <1>2 DEF LedgerCovers
<1>6. SlotsIssued' BY <1>1, <1>2 DEF SlotsIssued
<1>7. SnapshotFresh' BY <1>2 DEF SnapshotFresh
<1> QED BY <1>3, <1>4, <1>5, <1>6, <1>7 DEF Ledger

\* Taking the next subproblem keeps the ledger: it moves from the list into the
\* host's hand.
LEMMA PopLedger ==
  ASSUME TypeOK, Ledger, PopTask, cur = NoTask
  PROVE  Ledger'
<1> SUFFICES ASSUME Accounted' PROVE (Ledger')
  BY DEF Ledger
<1>1. /\ pending \in Seq(Task) /\ pending # <<>>
      /\ UNCHANGED <<merges, acc, slotDone, snapshot>>
  BY DEF PopTask, TypeOK, HostTypeOK, device
<1>2. /\ cur' = pending[1] /\ 1 \in DOMAIN pending /\ cur' \in Task
      /\ pending' = Tail(pending)
      /\ \A i \in DOMAIN pending' : /\ i + 1 \in DOMAIN pending /\ i + 1 # 1
                                    /\ pending'[i] = pending[i + 1]
  BY <1>1, HeadTailProperties, LenProperties DEF PopTask
<1>3. \A i \in DOMAIN pending : i = 1 \/ i - 1 \in DOMAIN pending'
  BY <1>1, <1>2, HeadTailProperties, LenProperties
<1>4. Issued' = Issued /\ Held = {} /\ Held' = {pending[1]}
  BY <1>1, <1>2, Decomposition DEF Issued, Held, InMerges, Decomposition
<1>5. /\ LedgerDisjoint /\ MergedOnce /\ LedgerCovers /\ SlotsIssued /\ SnapshotFresh
  BY DEF Ledger, PopTask, Accounted
<1>6. LedgerDisjoint'
  <2>1. Unrelated(pending)'
    BY <1>2, <1>5 DEF LedgerDisjoint, Unrelated
  <2>2. \A i \in DOMAIN pending' : \A u \in Issued' \cup Held' : Apart(pending'[i], u)
    BY <1>2, <1>4, <1>5 DEF LedgerDisjoint, Unrelated, Apart
  <2>3. \A t \in Held', u \in Issued' : Apart(t, u)
    BY <1>2, <1>4, <1>5 DEF LedgerDisjoint
  <2>4. \A t, u \in Issued' : t # u => Apart(t, u)
    BY <1>4, <1>5 DEF LedgerDisjoint
  <2> QED BY <2>1, <2>2, <2>3, <2>4 DEF LedgerDisjoint, Apart
<1>7. LedgerCovers'
  <2> SUFFICES ASSUME NEW p \in Pairs
               PROVE  \/ \E i \in DOMAIN pending' : p \in Keep[pending'[i]]
                      \/ \E t \in Issued' \cup Held' : p \in Keep[t]
    BY DEF LedgerCovers
  <2>1. CASE \E t \in Issued : p \in Keep[t]
    BY <1>4, <2>1
  <2>2. CASE \E i \in DOMAIN pending : p \in Keep[pending[i]]
    <3>1. PICK i \in DOMAIN pending : p \in Keep[pending[i]]
      BY <2>2
    <3>2. CASE i = 1
      BY <1>4, <3>1, <3>2
    <3>3. CASE i # 1
      <4>1. i - 1 \in DOMAIN pending' /\ i \in Int
        BY <1>1, <1>3, <3>3, LenProperties
      <4>2. pending'[i - 1] = pending[i]
        BY <1>2, <4>1
      <4> QED BY <3>1, <4>1, <4>2
    <3> QED BY <3>2, <3>3
  <2> QED BY <1>4, <1>5, <2>1, <2>2 DEF LedgerCovers
<1>8. MergedOnce' /\ SlotsIssued' /\ SnapshotFresh'
  BY <1>1, <1>4, <1>5 DEF MergedOnce, SlotsIssued, SnapshotFresh, InMerges
<1> QED BY <1>6, <1>7, <1>8 DEF Ledger

\* The subproblem in hand moves to those whose merge is issued.
LEMMA IssueLedger ==
  ASSUME TypeOK, Ledger, Accounted, cur \in Task, cur' = NoTask,
         Issued' = Issued \cup {cur}, MergedOnce', SnapshotFresh',
         pending' = pending,
         \A s \in Slot : slotDone'[s] \in {slotDone[s], cur}
  PROVE  Ledger'
<1>1. Held = {cur} /\ Held' = {}
  BY Decomposition DEF Held, Decomposition
<1>2. LedgerDisjoint /\ LedgerCovers /\ SlotsIssued
  BY DEF Ledger
<1>3. Issued \subseteq Task
  BY DEF Issued
<1>4. LedgerDisjoint'
  <2>1. Unrelated(pending)'
    BY <1>2 DEF LedgerDisjoint, Unrelated
  <2>2. \A i \in DOMAIN pending' : \A u \in Issued' \cup Held' : Apart(pending'[i], u)
    BY <1>1, <1>2 DEF LedgerDisjoint
  <2>3. \A t, u \in Issued' : t # u => Apart(t, u)
    BY <1>1, <1>2, <1>3, ApartFacts DEF LedgerDisjoint
  <2> QED BY <1>1, <2>1, <2>2, <2>3 DEF LedgerDisjoint, Apart
<1>5. LedgerCovers'
  BY <1>1, <1>2 DEF LedgerCovers
<1>6. SlotsIssued'
  BY <1>2 DEF SlotsIssued
<1> QED BY <1>4, <1>5, <1>6 DEF Ledger

\* Enqueuing a merge keeps the ledger: the subproblem moves to the issued ones.
LEMMA EnqueueMergeLedger ==
  ASSUME IInv, EnqueueMerge
  PROVE  Ledger'
<1> USE DEF IInv
<1> DEFINE e == [task |-> cur, slot |-> TheSlot]
           q == merges[MergeStream]
<1>1. /\ Accounted /\ cur \in Task
      /\ LedgerDisjoint /\ MergedOnce /\ SnapshotFresh
  BY DEF EnqueueMerge, Control, Accounted, TypeOK, HostTypeOK, Ledger
<1>2. /\ cur' = NoTask
      /\ UNCHANGED <<pending, acc, snapshot>>
      /\ \A s \in Slot : slotDone'[s] \in {slotDone[s], cur}
  BY DEF EnqueueMerge, TaskDone, TypeOK, HostTypeOK
<1>3. /\ q \in Seq([task : Task, slot : Slot])
      /\ e \in [task : Task, slot : Slot]
      /\ merges'[MergeStream] = Append(q, e)
  BY <1>1, TheSlotIsSlot, Parameters
  DEF Parameters, TypeOK, DeviceTypeOK, EnqueueMerge, MergeStreamOf
<1>4. /\ \A i \in DOMAIN q : i \in DOMAIN Append(q, e) /\ Append(q, e)[i] = q[i]
      /\ \A i \in DOMAIN Append(q, e) : i \in DOMAIN q \/ i = Len(q) + 1
      /\ Len(q) + 1 \in DOMAIN Append(q, e) /\ Append(q, e)[Len(q) + 1] = e
  <2> HIDE DEF q, e
  <2> QED BY <1>3, AppendProperties, LenProperties
<1>5. \A t \in Task : InMerges(t)' <=> InMerges(t) \/ t = cur
  BY <1>3, <1>4 DEF InMerges
<1>6. Issued' = Issued \cup {cur}
  BY <1>1, <1>2, <1>5 DEF Issued
<1>7. cur \notin Issued
  BY <1>1, ApartFacts DEF LedgerDisjoint, Held
<1>8. ~ InMerges(cur) /\ acc[cur] = 0
  BY <1>1, <1>7 DEF Issued, TypeOK, DeviceTypeOK
<1>9. MergedOnce'
  <2>1. \A i, j \in DOMAIN Append(q, e) : Append(q, e)[i].task = Append(q, e)[j].task => i = j
    <3> SUFFICES ASSUME NEW i \in DOMAIN Append(q, e), NEW j \in DOMAIN Append(q, e),
                        Append(q, e)[i].task = Append(q, e)[j].task
                 PROVE  i = j
      OBVIOUS
    <3>1. CASE i \in DOMAIN q /\ j \in DOMAIN q
      BY <1>1, <1>4, <3>1 DEF MergedOnce
    <3>2. CASE i \in DOMAIN q /\ j = Len(q) + 1
      BY <1>4, <1>8, <3>2 DEF InMerges
    <3>3. CASE i = Len(q) + 1 /\ j \in DOMAIN q
      BY <1>4, <1>8, <3>3 DEF InMerges
    <3> QED BY <1>4, <3>1, <3>2, <3>3
  <2> HIDE DEF q, e
  <2> QED BY <1>1, <1>2, <1>3, <1>5, <1>8, <2>1 DEF MergedOnce
<1>10. SnapshotFresh'
  BY <1>1, <1>2 DEF SnapshotFresh
<1> QED BY <1>1, <1>2, <1>6, <1>9, <1>10, IssueLedger

\* So does a merge in the host thread.
LEMMA MergeOnHostLedger ==
  ASSUME IInv, MergeOnHost
  PROVE  Ledger'
<1> USE DEF IInv
<1>1. /\ Accounted /\ cur \in Task
      /\ LedgerDisjoint /\ MergedOnce
      /\ merges[MergeStream] = <<>> /\ snapshot[MergeStream] = <<>>
  BY DEF MergeOnHost, Control, Accounted, TypeOK, HostTypeOK, Ledger, Flow, MergeQueue
<1>2. output[cur] = cur
  BY <1>1 DEF MergeOnHost, Flow, OwnOutput
<1>3. /\ cur' = NoTask
      /\ UNCHANGED <<pending, merges, snapshot>>
      /\ \A s \in Slot : slotDone'[s] \in {slotDone[s], cur}
  BY DEF MergeOnHost, TaskDone, TypeOK, HostTypeOK
<1>4. cur \notin Issued
  BY <1>1, ApartFacts DEF LedgerDisjoint, Held
<1>5. acc[cur] = 0
  BY <1>1, <1>4 DEF Issued, TypeOK, DeviceTypeOK
<1>6. acc' = [acc EXCEPT ![cur] = 1]
  BY <1>2, <1>5 DEF MergeOnHost
<1>7. /\ acc'[cur] = 1
      /\ \A t \in Task : t # cur => acc'[t] = acc[t]
  BY <1>1, <1>6 DEF TypeOK, DeviceTypeOK
<1>8. \A t \in Task : ~ InMerges(t) /\ ~ InMerges(t)'
  BY <1>1, <1>3 DEF InMerges
<1>9. Issued' = Issued \cup {cur}
  BY <1>1, <1>7, <1>8 DEF Issued
<1>10. MergedOnce'
  BY <1>1, <1>3, <1>7, <1>8 DEF MergedOnce
<1>11. SnapshotFresh'
  BY <1>1, <1>3 DEF SnapshotFresh
<1> QED BY <1>1, <1>3, <1>9, <1>10, <1>11, IssueLedger

\* A merge that completes keeps the ledger: its contribution moves from the
\* queue into the accumulator, and no other update is lost.
LEMMA MergeWriteLedger ==
  ASSUME IInv, NEW m \in Stream, MergeWrite(m)
  PROVE  Ledger'
<1> USE DEF IInv
<1> SUFFICES ASSUME Accounted' PROVE (Ledger')
  BY DEF Ledger
<1> DEFINE q == merges[MergeStream]
<1>18. PICK t : t = Head(q).task
  OBVIOUS
<1>1. m = MergeStream /\ q # <<>> /\ output[t] # NoTask /\ snapshot[MergeStream] # <<>>
  BY <1>18 DEF MergeWrite, Flow, MergeQueue
<1>2. /\ UNCHANGED <<host, work, staging, input, ids, output>>
      /\ merges'[MergeStream] = Tail(q) /\ snapshot'[MergeStream] = <<>>
  BY <1>1 DEF MergeWrite, TypeOK, DeviceTypeOK
<1>3. /\ LedgerDisjoint /\ MergedOnce /\ LedgerCovers /\ SlotsIssued /\ SnapshotFresh
  BY <1>2 DEF Ledger, Accounted, host
<1>4. t \in Task /\ output[t] = t /\ q[1].task = t /\ 1 \in DOMAIN q
  BY <1>1, <1>18, HeadOfMerges
<1>5. snapshot[m][1] = acc
  BY <1>1, <1>3 DEF SnapshotFresh
<1>6. acc' = [acc EXCEPT ![t] = @ + 1]
  BY <1>1, <1>4, <1>5, <1>18 DEF MergeWrite
<1>7. acc[t] = 0
  BY <1>3, <1>4 DEF MergedOnce, InMerges
<1>8. /\ acc'[t] = 1
      /\ \A u \in Task : u # t => acc'[u] = acc[u]
  BY <1>4, <1>6, <1>7 DEF TypeOK, DeviceTypeOK
<1>9. /\ \A i \in DOMAIN Tail(q) : /\ i + 1 \in DOMAIN q /\ i \in Nat /\ i + 1 # 1
                                   /\ Tail(q)[i] = q[i + 1]
      /\ \A i \in DOMAIN q : i = 1 \/ (i - 1 \in DOMAIN Tail(q) /\ Tail(q)[i - 1] = q[i])
  <2>1. q \in Seq([task : Task, slot : Slot])
    BY Parameters DEF Parameters, TypeOK, DeviceTypeOK
  <2> HIDE DEF q
  <2> QED BY <1>1, <2>1, HeadTailProperties, LenProperties, SMTT(30)
<1>17. \A i, j \in DOMAIN q : q[i].task = q[j].task => i = j
  BY <1>3 DEF MergedOnce
<1>10. ~ InMerges(t)'
  <2>1. ASSUME NEW i \in DOMAIN Tail(q), Tail(q)[i].task = t PROVE FALSE
    <3> HIDE DEF q
    <3>1. i + 1 \in DOMAIN q /\ q[i + 1].task = q[1].task /\ i + 1 # 1
      BY <1>4, <1>9, <2>1
    <3>2. PICK k \in DOMAIN q : k # 1 /\ q[k].task = q[1].task
      BY <3>1
    <3>3. k = 1
      BY <1>4, <1>17, <3>2, Zenon
    <3> QED BY <3>2, <3>3
  <2> QED BY <1>2, <2>1 DEF InMerges
<1>11. \A u \in Task : u # t => (InMerges(u)' <=> InMerges(u))
  <2> SUFFICES ASSUME NEW u \in Task, u # t
               PROVE  (\E i \in DOMAIN Tail(q) : Tail(q)[i].task = u)
                        <=> (\E i \in DOMAIN q : q[i].task = u)
    BY <1>2 DEF InMerges
  <2> HIDE DEF q
  <2>1. ASSUME NEW i \in DOMAIN Tail(q), Tail(q)[i].task = u
        PROVE  \E j \in DOMAIN q : q[j].task = u
    BY <1>9, <2>1
  <2>2. ASSUME NEW i \in DOMAIN q, q[i].task = u
        PROVE  \E j \in DOMAIN Tail(q) : Tail(q)[j].task = u
    <3>1. i # 1 BY <1>4, <2>2 DEF q
    <3> QED BY <1>9, <2>2, <3>1
  <2> QED BY <2>1, <2>2
<1>12. Issued' = Issued
  <2>1. t \in Issued /\ t \in Issued'
    BY <1>4, <1>8 DEF Issued, InMerges
  <2>2. \A u \in Task : u # t => (u \in Issued' <=> u \in Issued)
    BY <1>8, <1>11 DEF Issued
  <2> QED BY <2>1, <2>2 DEF Issued
<1>13. Held' = Held
  BY <1>2 DEF Held, host
<1>14. LedgerDisjoint'
  BY <1>2, <1>3, <1>12, <1>13 DEF LedgerDisjoint, Unrelated, Apart, host
<1>15. LedgerCovers' /\ SlotsIssued' /\ SnapshotFresh'
  BY <1>2, <1>3, <1>12, <1>13 DEF LedgerCovers, SlotsIssued, SnapshotFresh, host
<1>16. MergedOnce'
  <2>1. \A u \in Task : acc'[u] <= 1 /\ (InMerges(u)' => acc'[u] = 0)
    <3> SUFFICES ASSUME NEW u \in Task
                 PROVE  acc'[u] <= 1 /\ (InMerges(u)' => acc'[u] = 0)
      OBVIOUS
    <3>1. CASE u = t BY <1>8, <1>10, <3>1
    <3>2. CASE u # t BY <1>3, <1>8, <1>11, <3>2 DEF MergedOnce
    <3> QED BY <3>1, <3>2
  <2>2. \A i, j \in DOMAIN Tail(q) : Tail(q)[i].task = Tail(q)[j].task => i = j
    <3> SUFFICES ASSUME NEW i \in DOMAIN Tail(q), NEW j \in DOMAIN Tail(q),
                        Tail(q)[i].task = Tail(q)[j].task
                 PROVE  i = j
      OBVIOUS
    <3> HIDE DEF q
    <3>1. /\ i + 1 \in DOMAIN q /\ j + 1 \in DOMAIN q /\ i \in Nat /\ j \in Nat
          /\ q[i + 1].task = q[j + 1].task
      BY <1>9
    <3>2. i + 1 = j + 1
      BY <1>17, <3>1
    <3> QED BY <3>1, <3>2
  <2> QED BY <1>2, <2>1, <2>2 DEF MergedOnce
<1> QED BY <1>14, <1>15, <1>16 DEF Ledger

\* The elements of a list in front of another.
LEMMA ConcatElements ==
  ASSUME NEW S, NEW f \in Seq(S), NEW g \in Seq(S)
  PROVE  /\ DOMAIN f = 1 .. Len(f) /\ Len(f) \in Nat
         /\ DOMAIN g = 1 .. Len(g) /\ Len(g) \in Nat
         /\ DOMAIN (f \o g) = 1 .. Len(f) + Len(g)
         /\ \A i \in 1 .. Len(f) : (f \o g)[i] = f[i]
         /\ \A i \in Len(f) + 1 .. Len(f) + Len(g) : (f \o g)[i] = g[i - Len(f)]
         /\ \A i \in 1 .. Len(g) : (f \o g)[Len(f) + i] = g[i]
<1>1. /\ f \o g \in Seq(S) /\ Len(f \o g) = Len(f) + Len(g)
      /\ \A i \in 1 .. Len(f) + Len(g) :
           (f \o g)[i] = IF i <= Len(f) THEN f[i] ELSE g[i - Len(f)]
  BY ConcatProperties
<1>2. /\ DOMAIN f = 1 .. Len(f) /\ Len(f) \in Nat
      /\ DOMAIN g = 1 .. Len(g) /\ Len(g) \in Nat
      /\ DOMAIN (f \o g) = 1 .. Len(f) + Len(g)
  BY <1>1, LenProperties
<1> QED BY <1>1, <1>2

\* A subproblem that failed goes back to the list as itself or as its children:
\* as long as they keep what it keeps and share no pair, nothing is lost and
\* nothing is held twice.
LEMMA RequeueLedger ==
  ASSUME TypeOK, Ledger, Accounted, cur \in Task, cur' = NoTask,
         UNCHANGED device, \A s \in Slot : slotDone'[s] = NoTask,
         NEW front \in Seq(Task), pending' = front \o pending,
         Unrelated(front), Covers(front, Keep[cur]),
         \A i \in DOMAIN front : \A u \in Task : Apart(cur, u) => Apart(front[i], u)
  PROVE  Ledger'
<1>1. Held = {cur} /\ Held' = {}
  BY Decomposition DEF Held, Decomposition
<1>2. /\ LedgerDisjoint /\ MergedOnce /\ LedgerCovers /\ SnapshotFresh
      /\ Issued \subseteq Task /\ pending \in Seq(Task)
  BY DEF Ledger, Issued, TypeOK, HostTypeOK
<1>3. /\ Issued' = Issued
      /\ MergedOnce' /\ SnapshotFresh' /\ SlotsIssued'
  BY <1>2 DEF device, Issued, InMerges, MergedOnce, SnapshotFresh, SlotsIssued
<1> DEFINE n == Len(front)
<1>4. /\ n \in Nat /\ Len(pending) \in Nat
      /\ DOMAIN front = 1 .. n /\ DOMAIN pending = 1 .. Len(pending)
      /\ DOMAIN pending' = 1 .. n + Len(pending)
      /\ \A i \in 1 .. n : pending'[i] = front[i]
      /\ \A i \in n + 1 .. n + Len(pending) : pending'[i] = pending[i - n]
      /\ \A i \in 1 .. Len(pending) : pending'[n + i] = pending[i]
  BY <1>2, ConcatElements
<1>5. /\ \A i \in DOMAIN front : front[i] \in Task
      /\ \A i \in DOMAIN pending : pending[i] \in Task
  BY <1>2, <1>4, ElementOfSeq
<1> HIDE DEF n
<1>6. \A i \in DOMAIN pending' :
        \/ i \in DOMAIN front /\ pending'[i] = front[i]
        \/ i - n \in DOMAIN pending /\ pending'[i] = pending[i - n]
  BY <1>4
<1>7. \A i \in DOMAIN pending : Apart(cur, pending[i])
  BY <1>1, <1>2, <1>5, ApartFacts DEF LedgerDisjoint
<1>8. \A i \in DOMAIN front, j \in DOMAIN pending :
        Apart(front[i], pending[j]) /\ Apart(pending[j], front[i])
  BY <1>5, <1>7, ApartFacts
<1>9. Unrelated(pending')
  <2> SUFFICES ASSUME NEW i \in DOMAIN pending', NEW j \in DOMAIN pending', i # j
               PROVE  Apart(pending'[i], pending'[j])
    BY DEF Unrelated, Apart
  <2>1. CASE i \in DOMAIN front /\ pending'[i] = front[i]
             /\ j \in DOMAIN front /\ pending'[j] = front[j]
    BY <2>1 DEF Unrelated, Apart
  <2>2. CASE i - n \in DOMAIN pending /\ pending'[i] = pending[i - n]
             /\ j - n \in DOMAIN pending /\ pending'[j] = pending[j - n]
    <3>1. i - n # j - n
      BY <1>4
    <3> QED BY <1>2, <2>2, <3>1 DEF LedgerDisjoint, Unrelated, Apart
  <2> QED BY <1>6, <1>8, <2>1, <2>2
<1>10. \A i \in DOMAIN pending' : \A u \in Issued : Apart(pending'[i], u)
  <2> SUFFICES ASSUME NEW i \in DOMAIN pending', NEW u \in Issued
               PROVE  Apart(pending'[i], u)
    OBVIOUS
  <2>1. Apart(cur, u) /\ u \in Task
    BY <1>1, <1>2 DEF LedgerDisjoint
  <2>2. CASE i \in DOMAIN front /\ pending'[i] = front[i]
    BY <2>1, <2>2
  <2>3. CASE i - n \in DOMAIN pending /\ pending'[i] = pending[i - n]
    BY <1>2, <2>3 DEF LedgerDisjoint
  <2> QED BY <1>6, <2>2, <2>3
<1>11. LedgerDisjoint'
  <2>1. Unrelated(pending)'
    BY <1>9 DEF Unrelated
  <2> QED BY <1>1, <1>2, <1>3, <1>10, <2>1 DEF LedgerDisjoint, Apart
<1>12. LedgerCovers'
  <2> SUFFICES ASSUME NEW p \in Pairs
               PROVE  \/ \E i \in DOMAIN pending' : p \in Keep[pending'[i]]
                      \/ \E t \in Issued' \cup Held' : p \in Keep[t]
    BY DEF LedgerCovers
  <2>1. CASE \E t \in Issued : p \in Keep[t]
    BY <1>3, <2>1
  <2>2. CASE p \in Keep[cur]
    <3>1. PICK i \in DOMAIN front : p \in Keep[front[i]]
      BY <2>2 DEF Covers
    <3>2. i \in DOMAIN pending' /\ pending'[i] = front[i]
      BY <1>4, <3>1
    <3> QED BY <3>1, <3>2
  <2>3. CASE \E i \in DOMAIN pending : p \in Keep[pending[i]]
    <3>1. PICK i \in DOMAIN pending : p \in Keep[pending[i]]
      BY <2>3
    <3>2. n + i \in DOMAIN pending' /\ pending'[n + i] = pending[i]
      BY <1>4, <3>1
    <3> QED BY <3>1, <3>2
  <2> QED BY <1>1, <1>2, <2>1, <2>2, <2>3 DEF LedgerCovers
<1> QED BY <1>3, <1>11, <1>12 DEF Ledger

\* Lowering the concurrency keeps the ledger: the subproblem is put back.
LEMMA HalveLedger ==
  ASSUME TypeOK, Control, Ledger, Halve
  PROVE  Ledger'
<1> DEFINE front == <<cur>>
<1>1. /\ cur \in Task /\ Accounted
      /\ cur' = NoTask /\ UNCHANGED device /\ pending' = front \o pending
      /\ \A s \in Slot : slotDone'[s] = NoTask
  BY DEF Halve, Resume, MergeTorn, TypeOK, HostTypeOK, Control, Accounted
<1>2. front \in Seq(Task) /\ DOMAIN front = {1} /\ front[1] = cur
  BY <1>1
<1> HIDE DEF front
<1>3. /\ Unrelated(front) /\ Covers(front, Keep[cur])
      /\ \A i \in DOMAIN front : \A u \in Task : Apart(cur, u) => Apart(front[i], u)
  BY <1>2 DEF Unrelated, Covers
<1> QED BY <1>1, <1>2, <1>3, RequeueLedger

\* Refining keeps the ledger: the children take the place of their parent.
LEMMA SplitLedger ==
  ASSUME TypeOK, Control, Ledger, Split
  PROVE  Ledger'
<1> DEFINE front == ChildrenOf[cur]
<1>1. /\ cur \in Task /\ Accounted /\ Depth[cur] < DepthCap
      /\ cur' = NoTask /\ UNCHANGED device /\ pending' = front \o pending
      /\ \A s \in Slot : slotDone'[s] = NoTask
  BY DEF Split, Resume, MergeTorn, Refinable, Replacement, TypeOK, HostTypeOK, Control,
         Accounted
<1>2. /\ front \in Seq(Task) /\ Unrelated(front) /\ Covers(front, Keep[cur])
  BY <1>1, Decomposition DEF Decomposition
<1>3. \A i \in DOMAIN front : \A u \in Task : Apart(cur, u) => Apart(front[i], u)
  BY <1>1, Lineage DEF Lineage, Apart
<1> HIDE DEF front
<1> QED BY <1>1, <1>2, <1>3, RequeueLedger

\* Every step keeps the ledger.
LEMMA NextLedger ==
  ASSUME IInv, [Next]_vars
  PROVE  Ledger'
<1> USE DEF IInv
<1>1. CASE Setup \/ WaitAndGather \/ EnqueueCopy \/ EnqueueKernel \/ RunOut \/ Fault
           \/ RefuseDirty \/ GiveUp \/ Return
  <2>1. /\ UNCHANGED <<pending, cur, merges, acc, slotDone, snapshot>>
        /\ Accounted' => Accounted
    BY <1>1
    DEF Setup, WaitAndGather, EnqueueCopy, EnqueueKernel, RunOut, Fault, RefuseDirty, GiveUp,
        Return, Control, Accounted, device
  <2> QED BY <2>1, LedgerFrame
<1>2. CASE PopTask BY <1>2, PopLedger DEF PopTask, Control
<1>3. CASE EnqueueMerge BY <1>3, EnqueueMergeLedger
<1>4. CASE MergeOnHost BY <1>4, MergeOnHostLedger
<1>5. CASE TearMerge BY <1>5 DEF TearMerge, Ledger, Accounted
<1>6. CASE Halve BY <1>6, HalveLedger
<1>7. CASE Split BY <1>7, SplitLedger
<1>8. CASE \E s \in Slot : WorkerNext(s)
  BY <1>8, LedgerFrame DEF WorkerNext, Copy, Kernel, host, Accounted
<1>9. CASE \E m \in Stream : MergeRead(m)
  <2>1. PICK m \in Stream : MergeRead(m) BY <1>9
  <2>2. /\ UNCHANGED <<pending, cur, merges, acc, slotDone, outcome, dirty>>
        /\ snapshot'[MergeStream] \in {snapshot[MergeStream], <<acc>>}
    BY <2>1, Parameters DEF MergeRead, host, TypeOK, DeviceTypeOK, Parameters
  <2> QED BY <2>2, LedgerFrame DEF Accounted
<1>10. CASE \E m \in Stream : MergeWrite(m)
  BY <1>10, MergeWriteLedger
<1>11. CASE UNCHANGED vars
  BY <1>11, LedgerFrame DEF vars, host, device, Accounted
<1> QED
  BY <1>1, <1>2, <1>3, <1>4, <1>5, <1>6, <1>7, <1>8, <1>9, <1>10, <1>11
  DEF Next, HostNext, MergeNext, Finished

-----------------------------------------------------------------------------
(* The invariant, and what follows from it. *)

\* A call starts in the invariant.
LEMMA InitInvariant == Init => IInv
<1> SUFFICES ASSUME Init PROVE IInv
  OBVIOUS
<1>1. TypeOK BY InitType
<1>2. Control BY DEF Control, Init
<1>3. Flow
  <2>1. Pipeline /\ OwnersDiffer
    BY DEF Init, Pipeline, InHand, SlotLeft, OwnersDiffer, Owner
  <2>2. OwnOutput /\ garbled = {}
    BY DEF Init, OwnOutput
  <2>3. MergeQueue
    BY Parameters DEF Init, MergeQueue, Parameters
  <2> QED BY <2>1, <2>2, <2>3 DEF Flow
<1>4. Ledger
  <2>1. Issued = {} /\ Held = {} /\ \A t \in Task : ~ InMerges(t)
    BY Decomposition, Parameters DEF Init, Issued, Held, InMerges, Decomposition, Parameters
  <2>2. LedgerDisjoint
    BY <2>1, Decomposition DEF Init, LedgerDisjoint, Decomposition
  <2>3. LedgerCovers
    BY Decomposition DEF Init, LedgerCovers, Covers, Decomposition
  <2>4. MergedOnce /\ SlotsIssued /\ SnapshotFresh
    BY <2>1, Parameters DEF Init, MergedOnce, SlotsIssued, SnapshotFresh, Parameters
  <2> QED BY <2>2, <2>3, <2>4 DEF Ledger
<1> QED BY <1>1, <1>2, <1>3, <1>4 DEF IInv

\* From the invariant every step leads to a well-formed state.
LEMMA NextType ==
  ASSUME IInv, [Next]_vars
  PROVE  TypeOK'
<1> USE DEF IInv, TypeOK
<1>1. CASE HostNext
  BY <1>1, HostNextHostType, HostNextDeviceType
<1>2. CASE \E s \in Slot : WorkerNext(s)
  <2>1. DeviceTypeOK' BY <1>2, WorkerNextType
  <2>2. UNCHANGED host BY <1>2 DEF WorkerNext, Copy, Kernel
  <2> QED BY <2>1, <2>2 DEF HostTypeOK, host
<1>3. CASE \E m \in Stream : MergeNext(m)
  <2>1. PICK m \in Stream : MergeNext(m) BY <1>3
  <2>2. snapshot[m] # <<>> => merges[m] # <<>> /\ output[Head(merges[m]).task] # NoTask
    BY DEF Flow, MergeQueue
  <2>3. DeviceTypeOK' BY <2>1, <2>2, MergeNextType DEF Flow
  <2>4. UNCHANGED host BY <2>1 DEF MergeNext, MergeRead, MergeWrite
  <2> QED BY <2>3, <2>4 DEF HostTypeOK, host
<1>4. CASE UNCHANGED vars
  BY <1>4 DEF HostTypeOK, DeviceTypeOK, vars, host, device
<1> QED BY <1>1, <1>2, <1>3, <1>4 DEF Next, Finished

\* From the invariant every step keeps what is known of the host's control.
LEMMA NextControl ==
  ASSUME IInv, [Next]_vars
  PROVE  Control'
<1>1. CASE HostNext
  BY <1>1, HostControl DEF IInv, Flow
<1>2. CASE (\E s \in Slot : WorkerNext(s)) \/ (\E m \in Stream : MergeNext(m))
  BY <1>2, DeviceControl DEF IInv, Flow
<1>3. CASE UNCHANGED vars
  BY <1>3 DEF IInv, Control, Synchronized, vars, host, device
<1> QED BY <1>1, <1>2, <1>3 DEF Next, Finished

\* The ledger and the pipelines survive every interleaving of the host with the
\* streams, every failure and every recovery.
THEOREM Invariant == Spec => []IInv
<1>1. IInv /\ [Next]_vars => IInv'
  BY NextType, NextControl, NextLedger, NextFlow DEF IInv
<1> QED BY <1>1, InitInvariant, PTL DEF Spec

\* stream_cqsa_forward keeps its state well-formed whatever fails.
THEOREM TypeCorrect == Spec => []TypeOK
<1>1. IInv => TypeOK BY DEF IInv
<1> QED BY <1>1, Invariant, PTL

\* run_one: the done event of a slot, recorded after the merge, is enough for
\* no merge ever to read another subproblem's output or token ids.
THEOREM NothingGarbled == Spec => []NoGarbledMerge
<1>1. IInv => NoGarbledMerge BY DEF IInv, Flow, NoGarbledMerge
<1> QED BY <1>1, Invariant, PTL

\* stream_cqsa_forward: a call that returns, however it recovered on the way,
\* has merged every pair exactly once.
THEOREM ExactlyOnce == Spec => []ReturnedExact
<1>1. ASSUME IInv PROVE ReturnedExact
  <2> SUFFICES ASSUME outcome = "returned", NEW p \in Pairs
               PROVE  \E t \in Task : Contributors(p) = {t} /\ acc[t] = 1
    BY <1>1 DEF ReturnedExact, IInv, Flow
  <2>1. /\ pending = <<>> /\ cur = NoTask /\ merges[MergeStream] = <<>>
        /\ Accounted
    BY <1>1, Parameters DEF IInv, Control, Synchronized, Accounted, Parameters
  <2>2. LedgerDisjoint /\ MergedOnce /\ LedgerCovers
    BY <1>1, <2>1 DEF IInv, Ledger
  <2>3. Held = {} /\ Issued = {t \in Task : acc[t] > 0}
    BY <2>1, Decomposition DEF Held, Issued, InMerges, Decomposition
  <2>4. PICK t \in Issued : p \in Keep[t]
    BY <2>1, <2>2, <2>3 DEF LedgerCovers
  <2>5. t \in Task /\ acc[t] = 1
    BY <1>1, <2>2, <2>3 DEF MergedOnce, IInv, TypeOK, DeviceTypeOK
  <2>6. ASSUME NEW u \in Contributors(p) PROVE u = t
    BY <2>2, <2>3, <2>4, <2>5, <2>6, ApartFacts DEF Contributors, LedgerDisjoint
  <2>7. t \in Contributors(p)
    BY <2>3, <2>4 DEF Contributors
  <2> QED BY <2>5, <2>6, <2>7
<1> QED BY <1>1, Invariant, PTL


HIDE DEF Slot, Stream, MergeStream

-----------------------------------------------------------------------------
(* Conservation. *)

\* The four kinds of places.
LEMMA PlacesAre ==
  ASSUME NEW p, NEW q
  PROVE  q \in Places(p) <=>
           \/ \E i \in DOMAIN pending : p \in Keep[pending[i]] /\ q = <<"pending", i>>
           \/ \E t \in Task : t = cur /\ p \in Keep[t] /\ q = <<"cur", t>>
           \/ \E m \in Stream : \E i \in DOMAIN merges[m] :
                p \in Keep[merges[m][i].task] /\ q = <<"merges", m, i>>
           \/ \E t \in Task : acc[t] > 0 /\ p \in Keep[t] /\ q = <<"acc", t>>
<1>1. q \in OnList(p) <=> \E i \in DOMAIN pending : p \in Keep[pending[i]] /\ q = <<"pending", i>>
  BY DEF OnList
<1>2. q \in InRun(p) <=> \E t \in Task : t = cur /\ p \in Keep[t] /\ q = <<"cur", t>>
  BY DEF InRun
<1>3. q \in Merged(p) <=> \E t \in Task : acc[t] > 0 /\ p \in Keep[t] /\ q = <<"acc", t>>
  BY DEF Merged, Contributors
<1>4. \A m : q \in OnStream(p, m) <=> \E i \in DOMAIN merges[m] :
               p \in Keep[merges[m][i].task] /\ q = <<"merges", m, i>>
  BY DEF OnStream
<1> DEFINE queued == UNION {OnStream(p, m) : m \in Stream}
<1>5. q \in queued <=> \E m \in Stream : q \in OnStream(p, m)
  OBVIOUS
<1>6. Places(p) = OnList(p) \cup InRun(p) \cup Merged(p) \cup queued
  BY DEF Places
<1> HIDE DEF queued
<1> QED BY <1>1, <1>2, <1>3, <1>4, <1>5, <1>6

\* There is a merge stream, and what it is to execute are merges.
LEMMA MergeStreamIsStream ==
  ASSUME DeviceTypeOK
  PROVE  /\ MergeStream \in Stream
         /\ merges[MergeStream] \in Seq([task : Task, slot : Slot])
         /\ \A i \in DOMAIN merges[MergeStream] :
              merges[MergeStream][i] \in [task : Task, slot : Slot]
<1> DEFINE Merge == [task : Task, slot : Slot]
<1>1. MergeStream \in Stream
  BY DEF Stream
<1>2. merges[MergeStream] \in Seq(Merge)
  BY <1>1 DEF DeviceTypeOK
<1> HIDE DEF Merge
<1>3. \A i \in DOMAIN merges[MergeStream] : merges[MergeStream][i] \in Merge
  BY <1>2, ElementOfSeq
<1> QED BY <1>1, <1>2, <1>3 DEF Merge

\* The ledger knows a place of each pair.
LEMMA SomePlace ==
  ASSUME IInv, ~ dirty, pc # "end", NEW p \in Pairs
  PROVE  \E q : q \in Places(p)
<1>1. LedgerCovers
  BY DEF IInv, Control, Ledger, Accounted
<1>2. CASE \E i \in DOMAIN pending : p \in Keep[pending[i]]
  BY <1>2, PlacesAre
<1>3. CASE \E t \in Held : p \in Keep[t]
  BY <1>3, PlacesAre DEF Held
<1>4. CASE \E t \in Issued : p \in Keep[t]
  <2>1. PICK t \in Issued : p \in Keep[t] BY <1>4
  <2>2. CASE acc[t] > 0
    BY <2>1, <2>2, PlacesAre DEF Issued
  <2>3. CASE InMerges(t)
    <3>1. PICK i \in DOMAIN merges[MergeStream] : merges[MergeStream][i].task = t
      BY <2>3 DEF InMerges
    <3>2. MergeStream \in Stream
      BY MergeStreamIsStream DEF IInv, TypeOK
    <3>3. <<"merges", MergeStream, i>> \in Places(p)
      BY <2>1, <3>1, <3>2, PlacesAre
    <3> QED BY <3>3
  <2> QED BY <2>1, <2>2, <2>3 DEF Issued
<1> QED BY <1>1, <1>2, <1>3, <1>4 DEF LedgerCovers

\* What each kind of place says of the ledger.
LEMMA PlaceKinds ==
  ASSUME IInv, pc # "end", NEW p \in Pairs, NEW q \in Places(p)
  PROVE  \/ \E i \in DOMAIN pending : q = <<"pending", i>> /\ p \in Keep[pending[i]]
         \/ \E t \in Held : q = <<"cur", t>> /\ p \in Keep[t]
         \/ \E i \in DOMAIN merges[MergeStream] :
              /\ q = <<"merges", MergeStream, i>>
              /\ merges[MergeStream][i].task \in Issued
              /\ InMerges(merges[MergeStream][i].task)
              /\ p \in Keep[merges[MergeStream][i].task]
         \/ \E t \in Issued : q = <<"acc", t>> /\ acc[t] > 0 /\ p \in Keep[t]
<1>1. CASE \E i \in DOMAIN pending : p \in Keep[pending[i]] /\ q = <<"pending", i>>
  BY <1>1
<1>2. CASE \E t \in Task : t = cur /\ p \in Keep[t] /\ q = <<"cur", t>>
  BY <1>2 DEF Held
<1>3. CASE \E m \in Stream : \E i \in DOMAIN merges[m] :
             p \in Keep[merges[m][i].task] /\ q = <<"merges", m, i>>
  <2>1. PICK m \in Stream : \E i \in DOMAIN merges[m] :
               p \in Keep[merges[m][i].task] /\ q = <<"merges", m, i>>
    BY <1>3
  <2>2. PICK i \in DOMAIN merges[m] :
               p \in Keep[merges[m][i].task] /\ q = <<"merges", m, i>>
    BY <2>1
  <2>3. m = MergeStream
    <3>1. m # MergeStream => merges[m] = <<>>
      BY DEF IInv, Flow, MergeQueue
    <3> QED BY <2>2, <3>1
  <2>4. merges[MergeStream][i].task \in Task
    BY <2>2, <2>3, MergeStreamIsStream DEF IInv, TypeOK
  <2> QED BY <2>2, <2>3, <2>4 DEF Issued, InMerges
<1>4. CASE \E t \in Task : acc[t] > 0 /\ p \in Keep[t] /\ q = <<"acc", t>>
  BY <1>4 DEF Issued
<1> QED BY <1>1, <1>2, <1>3, <1>4, PlacesAre

\* The ledger knows no second place.
LEMMA OnePlace ==
  ASSUME IInv, ~ dirty, pc # "end", NEW p \in Pairs,
         NEW q \in Places(p), NEW r \in Places(p)
  PROVE  q = r
<1> DEFINE queue == merges[MergeStream]
<1>1. LedgerDisjoint /\ MergedOnce
  BY DEF IInv, Control, Ledger, Accounted
<1>2. /\ \A i \in DOMAIN pending : pending[i] \in Task
      /\ Issued \subseteq Task /\ Held \subseteq Task
  BY ElementOfSeq DEF IInv, TypeOK, HostTypeOK, Issued, Held
<1>3. \A t, u \in Task : p \in Keep[t] /\ p \in Keep[u] => ~ Apart(t, u)
  BY ApartFacts
<1>4. \A t, u \in Held : t = u
  BY DEF Held
<1>5. /\ \A i, j \in DOMAIN pending : p \in Keep[pending[i]] /\ p \in Keep[pending[j]] => i = j
      /\ \A i \in DOMAIN pending : p \in Keep[pending[i]] =>
           \A u \in Issued \cup Held : p \notin Keep[u]
      /\ \A t \in Held, u \in Issued : p \notin Keep[t] \/ p \notin Keep[u]
      /\ \A t, u \in Issued : p \in Keep[t] /\ p \in Keep[u] => t = u
  BY <1>1, <1>2, <1>3 DEF LedgerDisjoint, Unrelated, Apart
<1>6. /\ \A t \in Issued : ~ (InMerges(t) /\ acc[t] > 0)
      /\ \A i, j \in DOMAIN queue : queue[i].task = queue[j].task => i = j
  BY <1>1, <1>2 DEF MergedOnce
<1> HIDE DEF queue
<1>7. CASE \E i \in DOMAIN pending : q = <<"pending", i>> /\ p \in Keep[pending[i]]
  BY <1>5, <1>7, PlaceKinds
<1>8. CASE \E t \in Held : q = <<"cur", t>> /\ p \in Keep[t]
  BY <1>4, <1>5, <1>8, PlaceKinds
<1>9. CASE \E i \in DOMAIN queue :
             /\ q = <<"merges", MergeStream, i>> /\ queue[i].task \in Issued
             /\ InMerges(queue[i].task) /\ p \in Keep[queue[i].task]
  BY <1>5, <1>6, <1>9, PlaceKinds DEF queue
<1>10. CASE \E t \in Issued : q = <<"acc", t>> /\ acc[t] > 0 /\ p \in Keep[t]
  BY <1>5, <1>6, <1>10, PlaceKinds DEF queue
<1> QED BY <1>7, <1>8, <1>9, <1>10, PlaceKinds DEF queue

\* stream_cqsa_forward, at every moment of every call: each pair is in exactly
\* one place, on the list, in hand, before the merge stream or in the result.
THEOREM NothingLost == Spec => []Conservation
<1>1. ASSUME IInv PROVE Conservation
  <2> SUFFICES ASSUME ~ dirty, pc # "end", NEW p \in Pairs
               PROVE  \E q \in Places(p) : Places(p) = {q}
    BY DEF Conservation
  <2>1. PICK q : q \in Places(p) BY <1>1, SomePlace
  <2>2. \A r \in Places(p) : r = q BY <1>1, <2>1, OnePlace
  <2> QED BY <2>1, <2>2
<1> QED BY <1>1, Invariant, PTL

-----------------------------------------------------------------------------
(* The bound on what is in flight. *)

\* slot % max(1, len(streams)) is a stream that is left.
LEMMA TheSlotIsLeft ==
  ASSUME HostTypeOK
  PROVE  TheSlot \in 0 .. streams - 1 /\ TheSlot \in Slot
BY Parameters DEF Parameters, HostTypeOK, TheSlot, Slot

\* No step of the host leaves a done event behind in a slot it has given up.
LEMMA NextSlotsInUse ==
  ASSUME IInv, SlotsInUse, [Next]_vars
  PROVE  SlotsInUse'
<1> USE DEF SlotsInUse
<1>1. HostTypeOK /\ TheSlot \in 0 .. streams - 1 /\ NoTask \notin Task
  BY TheSlotIsLeft, Decomposition DEF IInv, TypeOK, Decomposition
<1>2. CASE EnqueueMerge \/ MergeOnHost
  BY <1>1, <1>2 DEF EnqueueMerge, MergeOnHost, TaskDone, HostTypeOK
<1>3. CASE Halve \/ Split
  BY <1>3 DEF Halve, Split, Resume
<1>4. CASE UNCHANGED <<slotDone, streams>>
  BY <1>4
<1>5. CASE HostNext
  BY <1>2, <1>3, <1>4, <1>5
  DEF HostNext, Setup, PopTask, WaitAndGather, EnqueueCopy, EnqueueKernel, RunOut, TearMerge,
      Fault, RefuseDirty, GiveUp, Return
<1>6. CASE (\E s \in Slot : WorkerNext(s)) \/ (\E m \in Stream : MergeNext(m))
  BY <1>4, <1>6 DEF WorkerNext, Copy, Kernel, MergeNext, MergeRead, MergeWrite, host
<1> QED BY <1>4, <1>5, <1>6 DEF Next, Finished, vars, host

\* Whatever is queued on a worker stream belongs to the owner of its slot.
LEMMA WorkIsOwners ==
  ASSUME IInv, NEW s \in Slot, NEW i \in DOMAIN work[s]
  PROVE  work[s][i].task = Owner(s) /\ Owner(s) \in Task
<1>1. work[s] # <<>>
  OBVIOUS
<1>2. /\ Owner(s) \in Task
      /\ \/ work[s] = <<CopyOf(Owner(s))>>
         \/ work[s] = <<CopyOf(Owner(s)), KernelOf(Owner(s))>>
         \/ work[s] = <<KernelOf(Owner(s))>>
  BY <1>1, HeadOfWork DEF IInv, Flow
<1> QED BY <1>2 DEF CopyOf, KernelOf

\* Every subproblem in flight owns one of the streams that are left.
LEMMA InFlightOwnsStream ==
  ASSUME IInv, SlotsInUse, NEW t \in InFlight
  PROVE  \E s \in 0 .. streams - 1 : Owner(s) = t
<1>1. /\ HostTypeOK /\ DeviceTypeOK /\ NoTask \notin Task
      /\ TheSlot \in 0 .. streams - 1 /\ TheSlot \in Slot
  BY TheSlotIsLeft, Decomposition DEF IInv, TypeOK, Decomposition
<1>2. \A s \in Slot : Owner(s) \in Task => s \in 0 .. streams - 1
  BY <1>1 DEF Owner, SlotsInUse, HostTypeOK, Slot
<1>3. CASE pc \in {"copy", "kernel", "merge"} /\ t = cur
  BY <1>1, <1>3 DEF Owner, InHand, HostTypeOK
<1>4. CASE \E s \in Slot : \E i \in DOMAIN work[s] : work[s][i].task = t
  BY <1>2, <1>4, WorkIsOwners
<1>5. CASE \E m \in Stream : \E i \in DOMAIN merges[m] : merges[m][i].task = t
  <2>1. PICK m \in Stream : \E i \in DOMAIN merges[m] : merges[m][i].task = t
    BY <1>5
  <2>2. PICK i \in DOMAIN merges[m] : merges[m][i].task = t
    BY <2>1
  <2>3. m = MergeStream
    <3>1. m # MergeStream => merges[m] = <<>>
      BY DEF IInv, Flow, MergeQueue
    <3> QED BY <2>2, <3>1
  <2>4. merges[MergeStream][i] \in [task : Task, slot : Slot]
    BY <1>1, <2>2, <2>3, MergeStreamIsStream
  <2> DEFINE s == merges[MergeStream][i].slot
  <2>5. s \in Slot /\ t \in Task /\ slotDone[s] = t /\ (InHand => s # TheSlot)
    BY <2>2, <2>3, <2>4 DEF IInv, Flow, MergeQueue
  <2>6. Owner(s) = t
    BY <2>5 DEF Owner
  <2> HIDE DEF s
  <2> QED BY <1>2, <2>5, <2>6
<1> QED BY <1>3, <1>4, <1>5 DEF InFlight, Queued

\* The backpressure of slot_done: at no moment are there more working sets on the
\* device than streams, also right after the streams were halved.
THEOREM Backpressure == Spec => []BoundedInFlight
<1>1. Init => SlotsInUse
  BY DEF Init, SlotsInUse
<1>2. ASSUME IInv, SlotsInUse PROVE BoundedInFlight
  <2> DEFINE left  == 0 .. streams - 1
             owned == {Owner(s) : s \in left}
             owner == [s \in left |-> Owner(s)]
  <2>1. streams \in Nat /\ IsFiniteSet(left) /\ Cardinality(left) = streams
    <3>1. streams \in Nat /\ streams > 0
      BY <1>2 DEF IInv, TypeOK, HostTypeOK
    <3> QED BY <3>1, FS_Interval
  <2>2. owner \in Surjection(left, owned)
    BY DEF Surjection
  <2> HIDE DEF left, owned, owner
  <2>3. IsFiniteSet(owned) /\ Cardinality(owned) <= streams
    BY <2>1, <2>2, FS_Surjection
  <2>4. InFlight \subseteq owned
    BY <1>2, InFlightOwnsStream DEF owned, left
  <2>5. Cardinality(InFlight) <= Cardinality(owned) /\ IsFiniteSet(InFlight)
    BY <2>3, <2>4, FS_Subset
  <2>6. Cardinality(InFlight) \in Nat /\ Cardinality(owned) \in Nat
    BY <2>3, <2>5, FS_CardinalityType
  <2> QED BY <2>1, <2>3, <2>5, <2>6 DEF BoundedInFlight
<1>3. IInv /\ SlotsInUse /\ [Next]_vars => SlotsInUse'
  BY NextSlotsInUse
<1> QED BY <1>1, <1>2, <1>3, Invariant, PTL DEF Spec

-----------------------------------------------------------------------------
(* The order of the two responses. *)

\* Where several streams are left they were more before, and the call has never
\* refined anything.
LEMMA HostTopLevel ==
  ASSUME IInv, TopLevelOnly, HostNext
  PROVE  TopLevelOnly'
<1> SUFFICES ASSUME streams' > 1 PROVE (TopLevelOnly')
  BY DEF TopLevelOnly
<1>1. HostTypeOK /\ DeviceTypeOK /\ NoTask \notin Task
  BY Decomposition DEF IInv, TypeOK, Decomposition
<1>2. streams > 1 /\ ~ Split
  <2>1. streams \in Nat
    BY <1>1 DEF HostTypeOK
  <2>2. CASE Halve
    BY <2>1, <2>2 DEF Halve, Lowerable, Split
  <2>3. CASE ~ Halve
    <3>1. streams' = streams
      BY <2>3 DEF HostNext, Setup, PopTask, WaitAndGather, EnqueueCopy, EnqueueKernel,
                  EnqueueMerge, MergeOnHost, TaskDone, RunOut, TearMerge, Fault, RefuseDirty,
                  GiveUp, Split, Return
    <3> QED BY <3>1 DEF Split, Lowerable
  <2> QED BY <2>2, <2>3
<1> USE <1>2 DEF TopLevelOnly
<1>3. CASE UNCHANGED <<pending, cur, merges, snapshot, acc>>
  BY <1>3
<1>4. CASE PopTask
  <2>1. /\ pending \in Seq(Task) /\ pending # <<>> /\ cur' = pending[1]
        /\ pending' = Tail(pending) /\ UNCHANGED device
    BY <1>1, <1>4 DEF PopTask, HostTypeOK
  <2>2. /\ 1 \in DOMAIN pending
        /\ \A i \in DOMAIN pending' : i + 1 \in DOMAIN pending /\ pending'[i] = pending[i + 1]
    BY <2>1, HeadTailProperties, LenProperties
  <2> QED BY <2>1, <2>2 DEF device
<1>5. CASE EnqueueMerge
  <2> DEFINE Merge == [task : Task, slot : Slot]
             e     == [task |-> cur, slot |-> TheSlot]
             queue == merges[MergeStream]
  <2>1. e \in Merge /\ queue \in Seq(Merge) /\ Depth[cur] = Itr
    BY <1>1, <1>5, TheSlotIsLeft, MergeStreamIsStream DEF EnqueueMerge, HostTypeOK
  <2>2. merges'[MergeStream] = Append(queue, e)
    BY <1>1, <1>5, MergeStreamIsStream DEF EnqueueMerge, MergeStreamOf, DeviceTypeOK
  <2> HIDE DEF Merge, e, queue
  <2>3. /\ DOMAIN Append(queue, e) = 1 .. Len(queue) + 1 /\ DOMAIN queue = 1 .. Len(queue)
        /\ Append(queue, e)[Len(queue) + 1] = e /\ Len(queue) \in Nat
        /\ \A i \in 1 .. Len(queue) : Append(queue, e)[i] = queue[i]
    BY <2>1, AppendProperties, LenProperties
  <2>4. \A i \in DOMAIN merges'[MergeStream] : Depth[merges'[MergeStream][i].task] = Itr
    <3>1. e.task = cur
      BY DEF e
    <3>2. \A i \in DOMAIN queue : Depth[queue[i].task] = Itr
      BY DEF queue
    <3>3. \A i \in 1 .. Len(queue) + 1 : i = Len(queue) + 1 \/ i \in 1 .. Len(queue)
      BY <2>3
    <3> QED BY <2>1, <2>2, <2>3, <3>1, <3>2, <3>3
  <2>5. UNCHANGED <<pending, acc, snapshot>> /\ cur' = NoTask
    BY <1>5 DEF EnqueueMerge, TaskDone
  <2> QED BY <2>4, <2>5
<1>6. CASE MergeOnHost
  <2>1. cur \in Task /\ cur # NoTask /\ output[cur] = cur
    BY <1>1, <1>6 DEF MergeOnHost, HostTypeOK, IInv, Flow, OwnOutput
  <2>2. acc' = [acc EXCEPT ![cur] = @ + 1] /\ Depth[cur] = Itr
    BY <1>6, <2>1 DEF MergeOnHost
  <2>3. \A t \in Task : acc'[t] > 0 => Depth[t] = Itr
    BY <1>1, <2>2 DEF DeviceTypeOK
  <2> QED BY <1>6, <2>3 DEF MergeOnHost, TaskDone
<1>7. CASE TearMerge
  <2>1. cur \in Task /\ cur # NoTask /\ acc' = [acc EXCEPT ![cur] = @ + 1]
    BY <1>1, <1>7 DEF TearMerge, HostTypeOK
  <2>2. \A t \in Task : acc'[t] > 0 => Depth[t] = Itr
    BY <1>1, <2>1 DEF DeviceTypeOK
  <2> QED BY <1>7, <2>2 DEF TearMerge
<1>8. CASE Halve
  <2>1. cur \in Task /\ cur # NoTask /\ <<cur>> \in Seq(Task) /\ pending \in Seq(Task)
    BY <1>1, <1>8 DEF Halve, HostTypeOK
  <2>2. /\ pending' = <<cur>> \o pending /\ cur' = NoTask /\ UNCHANGED device
    BY <1>8 DEF Halve, Resume
  <2>3. \A i \in DOMAIN (<<cur>> \o pending) :
          \/ (<<cur>> \o pending)[i] = cur
          \/ /\ i - 1 \in DOMAIN pending
             /\ (<<cur>> \o pending)[i] = pending[i - 1]
    BY <2>1, ConcatElements
  <2> QED BY <2>1, <2>2, <2>3 DEF device
<1> QED
  BY <1>2, <1>3, <1>4, <1>5, <1>6, <1>7, <1>8
  DEF HostNext, Setup, WaitAndGather, EnqueueCopy, EnqueueKernel, RunOut, Fault, RefuseDirty,
      GiveUp, Return, device

\* The streams write what the merge stream held and what is in the accumulator.
LEMMA MergeTopLevel ==
  ASSUME IInv, TopLevelOnly, NEW m \in Stream, MergeNext(m)
  PROVE  TopLevelOnly'
<1> SUFFICES ASSUME streams' > 1 PROVE (TopLevelOnly')
  BY DEF TopLevelOnly
<1>1. DeviceTypeOK /\ MergeStream \in Stream
  BY MergeStreamIsStream DEF IInv, TypeOK
<1>2. m = MergeStream /\ merges[m] # <<>> /\ UNCHANGED host /\ streams > 1
  BY DEF MergeNext, MergeRead, MergeWrite, IInv, Flow, MergeQueue, host
<1> USE DEF TopLevelOnly
<1>3. CASE MergeRead(m)
  <2>1. snapshot'[MergeStream] = <<acc>> /\ UNCHANGED <<merges, acc>>
    BY <1>1, <1>2, <1>3 DEF MergeRead, DeviceTypeOK
  <2> QED BY <1>2, <2>1 DEF host
<1>4. CASE MergeWrite(m)
  <2> DEFINE queue == merges[MergeStream]
             t     == Head(queue).task
             read  == snapshot[MergeStream][1]
  <2>1. /\ t \in Task /\ t = queue[1].task /\ 1 \in DOMAIN queue
        /\ output[t] # NoTask => output[t] = t
    BY <1>2, HeadOfMerges DEF IInv
  <2>2. output[t] = t /\ Depth[t] = Itr /\ snapshot[MergeStream] # <<>>
    BY <1>2, <1>4, <2>1 DEF MergeWrite, IInv, Flow, MergeQueue
  <2>3. read \in [Task -> Nat]
    <3>1. snapshot[MergeStream] \in Seq([Task -> Nat]) BY <1>1 DEF DeviceTypeOK
    <3>2. 1 \in 1 .. Len(snapshot[MergeStream])
      <4>1. Len(snapshot[MergeStream]) \in Nat /\ Len(snapshot[MergeStream]) # 0
        BY <3>1, <2>2, EmptySeq, LenProperties
      <4> QED BY <4>1
    <3> QED BY <3>1, <3>2, ElementOfSeq
  <2>4. acc' = [read EXCEPT ![t] = @ + 1]
    BY <1>2, <1>4, <2>2 DEF MergeWrite
  <2>5. queue \in Seq([task : Task, slot : Slot]) /\ merges'[MergeStream] = Tail(queue)
    BY <1>1, <1>2, <1>4, MergeStreamIsStream DEF MergeWrite, DeviceTypeOK
  <2>6. snapshot'[MergeStream] = <<>>
    BY <1>1, <1>2, <1>4 DEF MergeWrite, DeviceTypeOK
  <2> HIDE DEF queue, t, read
  <2>7. \A u \in Task : read[u] > 0 => Depth[u] = Itr
    BY <1>2, <2>2 DEF read
  <2>8. \A u \in Task : acc'[u] > 0 => Depth[u] = Itr
    BY <2>2, <2>3, <2>4, <2>7
  <2>9. \A i \in DOMAIN Tail(queue) : i + 1 \in DOMAIN queue /\ Tail(queue)[i] = queue[i + 1]
    BY <1>2, <2>5, HeadTailProperties, LenProperties DEF queue
  <2>10. \A i \in DOMAIN merges'[MergeStream] : Depth[merges'[MergeStream][i].task] = Itr
    BY <1>2, <2>5, <2>9 DEF queue
  <2> QED BY <1>2, <2>6, <2>8, <2>10 DEF host
<1> QED BY <1>3, <1>4 DEF MergeNext

\* stream_cqsa_forward lowers the concurrency first: as long as there are streams
\* to give up nothing deeper than the call's own depth exists.
THEOREM LoweredFirst == Spec => []ConcurrencyFirst
<1>1. Init => TopLevelOnly
  BY Decomposition, Parameters
  DEF Init, TopLevelOnly, Decomposition, Parameters, Stream, MergeStream
<1>2. ASSUME IInv, TopLevelOnly, [Next]_vars PROVE TopLevelOnly'
  <2>1. CASE HostNext
    BY <1>2, <2>1, HostTopLevel
  <2>2. CASE \E s \in Slot : WorkerNext(s)
    BY <1>2, <2>2 DEF WorkerNext, Copy, Kernel, host, TopLevelOnly
  <2>3. CASE \E m \in Stream : MergeNext(m)
    BY <1>2, <2>3, MergeTopLevel
  <2>4. CASE UNCHANGED vars
    BY <1>2, <2>4 DEF vars, host, device, TopLevelOnly
  <2> QED BY <1>2, <2>1, <2>2, <2>3, <2>4 DEF Next, Finished
<1>3. TopLevelOnly => ConcurrencyFirst
  BY DEF TopLevelOnly, ConcurrencyFirst
<1> QED BY <1>1, <1>2, <1>3, Invariant, PTL DEF Spec


-----------------------------------------------------------------------------
(* Lists of subproblems seen as lists of depths. *)

\* The depths of a list are a list of the same length.
LEMMA DepthsAreList ==
  ASSUME NEW s \in Seq(Task)
  PROVE  /\ DepthsOf(s) \in Seq(Nat) /\ Len(DepthsOf(s)) = Len(s)
         /\ DOMAIN DepthsOf(s) = 1 .. Len(s)
         /\ \A i \in 1 .. Len(s) : DepthsOf(s)[i] = Depth[s[i]]
<1>1. DOMAIN s = 1 .. Len(s) /\ Len(s) \in Nat /\ \A i \in 1 .. Len(s) : s[i] \in Task
  BY LenProperties, ElementOfSeq
<1>2. Depth \in [Task -> Nat]
  BY Decomposition DEF Decomposition
<1>3. DepthsOf(s) \in [1 .. Len(s) -> Nat]
  BY <1>1, <1>2 DEF DepthsOf
<1>4. DepthsOf(s) \in Seq(Nat)
  BY <1>1, <1>3
<1> QED BY <1>1, <1>3, <1>4, LenProperties DEF DepthsOf

\* The list of a subproblem and the rest, seen as depths.
LEMMA DepthsOfFront ==
  ASSUME NEW t \in Task, NEW s \in Seq(Task)
  PROVE  /\ <<t>> \o s \in Seq(Task)
         /\ DepthsOf(<<t>> \o s) # <<>>
         /\ Head(DepthsOf(<<t>> \o s)) = Depth[t]
         /\ Tail(DepthsOf(<<t>> \o s)) = DepthsOf(s)
<1> DEFINE whole == <<t>> \o s
           d     == DepthsOf(whole)
<1>1. <<t>> \in Seq(Task) /\ Len(<<t>>) = 1 /\ <<t>>[1] = t
  OBVIOUS
<1>2. /\ whole \in Seq(Task) /\ Len(whole) = 1 + Len(s) /\ Len(s) \in Nat
      /\ whole[1] = t /\ \A i \in 1 .. Len(s) : whole[i + 1] = s[i]
  <2>1. /\ whole \in Seq(Task) /\ Len(whole) = 1 + Len(s)
        /\ \A i \in 1 .. 1 + Len(s) : whole[i] = IF i <= 1 THEN <<t>>[i] ELSE s[i - 1]
    BY <1>1, ConcatProperties
  <2> QED BY <1>1, <2>1, LenProperties
<1> HIDE DEF whole
<1>3. /\ d \in Seq(Nat) /\ Len(d) = 1 + Len(s)
      /\ \A i \in 1 .. 1 + Len(s) : d[i] = Depth[whole[i]]
  BY <1>2, DepthsAreList
<1>4. DepthsOf(s) \in Seq(Nat) /\ Len(DepthsOf(s)) = Len(s)
      /\ \A i \in 1 .. Len(s) : DepthsOf(s)[i] = Depth[s[i]]
  BY DepthsAreList
<1> HIDE DEF d
<1>5. d # <<>> /\ Head(d) = d[1]
  BY <1>2, <1>3, EmptySeq
<1>6. /\ Tail(d) \in Seq(Nat) /\ Len(Tail(d)) = Len(s)
      /\ \A i \in 1 .. Len(s) : Tail(d)[i] = d[i + 1]
  BY <1>2, <1>3, <1>5, HeadTailProperties
<1>7. ASSUME NEW i \in 1 .. Len(s) PROVE Tail(d)[i] = DepthsOf(s)[i]
  <2>1. i + 1 \in 1 .. 1 + Len(s)
    BY <1>2
  <2>2. d[i + 1] = Depth[whole[i + 1]] /\ whole[i + 1] = s[i]
    BY <1>2, <1>3, <2>1
  <2> QED BY <1>4, <1>6, <2>2
<1>8. Tail(d) = DepthsOf(s)
  BY <1>4, <1>6, <1>7, SeqEqual
<1>9. d[1] = Depth[t]
  <2>1. 1 \in 1 .. 1 + Len(s) BY <1>2
  <2> QED BY <2>1, <1>2, <1>3
<1>10. whole \in Seq(Task) /\ d # <<>> /\ Head(d) = Depth[t] /\ Tail(d) = DepthsOf(s)
  BY <1>2, <1>5, <1>8, <1>9
<1> QED BY <1>10, Zenon DEF whole, d

\* A list put in front of another, seen as depths, when it is all of one depth.
LEMMA DepthsOfEqual ==
  ASSUME NEW f \in Seq(Task), NEW s \in Seq(Task), NEW n \in Nat,
         \A i \in DOMAIN f : Depth[f[i]] = n
  PROVE  DepthsOf(f \o s) = [i \in 1 .. Len(f) |-> n] \o DepthsOf(s)
<1> DEFINE copies == [i \in 1 .. Len(f) |-> n]
           d      == DepthsOf(s)
           left   == DepthsOf(f \o s)
           right  == copies \o d
<1>1. Len(f) \in Nat /\ Len(s) \in Nat /\ DOMAIN f = 1 .. Len(f)
  BY LenProperties
<1>2. copies \in Seq(Nat) /\ Len(copies) = Len(f) /\ \A i \in 1 .. Len(f) : copies[i] = n
  <2>1. copies \in [1 .. Len(f) -> Nat]
    OBVIOUS
  <2> QED BY <1>1, <2>1, LenProperties
<1>3. d \in Seq(Nat) /\ Len(d) = Len(s) /\ \A i \in 1 .. Len(s) : d[i] = Depth[s[i]]
  BY DepthsAreList
<1>4. /\ f \o s \in Seq(Task) /\ Len(f \o s) = Len(f) + Len(s)
      /\ \A i \in 1 .. Len(f) + Len(s) :
           (f \o s)[i] = IF i <= Len(f) THEN f[i] ELSE s[i - Len(f)]
  BY ConcatProperties
<1>5. /\ left \in Seq(Nat) /\ Len(left) = Len(f) + Len(s)
      /\ \A i \in 1 .. Len(f) + Len(s) : left[i] = Depth[(f \o s)[i]]
  BY <1>4, DepthsAreList
<1> HIDE DEF copies, d, left
<1>6. /\ right \in Seq(Nat) /\ Len(right) = Len(f) + Len(s)
      /\ \A i \in 1 .. Len(f) + Len(s) :
           right[i] = IF i <= Len(f) THEN copies[i] ELSE d[i - Len(f)]
  <2>1. /\ copies \o d \in Seq(Nat) /\ Len(copies \o d) = Len(copies) + Len(d)
        /\ \A i \in 1 .. Len(copies) + Len(d) :
             (copies \o d)[i] = IF i <= Len(copies) THEN copies[i] ELSE d[i - Len(copies)]
    <3>1. copies \in Seq(Nat) /\ d \in Seq(Nat) BY <1>2, <1>3
    <3> QED BY <3>1, ConcatProperties
  <2>2. Len(copies) = Len(f) /\ Len(d) = Len(s) BY <1>2, <1>3
  <2> QED BY <2>1, <2>2
<1> HIDE DEF right
<1>7. \A i \in 1 .. Len(left) : left[i] = right[i]
  <2> SUFFICES ASSUME NEW i \in 1 .. Len(f) + Len(s) PROVE left[i] = right[i]
    BY <1>5
  <2>1. CASE i <= Len(f)
    <3>1. i \in 1 .. Len(f)
      BY <1>1, <2>1
    <3>2. (f \o s)[i] = f[i] /\ right[i] = copies[i]
      BY <1>4, <1>6, <2>1
    <3>3. left[i] = Depth[f[i]] /\ Depth[f[i]] = n
      BY <1>1, <1>5, <3>1, <3>2
    <3> QED BY <1>2, <3>1, <3>2, <3>3
  <2>2. CASE i > Len(f)
    <3>1. i - Len(f) \in 1 .. Len(s) /\ ~ (i <= Len(f))
      BY <1>1, <2>2
    <3> QED BY <1>3, <1>4, <1>5, <1>6, <3>1
  <2> QED BY <1>1, <2>1, <2>2
<1>8. left = right
  BY <1>5, <1>6, <1>7, SeqEqual
<1> QED BY <1>8 DEF copies, d, left, right

-----------------------------------------------------------------------------
(* The steps. *)

\* A failure is answered where it happened.
LEMMA NextFailedHere ==
  ASSUME FailedHere, [Next]_vars
  PROVE  FailedHere'
<1> USE DEF FailedHere, MayRunOut
<1>1. CASE RunOut \/ TearMerge
  BY <1>1 DEF RunOut, TearMerge
<1>2. CASE UNCHANGED host
  BY <1>2 DEF host
<1>3. CASE pc' # "oom"
  BY <1>3
<1>4. CASE HostNext
  BY <1>1, <1>3, <1>4
  DEF HostNext, Setup, PopTask, WaitAndGather, EnqueueCopy, EnqueueKernel, EnqueueMerge,
      MergeOnHost, TaskDone, Fault, RefuseDirty, Halve, GiveUp, Split, Resume, Return
<1> QED
  BY <1>2, <1>4
  DEF Next, Finished, vars, WorkerNext, Copy, Kernel, MergeNext, MergeRead, MergeWrite

\* What is still to complete is a list, and its head is the subproblem in hand.
LEMMA ListOfTasks ==
  ASSUME IInv
  PROVE  /\ ToComplete \in Seq(Task)
         /\ cur # NoTask =>
              /\ cur \in Task /\ DepthsOf(ToComplete) # <<>>
              /\ Head(DepthsOf(ToComplete)) = Depth[cur]
              /\ Tail(DepthsOf(ToComplete)) = DepthsOf(pending)
<1>1. pending \in Seq(Task) /\ cur \in Task \cup {NoTask}
  BY DEF IInv, TypeOK, HostTypeOK
<1> QED BY <1>1, DepthsOfFront DEF ToComplete

\* Taking a subproblem into the host's hand completes nothing.
LEMMA PopIsStutter ==
  ASSUME IInv, PopTask
  PROVE  UNCHANGED ToComplete
<1>1. /\ cur = NoTask /\ cur' = Head(pending) /\ pending' = Tail(pending)
      /\ pending \in Seq(Task) /\ pending # <<>>
  BY DEF IInv, Control, PopTask, TypeOK, HostTypeOK
<1>2. Head(pending) \in Task /\ Head(pending) # NoTask /\ Tail(pending) \in Seq(Task)
  BY <1>1, HeadTailProperties, Decomposition DEF Decomposition
<1>3. <<Head(pending)>> \o Tail(pending) = pending
  <2> DEFINE again == <<Head(pending)>> \o Tail(pending)
  <2>1. /\ again \in Seq(Task) /\ Len(again) = Len(pending)
        /\ \A i \in 1 .. Len(pending) : again[i] = pending[i]
    <3>1. /\ <<Head(pending)>> \in Seq(Task) /\ Len(<<Head(pending)>>) = 1
          /\ <<Head(pending)>>[1] = pending[1]
      BY <1>1, <1>2
    <3>2. /\ Len(Tail(pending)) = Len(pending) - 1 /\ Len(pending) \in Nat
          /\ \A i \in 1 .. Len(pending) - 1 : Tail(pending)[i] = pending[i + 1]
      BY <1>1, HeadTailProperties, LenProperties
    <3>3. /\ again \in Seq(Task) /\ Len(again) = 1 + (Len(pending) - 1)
          /\ \A i \in 1 .. 1 + (Len(pending) - 1) :
               again[i] = IF i <= 1 THEN <<Head(pending)>>[i] ELSE Tail(pending)[i - 1]
      BY <1>2, <3>1, <3>2, ConcatProperties
    <3> HIDE DEF again
    <3>4. ASSUME NEW i \in 1 .. Len(pending) PROVE again[i] = pending[i]
      <4>1. CASE i = 1
        BY <3>1, <3>2, <3>3, <4>1
      <4>2. CASE i # 1
        <5>1. i - 1 \in 1 .. Len(pending) - 1 /\ ~ (i <= 1) /\ (i - 1) + 1 = i
          BY <3>2, <4>2
        <5> QED BY <3>2, <3>3, <5>1
      <4> QED BY <4>1, <4>2
    <3> QED BY <3>2, <3>3, <3>4
  <2> HIDE DEF again
  <2>2. again = pending
    BY <1>1, <2>1, SeqEqual
  <2> QED BY <2>2 DEF again
<1> QED BY <1>1, <1>2, <1>3 DEF ToComplete

\* The budget counts the retries the loop counts.
LEMMA SameBudget ==
  ASSUME Resume
  PROVE  Loop!CountRetry
BY DEF Resume, Loop!CountRetry, Loop!RetryBudget, Loop!AtLeastOne, RetryBudget, AtLeastOne

\* The first response is the loop's.
LEMMA HalveLowers ==
  ASSUME IInv, FailedHere, Halve
  PROVE  Loop!LowerConcurrency
<1>1. /\ cur \in Task /\ cur # NoTask /\ outcome = "running" /\ streams > 1
      /\ cur' = NoTask /\ pending' = <<cur>> \o pending /\ streams' = streams \div 2
      /\ <<cur, streams>> \in Tight
  BY Decomposition
  DEF Halve, Resume, Lowerable, Halved, IInv, TypeOK, HostTypeOK, Control, FailedHere, MayRunOut,
      Decomposition
<1>2. UNCHANGED DepthsOf(ToComplete)
  BY <1>1 DEF ToComplete, DepthsOf
<1>3. Loop!CountRetry
  BY SameBudget DEF Halve
<1>4. Loop!Load \in {<<Depth[p[1]], p[2]>> : p \in Tight}
  <2>1. Loop!Load = <<Depth[cur], streams>>
    BY <1>1, ListOfTasks DEF Loop!Load
  <2> QED BY <1>1, <2>1
<1>5. Loop!Running
  BY <1>1, ListOfTasks DEF Loop!Running
<1> QED BY <1>1, <1>2, <1>3, <1>4, <1>5 DEF Loop!LowerConcurrency

\* Refining is the loop's second response.
LEMMA SplitDeepens ==
  ASSUME IInv, FailedHere, Split
  PROVE  Loop!Deepen
<1>1. /\ cur \in Task /\ cur # NoTask /\ outcome = "running" /\ streams = 1
      /\ cur' = NoTask /\ pending' = ChildrenOf[cur] \o pending /\ streams' = streams
      /\ <<cur, streams>> \in Tight /\ AllowEscalation /\ Depth[cur] < DepthCap
      /\ pending \in Seq(Task)
  <2>1. streams \in Nat /\ streams > 0 /\ ~ (streams > 1)
    BY DEF Split, Lowerable, IInv, TypeOK, HostTypeOK
  <2> QED
    BY <2>1, Decomposition
    DEF Split, Resume, Replacement, Refinable, IInv, TypeOK, HostTypeOK, Control, FailedHere,
        MayRunOut, Decomposition
<1> DEFINE kids == ChildrenOf[cur]
<1>2. /\ kids \in Seq(Task) /\ Depth[cur] + 1 \in Nat
      /\ \A i \in DOMAIN kids : Depth[kids[i]] = Depth[cur] + 1
  BY <1>1, Decomposition DEF Decomposition
<1>3. DepthsOf(kids \o pending) =
        [i \in 1 .. Len(kids) |-> Depth[cur] + 1] \o DepthsOf(pending)
  BY <1>1, <1>2, DepthsOfEqual
<1>4. DepthsOf(ToComplete)' = DepthsOf(kids \o pending)
  BY <1>1 DEF ToComplete, DepthsOf
<1>5. /\ Head(DepthsOf(ToComplete)) = Depth[cur] /\ DepthsOf(ToComplete) # <<>>
      /\ Tail(DepthsOf(ToComplete)) = DepthsOf(pending)
  BY <1>1, ListOfTasks
<1>6. DepthsOf(ToComplete)' =
        Loop!Copies(Len(kids), Head(DepthsOf(ToComplete)) + 1) \o Tail(DepthsOf(ToComplete))
  BY <1>3, <1>4, <1>5 DEF Loop!Copies
<1>7. Len(kids) \in {Len(ChildrenOf[t]) : t \in Task}
  BY <1>1
<1>8. Loop!CountRetry
  BY SameBudget DEF Split
<1>9. Loop!Load \in {<<Depth[p[1]], p[2]>> : p \in Tight}
  <2>1. Loop!Load = <<Depth[cur], streams>>
    BY <1>5 DEF Loop!Load
  <2> QED BY <1>1, <2>1
<1>10. Loop!Running /\ Loop!Refinable
  BY <1>1, <1>5 DEF Loop!Running, Loop!Refinable
<1> HIDE DEF kids
<1> QED BY <1>1, <1>6, <1>7, <1>8, <1>9, <1>10 DEF Loop!Deepen

\* So is giving up.
LEMMA GiveUpIsCapped ==
  ASSUME IInv, FailedHere, GiveUp
  PROVE  Loop!Capped
<1>1. /\ cur \in Task /\ cur # NoTask /\ outcome = "running" /\ streams = 1
      /\ UNCHANGED <<cur, pending, streams>> /\ outcome' = "capped" /\ retries' = retries + 1
      /\ <<cur, streams>> \in Tight /\ ~ Refinable(cur)
  <2>1. streams \in Nat /\ streams > 0 /\ ~ (streams > 1)
    BY DEF GiveUp, Lowerable, IInv, TypeOK, HostTypeOK
  <2> QED
    BY <2>1, Decomposition
    DEF GiveUp, IInv, TypeOK, HostTypeOK, Control, FailedHere, MayRunOut, Decomposition
<1>2. UNCHANGED DepthsOf(ToComplete)
  BY <1>1 DEF ToComplete, DepthsOf
<1>3. Head(DepthsOf(ToComplete)) = Depth[cur] /\ DepthsOf(ToComplete) # <<>>
  BY <1>1, ListOfTasks
<1>4. Loop!Load \in {<<Depth[p[1]], p[2]>> : p \in Tight}
  BY <1>1, <1>3 DEF Loop!Load
<1>5. Loop!Running /\ ~ Loop!Refinable
  BY <1>1, <1>3 DEF Loop!Running, Loop!Refinable, Refinable
<1> QED BY <1>1, <1>2, <1>4, <1>5 DEF Loop!Capped

\* Issuing a subproblem's merge completes it.
LEMMA IssueRunsOne ==
  ASSUME IInv, EnqueueMerge \/ MergeOnHost
  PROVE  Loop!RunOne
<1>1. /\ cur \in Task /\ cur # NoTask /\ outcome = "running" /\ cur' = NoTask
      /\ UNCHANGED <<pending, streams, retries, outcome>>
  BY Decomposition
  DEF EnqueueMerge, MergeOnHost, TaskDone, IInv, TypeOK, HostTypeOK, Control, Decomposition
<1>2. DepthsOf(ToComplete)' = Tail(DepthsOf(ToComplete)) /\ DepthsOf(ToComplete) # <<>>
  <2>1. DepthsOf(ToComplete)' = DepthsOf(pending)
    BY <1>1 DEF ToComplete, DepthsOf
  <2> QED BY <1>1, <2>1, ListOfTasks
<1> QED BY <1>1, <1>2 DEF Loop!RunOne, Loop!Running

\* The failures recovery has no answer to, and the end of the loop.
LEMMA EndsAlike ==
  ASSUME IInv
  PROVE  /\ Fault \/ RefuseDirty => Loop!Raise
         /\ Setup => Loop!Raise \/ UNCHANGED Loop!vars
         /\ Return => Loop!Finish
<1>1. ASSUME Fault \/ RefuseDirty \/ (Setup /\ pc' = "end")
      PROVE  Loop!Raise
  <2>1. /\ outcome = "running" /\ outcome' \in {"setup", "torn", "error"}
        /\ UNCHANGED <<cur, pending, streams, retries>>
    BY <1>1 DEF Fault, RefuseDirty, Setup, IInv, Control
  <2> QED BY <2>1 DEF Loop!Raise, ToComplete, DepthsOf
<1>2. ASSUME Setup, pc' # "end"
      PROVE  UNCHANGED Loop!vars
  BY <1>2 DEF Setup, Loop!vars, ToComplete, DepthsOf
<1>3. ASSUME Return
      PROVE  Loop!Finish
  <2>1. /\ outcome = "running" /\ outcome' \in {"returned", "undelivered"}
        /\ pending = <<>> /\ cur = NoTask
        /\ UNCHANGED <<cur, pending, streams, retries>>
    BY <1>3 DEF Return, IInv, Control
  <2>2. DepthsOf(ToComplete) = <<>> /\ DepthsOf(ToComplete)' = <<>>
    <3>1. PICK s \in Seq(Task) : s = <<>> /\ Len(s) = 0
      BY EmptySeq
    <3>2. DepthsOf(s) \in Seq(Nat) /\ Len(DepthsOf(s)) = 0
      BY <3>1, DepthsAreList
    <3>3. DepthsOf(s) = <<>>
      BY <3>2, EmptySeq
    <3> QED BY <2>1, <3>1, <3>3 DEF ToComplete, DepthsOf
  <2> QED BY <2>1, <2>2 DEF Loop!Finish
<1> QED BY <1>1, <1>2, <1>3

\* Every step of the scheduler is a step of the loop or leaves it alone.
LEMMA StepImplements ==
  ASSUME IInv, FailedHere, [Next]_vars
  PROVE  [Loop!Next]_(Loop!vars)
<1>1. CASE UNCHANGED <<pending, cur, streams, retries, outcome>>
  BY <1>1 DEF Loop!vars, ToComplete, DepthsOf
<1>2. CASE PopTask
  <2>1. UNCHANGED <<ToComplete, streams, retries, outcome>>
    BY <1>2, PopIsStutter DEF PopTask
  <2> QED BY <2>1 DEF Loop!vars, DepthsOf
<1>3. CASE EnqueueMerge \/ MergeOnHost
  BY <1>3, IssueRunsOne DEF Loop!Next
<1>4. CASE Fault \/ RefuseDirty \/ Setup \/ Return
  BY <1>4, EndsAlike DEF Loop!Next
<1>5. CASE Halve
  BY <1>5, HalveLowers DEF Loop!Next
<1>6. CASE Split
  BY <1>6, SplitDeepens DEF Loop!Next
<1>7. CASE GiveUp
  BY <1>7, GiveUpIsCapped DEF Loop!Next
<1>8. CASE HostNext
  BY <1>1, <1>2, <1>3, <1>4, <1>5, <1>6, <1>7, <1>8
  DEF HostNext, WaitAndGather, EnqueueCopy, EnqueueKernel, RunOut, TearMerge
<1> QED
  BY <1>1, <1>8
  DEF Next, Finished, vars, host, WorkerNext, Copy, Kernel, MergeNext, MergeRead, MergeWrite

\* stream_cqsa_forward, with everything its streams do behind its back, does
\* nothing but what the recovery loop promises.
THEOREM Implements == Spec => ImplementsLoop
<1>1. ASSUME Init PROVE Loop!Init /\ FailedHere
  <2>1. /\ cur = NoTask /\ pending = Roots /\ pc = "setup" /\ Roots \in Seq(Task)
        /\ streams = NPar /\ retries = 0 /\ outcome = "running"
    BY <1>1, Decomposition DEF Init, Decomposition
  <2>2. DepthsOf(ToComplete) = Loop!Copies(Len(Roots), Itr)
    <3>1. /\ DepthsOf(Roots) \in Seq(Nat) /\ Len(DepthsOf(Roots)) = Len(Roots)
          /\ DOMAIN DepthsOf(Roots) = 1 .. Len(Roots)
          /\ \A i \in 1 .. Len(Roots) : DepthsOf(Roots)[i] = Depth[Roots[i]]
      BY <2>1, DepthsAreList
    <3>2. DOMAIN Roots = 1 .. Len(Roots)
      BY <2>1, LenProperties
    <3>3. DepthsOf(Roots) = [i \in 1 .. Len(Roots) |-> Itr]
      BY <3>1, <3>2, Decomposition DEF Decomposition, DepthsOf
    <3> QED BY <2>1, <3>3 DEF Loop!Copies, ToComplete
  <2> QED BY <2>1, <2>2 DEF Loop!Init, FailedHere
<1>2. IInv /\ FailedHere /\ [Next]_vars => [Loop!Next]_(Loop!vars) /\ FailedHere'
  BY StepImplements, NextFailedHere
<1> QED BY <1>1, <1>2, Invariant, PTL DEF Spec, ImplementsLoop, Loop!Spec

=============================================================================
