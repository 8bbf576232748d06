------------------------ MODULE NativeBackward_proofs ------------------------
(* Theorems of NativeBackward, for every decomposition, number of slots and *)
(* place where memory may run out.                                          *)
EXTENDS NativeBackwardInv, SequenceTheorems, TLAPS

USE DEF Worker

-----------------------------------------------------------------------------
(* The host: what there is. *)

\* The least number of a set that has one.
LEMMA MinIs ==
  ASSUME NEW S \in SUBSET Int, NEW n \in S, \A m \in S : n <= m
  PROVE  Min(S) = n
<1>1. \E x \in S : \A y \in S : x <= y OBVIOUS
<1>2. Min(S) \in S /\ \A y \in S : Min(S) <= y BY <1>1 DEF Min
<1>3. Min(S) \in Int /\ n \in Int BY <1>2
<1>4. Min(S) <= n /\ n <= Min(S) BY <1>2
<1> QED BY <1>3, <1>4

\* n_par, the lesser of two numbers.
LEMMA MinOfTwo ==
  ASSUME NEW a \in Nat \ {0}, NEW b \in Nat \ {0}
  PROVE  Min({a, b}) \in Nat \ {0} /\ Min({a, b}) <= a /\ Min({a, b}) <= b
<1>1. CASE a <= b
  <2>1. Min({a, b}) = a BY <1>1, MinIs
  <2> QED BY <1>1, <2>1
<1>2. CASE ~ (a <= b)
  <2>1. \A m \in {a, b} : b <= m BY <1>2
  <2>2. {a, b} \in SUBSET Int /\ b \in {a, b} OBVIOUS
  <2>3. Min({a, b}) = b BY <2>1, <2>2, MinIs
  <2> QED BY <1>2, <2>3
<1> QED BY <1>1, <1>2

\* The tasks of an attempt, n_par, and the slot whose turn it is.
LEMMA Shape ==
  ASSUME HostShape
  PROVE  /\ Tasks \in Seq(Task) /\ Len(Tasks) \in Nat \ {0} /\ IsInjective(Tasks)
         /\ Shares(Tasks, Pairs) /\ DOMAIN Tasks = 1 .. Len(Tasks)
         /\ NPar \in Nat \ {0} /\ NPar <= MaxParallel /\ NPar <= Len(Tasks)
         /\ turn \in Nat /\ TheSlot \in 0 .. NPar - 1 /\ TheSlot \in Slot
         /\ 0 .. NPar - 1 \subseteq Slot
<1>1. depth \in 0 .. DepthCap BY DEF HostShape
<1>2. Tasks \in Seq(Task) /\ Tasks # <<>>
  BY <1>1, BackwardParameters DEF BackwardParameters, Tasks
<1>3. IsInjective(Tasks) /\ Shares(Tasks, Pairs)
  BY <1>1, BackwardTasks DEF BackwardTasks, Tasks
<1>4. Len(Tasks) \in Nat /\ DOMAIN Tasks = 1 .. Len(Tasks) BY <1>2, LenProperties
<1>5. Len(Tasks) # 0 BY <1>2, EmptySeq
<1>6. MaxParallel \in Nat \ {0} BY BackwardParameters DEF BackwardParameters
<1>7. NPar \in Nat \ {0} /\ NPar <= MaxParallel /\ NPar <= Len(Tasks)
  <2>1. Len(Tasks) \in Nat \ {0} BY <1>4, <1>5
  <2> QED BY <2>1, <1>6, MinOfTwo DEF NPar
<1>8. turn \in Nat BY <1>4 DEF HostShape
<1>9. turn % NPar \in 0 .. NPar - 1 BY <1>7, <1>8
<1>10. 0 .. NPar - 1 \subseteq Slot BY <1>6, <1>7 DEF Slot
<1> QED BY <1>2, <1>3, <1>4, <1>5, <1>7, <1>8, <1>9, <1>10 DEF TheSlot

\* Subproblems, unlike the mark for none.
LEMMA NoTaskApart == NoTask \notin Task
BY BackwardParameters DEF BackwardParameters

\* Streams with one or two operations before them.
LEMMA Short ==
  ASSUME NEW a, NEW b
  PROVE  /\ <<a, b>> # <<>> /\ <<a>> # <<>>
         /\ Head(<<a, b>>) = a /\ Tail(<<a, b>>) = <<b>>
         /\ Head(<<a>>) = a /\ Tail(<<a>>) = <<>>
OBVIOUS

\* What is enqueued for a subproblem is a sequence of operations.
LEMMA ShortSeq ==
  ASSUME NEW S, NEW a \in S, NEW b \in S
  PROVE  <<a, b>> \in Seq(S) /\ <<b>> \in Seq(S)
OBVIOUS

\* Whom a slot waits for: the additions that were handed over from it.
LEMMA JoinedIs ==
  ASSUME HostShape, JobsOwn, NEW s \in Slot, Joined(s)
  PROVE  ~ HasJob(s)
<1> SUFFICES ASSUME NEW e \in Job, Unfinished(e), e.slot = s PROVE FALSE
  BY DEF HasJob
<1>1. e.task \in Task BY DEF Job
<1>2. scatter[s] = e.task BY DEF JobsOwn
<1>3. scatter[s] # NoTask BY <1>1, <1>2, NoTaskApart
<1> QED BY <1>3 DEF Joined, Unfinished

-----------------------------------------------------------------------------
(* The host: what is added and what is owed. *)

\* Nothing changes hands.
LEMMA LedgerSame ==
  ASSUME Ledger, Issued' = Issued, acc' = acc, \A s \in Slot : (Owed(s))' = Owed(s)
  PROVE  Ledger'
BY DEF Ledger

\* The gradients that slot s owed are added.
LEMMA LedgerPaid ==
  ASSUME Ledger, acc \in [Task -> Nat], NEW s \in Slot, NEW t \in Task,
         Owed(s) = t, (Owed(s))' = NoTask, \A r \in Slot : r # s => (Owed(r))' = Owed(r),
         Issued' = Issued, acc' = [acc EXCEPT ![t] = @ + 1]
  PROVE  Ledger'
<1>1. t # NoTask BY NoTaskApart
<1>2. t \in Issued /\ acc[t] = 0 BY <1>1 DEF Ledger
<1>3. \A r \in Slot : (Owed(r))' # NoTask => r # s /\ (Owed(r))' = Owed(r) OBVIOUS
<1>4. \A r \in Slot : (Owed(r))' # t BY <1>1 DEF Ledger
<1>5. \A u \in Task : acc'[u] = IF u \in Issued' /\ \A r \in Slot : (Owed(r))' # u THEN 1 ELSE 0
  <2> SUFFICES ASSUME NEW u \in Task
               PROVE  acc'[u] = IF u \in Issued' /\ \A r \in Slot : (Owed(r))' # u THEN 1 ELSE 0
    OBVIOUS
  <2>1. CASE u = t BY <2>1, <1>2, <1>4
  <2>2. CASE u # t
    <3>1. acc'[u] = acc[u] BY <2>2
    <3>2. (\A r \in Slot : (Owed(r))' # u) <=> \A r \in Slot : Owed(r) # u
      BY <2>2, NoTaskApart
    <3> QED BY <3>1, <3>2 DEF Ledger
  <2> QED BY <2>1, <2>2
<1> QED BY <1>3, <1>5 DEF Ledger

-----------------------------------------------------------------------------
(* The host: what depends on what. *)

\* The tasks, the slot whose turn it is and the issued subproblems are those of
\* the attempt; the jobs are those of the pool and its worker.
LEMMA Frame ==
  /\ depth' = depth => Tasks' = Tasks /\ NPar' = NPar
  /\ depth' = depth /\ turn' = turn => TheSlot' = TheSlot /\ Issued' = Issued /\ Next1' = Next1
  /\ depth' = depth /\ useScatter' = useScatter => Async' = Async
  /\ accOnGpu' = accOnGpu => LastOp' = LastOp
  /\ jobs' = jobs /\ adding' = adding =>
       /\ \A e \in Job : (Unfinished(e))' <=> Unfinished(e)
       /\ \A s \in Slot : (HasJob(s))' <=> HasJob(s)
<1>1. depth' = depth => Tasks' = Tasks BY DEF Tasks
<1>2. depth' = depth => NPar' = NPar BY <1>1 DEF NPar
<1>3. depth' = depth /\ turn' = turn => TheSlot' = TheSlot BY <1>2 DEF TheSlot
<1>4. depth' = depth /\ turn' = turn => Issued' = Issued BY <1>1 DEF Issued
<1>5. depth' = depth /\ turn' = turn => Next1' = Next1 BY <1>1 DEF Next1
<1>6. depth' = depth /\ useScatter' = useScatter => Async' = Async BY <1>1 DEF Async
<1>7. accOnGpu' = accOnGpu => LastOp' = LastOp BY DEF LastOp
<1>8. jobs' = jobs /\ adding' = adding => \A e \in Job : (Unfinished(e))' <=> Unfinished(e)
  BY DEF Unfinished
<1>9. jobs' = jobs /\ adding' = adding => \A s \in Slot : (HasJob(s))' <=> HasJob(s)
  BY <1>8 DEF HasJob
<1> QED BY <1>1, <1>2, <1>3, <1>4, <1>5, <1>6, <1>7, <1>8, <1>9

\* What a slot owes depends on its stream, on what is in flight and on its job.
LEMMA OwedFrame ==
  ASSUME NEW s \in Slot, accOnGpu' = accOnGpu, (work[s])' = work[s],
         (slotState[s])' = slotState[s], (scatter[s])' = scatter[s],
         (HasJob(s))' <=> HasJob(s)
  PROVE  (Owed(s))' = Owed(s)
BY DEF Owed

\* The issuing thread goes on without touching a slot, a buffer, a job or an
\* accumulator.
LEMMA Quiet ==
  ASSUME HostInv, UNCHANGED <<options, depth, turn, slotState, scatter, stageIn, device, adders>>,
         pc' \in {"setup", "flush", "join", "issue", "drain", "oom", "end"}
  PROVE  HostShape' /\ Pipeline' /\ JobsOwn' /\ Ledger' /\ OwnGradients'
<1>1. /\ accOnGpu' = accOnGpu /\ useScatter' = useScatter /\ depth' = depth /\ turn' = turn
      /\ slotState' = slotState /\ scatter' = scatter /\ stageIn' = stageIn
      /\ stageOut' = stageOut /\ input' = input /\ work' = work
      /\ jobs' = jobs /\ adding' = adding /\ acc' = acc /\ foreign' = foreign
  BY DEF options, device, adders
<1>2. HostShape' BY <1>1, Frame DEF HostInv, HostShape
<1>3. Pipeline' BY <1>1, Frame DEF HostInv, Pipeline
<1>4. JobsOwn' BY <1>1, Frame DEF HostInv, JobsOwn
<1>5. \A s \in Slot : (Owed(s))' = Owed(s) BY <1>1, Frame, OwedFrame
<1>6. Ledger' BY <1>1, <1>5, Frame, LedgerSame DEF HostInv
<1>7. OwnGradients' BY <1>1 DEF HostInv, OwnGradients
<1> QED BY <1>2, <1>3, <1>4, <1>6, <1>7

-----------------------------------------------------------------------------
(* The host: the issuing thread. *)

\* The buffers of an attempt are there.
LEMMA HostSetup == HostInv /\ Setup => HostInv'
<1> SUFFICES ASSUME HostInv, Setup PROVE HostInv' OBVIOUS
<1>1. HostShape' /\ Pipeline' /\ JobsOwn' /\ Ledger' /\ OwnGradients'
  BY Quiet DEF Setup
<1>2. Filling' BY DEF Setup, Filling
<1>3. Closing' BY Frame DEF HostInv, Setup, Closing, options, device, adders
<1> QED BY <1>1, <1>2, <1>3 DEF HostInv

\* An allocation fails.
LEMMA HostRunOut == HostInv /\ RunOut => HostInv'
<1> SUFFICES ASSUME HostInv, RunOut PROVE HostInv' OBVIOUS
<1>1. HostShape' /\ Pipeline' /\ JobsOwn' /\ Ledger' /\ OwnGradients'
  BY Quiet DEF RunOut
<1>2. Filling' BY DEF RunOut, Filling
<1>3. Closing' BY Frame DEF HostInv, RunOut, Closing, options, device, adders
<1> QED BY <1>1, <1>2, <1>3 DEF HostInv

\* There is no deeper level to repeat the call at.
LEMMA HostGiveUp == HostInv /\ GiveUp => HostInv'
<1> SUFFICES ASSUME HostInv, GiveUp PROVE HostInv' OBVIOUS
<1>1. HostShape' /\ Pipeline' /\ JobsOwn' /\ Ledger' /\ OwnGradients'
  BY Quiet DEF GiveUp
<1>2. Filling' BY DEF GiveUp, Filling
<1>3. Closing' BY Frame DEF HostInv, GiveUp, Closing, options, device, adders
<1> QED BY <1>1, <1>2, <1>3 DEF HostInv

\* All subproblems are issued, and the closing flush begins.
LEMMA HostBeginDrain == HostInv /\ BeginDrain => HostInv'
<1> SUFFICES ASSUME HostInv, BeginDrain PROVE HostInv' OBVIOUS
<1>1. HostShape' /\ Pipeline' /\ JobsOwn' /\ Ledger' /\ OwnGradients'
  BY Quiet DEF BeginDrain
<1>2. Filling' BY DEF BeginDrain, Filling
<1>3. NPar \in Nat /\ NPar' = NPar BY Shape, Frame DEF HostInv, BeginDrain
<1>4. Closing'
  <2>1. draining' = 0 .. NPar' - 1 /\ 0 \in 0 .. NPar' BY <1>3 DEF BeginDrain
  <2>2. \A s \in 0 .. 0 - 1 : (slotState[s] = NoTask)' OBVIOUS
  <2>3. pc' = "drain" /\ outcome' = outcome /\ outcome # "returned" /\ (turn = Len(Tasks))'
    BY Frame DEF HostInv, BeginDrain, Closing
  <2>4. \A s \in Slot : slotState'[s] # NoTask => s < NPar'
    BY <1>3 DEF HostInv, BeginDrain, Closing
  <2> QED BY <2>1, <2>2, <2>3, <2>4 DEF Closing
<1> QED BY <1>1, <1>2, <1>4 DEF HostInv

\* The gradients are returned: nothing is in flight, and no addition is left.
LEMMA HostReturn == HostInv /\ Return => HostInv'
<1> SUFFICES ASSUME HostInv, Return PROVE HostInv' OBVIOUS
<1>1. HostShape' /\ Pipeline' /\ JobsOwn' /\ Ledger' /\ OwnGradients'
  BY Quiet DEF Return
<1>2. Filling' BY DEF Return, Filling
<1>3. \A s \in Slot : ~ HasJob(s)
  BY JoinedIs DEF HostInv, Return
<1>4. \A s \in Slot : ~ (HasJob(s))' BY <1>3, Frame DEF Return, adders
<1>5. NPar \in Nat /\ NPar' = NPar /\ Tasks' = Tasks BY Shape, Frame DEF HostInv, Return
<1>6. \A s \in Slot : slotState[s] = NoTask
  <2>1. PICK n \in 0 .. NPar : draining = n .. NPar - 1 /\ \A s \in 0 .. n - 1 : slotState[s] = NoTask
    BY DEF HostInv, Return, Closing
  <2>2. n = NPar
    <3>1. CASE n < NPar
      <4>1. n \in n .. NPar - 1 BY <3>1, <1>5
      <4> QED BY <4>1, <2>1 DEF Return
    <3> QED BY <3>1, <1>5
  <2> SUFFICES ASSUME NEW s \in Slot, slotState[s] # NoTask PROVE FALSE OBVIOUS
  <2>3. s < NPar BY DEF HostInv, Closing
  <2>4. s \in 0 .. n - 1 BY <2>2, <2>3, <1>5 DEF Slot
  <2> QED BY <2>1, <2>4
<1>7. Closing'
  <2>1. pc' = "end" /\ turn' = turn /\ turn = Len(Tasks) /\ slotState' = slotState
    BY DEF HostInv, Return, Closing
  <2> QED BY <2>1, <1>4, <1>5, <1>6 DEF Closing
<1> QED BY <1>1, <1>2, <1>7 DEF HostInv

\* flush hands over what is in flight in slot s: to the worker, whose list gets
\* a job of the slot's gradients, or to the accumulators at once.
LEMMA HandsOver ==
  ASSUME HostInv, NEW s \in Slot, HandOver(s),
         UNCHANGED <<options, depth, turn, stageIn, device>>,
         pc' \in {"setup", "flush", "join", "issue", "drain", "oom", "end"}
  PROVE  /\ HostShape' /\ Pipeline' /\ JobsOwn' /\ Ledger' /\ OwnGradients'
         /\ slotState' = [slotState EXCEPT ![s] = NoTask]
<1>1. /\ accOnGpu' = accOnGpu /\ useScatter' = useScatter /\ depth' = depth /\ turn' = turn
      /\ stageIn' = stageIn /\ stageOut' = stageOut /\ input' = input /\ work' = work
  BY DEF options, device
<1>2. slotState' = [slotState EXCEPT ![s] = NoTask] /\ work[s] = <<>>
  BY DEF HandOver, CopyLanded
<1>3. HostShape /\ Pipeline /\ JobsOwn /\ Ledger /\ OwnGradients BY DEF HostInv
<1>4. slotState \in [Slot -> Task \cup {NoTask}] BY <1>3 DEF HostShape
<1>5. slotState' \in [Slot -> Task \cup {NoTask}] BY <1>2, <1>4
<1>6. /\ slotState'[s] = NoTask
      /\ \A r \in Slot : r # s => slotState'[r] = slotState[r]
  BY <1>2, <1>4
<1>7. Pipeline' BY <1>1, <1>2, <1>3, <1>6, Frame, Short DEF Pipeline
<1>8. CASE accOnGpu \/ slotState[s] = NoTask
  <2>1. scatter' = scatter /\ jobs' = jobs /\ adding' = adding /\ acc' = acc /\ foreign' = foreign
    BY <1>8 DEF HandOver, adders
  <2>2. HostShape' BY <1>1, <1>3, <1>5, <2>1, Frame DEF HostShape
  <2>3. JobsOwn'
    <3>1. \A e \in Job : Unfinished(e) => slotState'[e.slot] = NoTask
      BY <1>3, <1>6 DEF JobsOwn, Job
    <3>2. \A e \in Job : (Unfinished(e))' <=> Unfinished(e) BY <2>1, Frame
    <3> QED BY <1>1, <1>3, <2>1, <3>1, <3>2, Frame DEF JobsOwn
  <2>4. \A r \in Slot : (Owed(r))' = Owed(r)
    <3> SUFFICES ASSUME NEW r \in Slot PROVE (Owed(r))' = Owed(r) OBVIOUS
    <3>1. CASE r = s BY <3>1, <1>1, <1>2, <1>6, <1>8, <2>1, Frame DEF Owed
    <3>2. CASE r # s BY <3>2, <1>1, <1>6, <2>1, Frame, OwedFrame
    <3> QED BY <3>1, <3>2
  <2>5. Ledger' BY <1>1, <1>3, <2>1, <2>4, Frame, LedgerSame
  <2> QED BY <1>2, <1>3, <1>7, <2>1, <2>2, <2>3, <2>5 DEF OwnGradients
<1>9. CASE ~ (accOnGpu \/ slotState[s] = NoTask) /\ Async
  <2> DEFINE t == slotState[s]
             new == [task |-> t, slot |-> s]
  <2>1. /\ jobs' = Append(jobs, new) /\ scatter' = [scatter EXCEPT ![s] = t]
        /\ adding' = adding /\ acc' = acc /\ foreign' = foreign
    BY <1>9 DEF HandOver
  <2>2. t \in Task /\ new \in Job /\ new.slot = s /\ new.task = t BY <1>4, <1>9 DEF Job
  <2>3. stageOut[s] = t BY <1>2, <1>3, <1>9, Short DEF Pipeline
  <2>4. jobs \in Seq(Job) /\ scatter \in [Slot -> Task \cup {NoTask}] BY <1>3 DEF HostShape
  <2> HIDE DEF new, t
  <2>5. /\ jobs' \in Seq(Job) /\ Len(jobs) \in Nat /\ Len(jobs') = Len(jobs) + 1
        /\ \A i \in 1 .. Len(jobs) : jobs'[i] = jobs[i]
        /\ jobs'[Len(jobs) + 1] = new
        /\ DOMAIN jobs = 1 .. Len(jobs) /\ DOMAIN jobs' = 1 .. Len(jobs) + 1
        /\ \A i \in DOMAIN jobs : jobs[i] \in Job
    BY <2>1, <2>2, <2>4, AppendProperties, LenProperties
  <2>6. scatter' \in [Slot -> Task \cup {NoTask}] /\ scatter'[s] = t
        /\ \A r \in Slot : r # s => scatter'[r] = scatter[r]
    BY <2>1, <2>2, <2>4
  <2>7. HostShape' BY <1>1, <1>3, <1>5, <2>1, <2>5, <2>6, Frame DEF HostShape
  <2>8. \A e \in Job : (Unfinished(e))' <=> Unfinished(e) \/ e = new
    <3> SUFFICES ASSUME NEW e \in Job PROVE (Unfinished(e))' <=> Unfinished(e) \/ e = new OBVIOUS
    <3>1. (\E i \in DOMAIN jobs' : jobs'[i] = e) <=> (\E i \in DOMAIN jobs : jobs[i] = e) \/ e = new
      BY <2>5
    <3> QED BY <2>1, <3>1 DEF Unfinished
  <2>9. \A e \in Job : Unfinished(e) => e.slot # s
    BY <1>3, <1>9 DEF JobsOwn
  <2>10. \A r \in Slot : (HasJob(r))' <=> HasJob(r) \/ r = s
    BY <2>2, <2>8 DEF HasJob
  <2>11. \A i \in DOMAIN jobs : jobs[i].slot # s
    <3> SUFFICES ASSUME NEW i \in DOMAIN jobs PROVE jobs[i].slot # s OBVIOUS
    <3>1. jobs[i] \in Job /\ Unfinished(jobs[i]) BY <2>5 DEF Unfinished
    <3> QED BY <3>1, <2>9
  <2>12. \A w \in Worker : adding[w] # <<>> => adding[w][1] \in Job /\ adding[w][1].slot # s
    <3> SUFFICES ASSUME NEW w \in Worker, adding[w] # <<>>
                 PROVE  adding[w][1] \in Job /\ adding[w][1].slot # s
      OBVIOUS
    <3>1. PICK e \in Job : adding[w] = <<e, acc>> BY <1>3 DEF JobsOwn
    <3>2. adding[w][1] = e BY <3>1
    <3>3. Unfinished(e) BY <3>2 DEF Unfinished
    <3> QED BY <3>2, <3>3, <2>9
  <2>13. JobsOwn'
    <3>1. \A e \in Job : (Unfinished(e))' =>
            slotState'[e.slot] = NoTask /\ scatter'[e.slot] = e.task /\ stageOut'[e.slot] = e.task
      <4> SUFFICES ASSUME NEW e \in Job, (Unfinished(e))'
                   PROVE  /\ slotState'[e.slot] = NoTask /\ scatter'[e.slot] = e.task
                          /\ stageOut'[e.slot] = e.task
        OBVIOUS
      <4>1. CASE e = new BY <4>1, <1>1, <1>6, <2>2, <2>3, <2>6
      <4>2. CASE Unfinished(e)
        <5>1. e.slot \in Slot /\ e.slot # s BY <4>2, <2>9 DEF Job
        <5> QED BY <4>2, <5>1, <1>1, <1>3, <1>6, <2>6 DEF JobsOwn
      <4> QED BY <4>1, <4>2, <2>8
    <3>2. \A i, j \in DOMAIN jobs' : jobs'[i].slot = jobs'[j].slot => i = j
      <4> SUFFICES ASSUME NEW i \in DOMAIN jobs', NEW j \in DOMAIN jobs', jobs'[i].slot = jobs'[j].slot
                   PROVE  i = j
        OBVIOUS
      <4>1. CASE i \in DOMAIN jobs /\ j \in DOMAIN jobs
        BY <4>1, <1>3, <2>5 DEF JobsOwn
      <4>2. CASE i \in DOMAIN jobs /\ j = Len(jobs) + 1
        BY <4>2, <2>2, <2>5, <2>11
      <4>3. CASE i = Len(jobs) + 1 /\ j \in DOMAIN jobs
        BY <4>3, <2>2, <2>5, <2>11
      <4>4. CASE i = Len(jobs) + 1 /\ j = Len(jobs) + 1 BY <4>4
      <4> QED BY <4>1, <4>2, <4>3, <4>4, <2>5
    <3>3. \A w \in Worker : adding'[w] # <<>> =>
            /\ \E e \in Job : adding'[w] = <<e, acc'>>
            /\ \A i \in DOMAIN jobs' : jobs'[i].slot # adding'[w][1].slot
      <4> SUFFICES ASSUME NEW w \in Worker, adding[w] # <<>>
                   PROVE  \A i \in DOMAIN jobs' : jobs'[i].slot # adding[w][1].slot
        BY <1>3, <2>1 DEF JobsOwn
      <4>1. \A i \in DOMAIN jobs : jobs'[i].slot # adding[w][1].slot BY <1>3, <2>5 DEF JobsOwn
      <4>2. jobs'[Len(jobs) + 1].slot # adding[w][1].slot BY <2>2, <2>5, <2>12
      <4> QED BY <4>1, <4>2, <2>5
    <3>4. ~ (accOnGpu \/ ~ Async)' BY <1>1, <1>9, Frame
    <3> QED BY <3>1, <3>2, <3>3, <3>4 DEF JobsOwn
  <2>14. \A r \in Slot : (Owed(r))' = Owed(r)
    <3> SUFFICES ASSUME NEW r \in Slot PROVE (Owed(r))' = Owed(r) OBVIOUS
    <3>1. CASE r = s
      <4>1. Owed(s) = t BY <1>9 DEF Owed, t
      <4>2. (Owed(s))' = t BY <1>1, <1>6, <1>9, <2>6, <2>10 DEF Owed
      <4> QED BY <3>1, <4>1, <4>2
    <3>2. CASE r # s BY <3>2, <1>1, <1>6, <2>6, <2>10, OwedFrame
    <3> QED BY <3>1, <3>2
  <2>15. Ledger' BY <1>1, <1>3, <2>1, <2>14, Frame, LedgerSame
  <2> QED BY <1>2, <1>3, <1>7, <2>1, <2>7, <2>13, <2>15 DEF OwnGradients
<1>10. CASE ~ (accOnGpu \/ slotState[s] = NoTask) /\ ~ Async
  <2> DEFINE t == slotState[s]
  <2>1. t \in Task /\ stageOut[s] = t BY <1>2, <1>3, <1>4, <1>10, Short DEF Pipeline
  <2>2. /\ acc' = [acc EXCEPT ![t] = @ + 1] /\ foreign' = foreign
        /\ scatter' = scatter /\ jobs' = jobs /\ adding' = adding
    BY <1>10, <2>1 DEF HandOver
  <2>3. acc \in [Task -> Nat] BY <1>3 DEF HostShape
  <2>4. acc' \in [Task -> Nat] BY <2>1, <2>2, <2>3
  <2>5. HostShape' BY <1>1, <1>3, <1>5, <2>2, <2>4, Frame DEF HostShape
  <2>6. \A e \in Job : ~ Unfinished(e) BY <1>3, <1>10 DEF JobsOwn
  <2>7. \A e \in Job : ~ (Unfinished(e))' BY <2>2, <2>6, Frame
  <2>8. \A w \in Worker : adding[w] = <<>> BY <1>3, <2>6 DEF JobsOwn, Unfinished
  <2>9. JobsOwn' BY <1>3, <2>2, <2>7, <2>8 DEF JobsOwn
  <2>10. Owed(s) = t BY <1>10 DEF Owed
  <2>11. (Owed(s))' = NoTask BY <1>1, <1>6, <1>10, <2>7 DEF Owed, HasJob
  <2>12. \A r \in Slot : r # s => (Owed(r))' = Owed(r)
    BY <1>1, <1>6, <2>2, Frame, OwedFrame
  <2> HIDE DEF t
  <2>13. Ledger' BY <1>1, <1>3, <2>1, <2>2, <2>3, <2>10, <2>11, <2>12, Frame, LedgerPaid
  <2> QED BY <1>2, <1>3, <1>7, <2>2, <2>5, <2>9, <2>13 DEF OwnGradients
<1> QED BY <1>8, <1>9, <1>10

\* The slot is emptied before it is filled.
LEMMA HostFlush == HostInv /\ Flush => HostInv'
<1> SUFFICES ASSUME HostInv, Flush PROVE HostInv' OBVIOUS
<1>0. /\ TheSlot \in Slot /\ TheSlot' = TheSlot /\ Tasks' = Tasks /\ NPar' = NPar
      /\ turn' = turn /\ turn < Len(Tasks)
  BY Shape, Frame DEF HostInv, Flush
<1>1. /\ HostShape' /\ Pipeline' /\ JobsOwn' /\ Ledger' /\ OwnGradients'
      /\ slotState' = [slotState EXCEPT ![TheSlot] = NoTask]
  BY <1>0, HandsOver DEF Flush
<1>2. slotState \in [Slot -> Task \cup {NoTask}] BY DEF HostInv, HostShape
<1>3. Filling' BY <1>0, <1>1, <1>2 DEF Flush, Filling
<1>4. \A s \in Slot : slotState'[s] # NoTask => slotState[s] # NoTask BY <1>1, <1>2
<1>5. pc = "flush" /\ pc' = "join" /\ outcome' = outcome BY DEF Flush
<1>6. Closing' BY <1>0, <1>4, <1>5 DEF HostInv, Closing
<1> QED BY <1>1, <1>3, <1>6 DEF HostInv

\* The closing flush goes through the slots from the first on.
LEMMA HostDrain == HostInv /\ Drain => HostInv'
<1> SUFFICES ASSUME HostInv, Drain PROVE HostInv' OBVIOUS
<1>0. /\ Tasks' = Tasks /\ NPar' = NPar /\ turn' = turn /\ NPar \in Nat /\ 0 .. NPar - 1 \subseteq Slot
      /\ pc = "drain" /\ pc' = "drain" /\ outcome' = outcome /\ draining # {}
  BY Shape, Frame DEF HostInv, Drain
<1>1. PICK n \in 0 .. NPar : draining = n .. NPar - 1 /\ \A s \in 0 .. n - 1 : slotState[s] = NoTask
  BY <1>0 DEF HostInv, Closing
<1>2. n \in draining BY <1>0, <1>1
<1>3. Min(draining) = n
  <2>1. draining \in SUBSET Int /\ \A m \in draining : n <= m BY <1>0, <1>1
  <2> QED BY <2>1, <1>2, MinIs
<1>4. n \in Slot /\ n + 1 \in 0 .. NPar BY <1>0, <1>1, <1>2
<1>5. HandOver(n) /\ draining' = draining \ {n} BY <1>3 DEF Drain
<1>6. /\ HostShape' /\ Pipeline' /\ JobsOwn' /\ Ledger' /\ OwnGradients'
      /\ slotState' = [slotState EXCEPT ![n] = NoTask]
  BY <1>0, <1>4, <1>5, HandsOver DEF Drain
<1>7. slotState \in [Slot -> Task \cup {NoTask}] BY DEF HostInv, HostShape
<1>8. Filling' BY <1>0 DEF Filling
<1>9. Closing'
  <2>1. \A s \in Slot : slotState'[s] # NoTask => slotState[s] # NoTask BY <1>6, <1>7
  <2>2. draining' = n + 1 .. NPar - 1 BY <1>0, <1>1, <1>5
  <2>3. \A s \in 0 .. (n + 1) - 1 : slotState'[s] = NoTask
    <3> SUFFICES ASSUME NEW s \in 0 .. (n + 1) - 1 PROVE slotState'[s] = NoTask OBVIOUS
    <3>1. CASE s = n BY <3>1, <1>4, <1>6, <1>7
    <3>2. CASE s # n
      <4>1. s \in 0 .. n - 1 /\ s \in Slot BY <3>2, <1>0, <1>1
      <4> QED BY <4>1, <1>1, <1>6, <1>7
    <3> QED BY <3>1, <3>2
  <2>4. outcome # "returned" /\ turn = Len(Tasks) BY <1>0 DEF HostInv, Closing
  <2>5. \A s \in Slot : slotState[s] # NoTask => s < NPar BY DEF HostInv, Closing
  <2> QED BY <1>0, <1>4, <2>1, <2>2, <2>3, <2>4, <2>5 DEF Closing
<1> QED BY <1>6, <1>8, <1>9 DEF HostInv

\* The buffers of a slot are gathered anew once its last addition is over.
LEMMA HostJoinAndGather == HostInv /\ JoinAndGather => HostInv'
<1> SUFFICES ASSUME HostInv, JoinAndGather PROVE HostInv' OBVIOUS
<1> DEFINE s == TheSlot
<1>1. /\ accOnGpu' = accOnGpu /\ useScatter' = useScatter /\ depth' = depth /\ turn' = turn
      /\ slotState' = slotState /\ stageOut' = stageOut /\ input' = input /\ work' = work
      /\ jobs' = jobs /\ adding' = adding /\ acc' = acc /\ foreign' = foreign
      /\ scatter' = [scatter EXCEPT ![s] = NoTask] /\ stageIn' = [stageIn EXCEPT ![s] = Next1]
      /\ pc = "join" /\ pc' = "issue" /\ outcome' = outcome
  BY DEF JoinAndGather, options, device, adders
<1>2. HostShape /\ Pipeline /\ Filling /\ JobsOwn /\ Ledger /\ OwnGradients /\ Closing BY DEF HostInv
<1>3. s \in Slot /\ slotState[s] = NoTask /\ turn < Len(Tasks) /\ Joined(s)
  BY <1>1, <1>2, Shape DEF Filling, JoinAndGather
<1>4. Next1 \in Task
  <2>1. turn + 1 \in DOMAIN Tasks BY <1>2, <1>3, Shape
  <2>2. Tasks \in Seq(Task) BY <1>2, Shape
  <2> QED BY <2>1, <2>2, LenProperties, ElementOfSeq DEF Next1
<1>5. /\ Tasks' = Tasks /\ NPar' = NPar /\ TheSlot' = TheSlot /\ Issued' = Issued /\ Next1' = Next1
      /\ Async' = Async /\ LastOp' = LastOp
      /\ \A e \in Job : (Unfinished(e))' <=> Unfinished(e)
      /\ \A r \in Slot : (HasJob(r))' <=> HasJob(r)
  BY <1>1, Frame
<1>6. /\ scatter \in [Slot -> Task \cup {NoTask}] /\ stageIn \in [Slot -> Task \cup {NoTask}]
  BY <1>2 DEF HostShape
<1> HIDE DEF s
<1>7. /\ scatter' \in [Slot -> Task \cup {NoTask}] /\ stageIn' \in [Slot -> Task \cup {NoTask}]
      /\ scatter'[s] = NoTask /\ stageIn'[s] = Next1
      /\ \A r \in Slot : r # s => scatter'[r] = scatter[r] /\ stageIn'[r] = stageIn[r]
  BY <1>1, <1>3, <1>4, <1>6
<1>8. HostShape' BY <1>1, <1>2, <1>5, <1>7 DEF HostShape
<1>9. Pipeline' BY <1>1, <1>2, <1>3, <1>5, <1>7 DEF Pipeline
<1>10. Filling'
  <2>2. s = TheSlot BY DEF s
  <2>3. (Joined(TheSlot))' BY <2>2, <1>5, <1>7 DEF Joined
  <2> QED BY <1>1, <1>3, <1>5, <1>7, <2>2, <2>3 DEF Filling
<1>11. ~ HasJob(s) BY <1>2, <1>3, JoinedIs
<1>12. JobsOwn'
  <2>1. \A e \in Job : Unfinished(e) => e.slot # s BY <1>11 DEF HasJob
  <2>2. \A e \in Job : (Unfinished(e))' =>
          slotState'[e.slot] = NoTask /\ scatter'[e.slot] = e.task /\ stageOut'[e.slot] = e.task
    <3> SUFFICES ASSUME NEW e \in Job, Unfinished(e)
                 PROVE  slotState[e.slot] = NoTask /\ scatter'[e.slot] = e.task /\ stageOut[e.slot] = e.task
      BY <1>1, <1>5
    <3>1. e.slot \in Slot /\ e.slot # s BY <2>1 DEF Job
    <3> QED BY <3>1, <1>2, <1>7 DEF JobsOwn
  <2> QED BY <1>1, <1>2, <1>5, <2>2 DEF JobsOwn
<1>13. \A r \in Slot : (Owed(r))' = Owed(r)
  <2> SUFFICES ASSUME NEW r \in Slot PROVE (Owed(r))' = Owed(r) OBVIOUS
  <2>1. CASE r = s BY <2>1, <1>1, <1>3, <1>5, <1>11 DEF Owed
  <2>2. CASE r # s BY <2>2, <1>1, <1>5, <1>7, OwedFrame
  <2> QED BY <2>1, <2>2
<1>14. Ledger' BY <1>1, <1>2, <1>5, <1>13, LedgerSame
<1>15. Closing' BY <1>1, <1>2, <1>5 DEF Closing
<1>16. OwnGradients' BY <1>1, <1>2 DEF OwnGradients
<1> QED BY <1>8, <1>9, <1>10, <1>12, <1>14, <1>15, <1>16 DEF HostInv

\* A subproblem is enqueued on the stream of its slot.
LEMMA HostIssue == HostInv /\ Issue => HostInv'
<1> SUFFICES ASSUME HostInv, Issue PROVE HostInv' OBVIOUS
<1> USE DEF HostInv
<1>1. /\ accOnGpu' = accOnGpu /\ useScatter' = useScatter /\ depth' = depth /\ turn' = turn + 1
      /\ stageIn' = stageIn /\ stageOut' = stageOut /\ input' = input /\ scatter' = scatter
      /\ jobs' = jobs /\ adding' = adding /\ acc' = acc /\ foreign' = foreign
      /\ pc = "issue" /\ pc' = "flush" /\ outcome' = outcome
  BY DEF Issue, options, adders
<1>2. PICK s \in Slot : s = TheSlot /\ s < NPar
  <2>1. TheSlot \in 0 .. NPar - 1 /\ TheSlot \in Slot /\ NPar \in Nat BY Shape
  <2> QED BY <2>1
<1>3. PICK n \in Task : n = Next1 /\ turn + 1 \in DOMAIN Tasks
  <2>1. turn < Len(Tasks) BY <1>1 DEF Filling
  <2>2. turn + 1 \in DOMAIN Tasks BY <2>1, Shape
  <2>3. Tasks \in Seq(Task) BY Shape
  <2>4. Next1 \in Task BY <2>2, <2>3, LenProperties, ElementOfSeq DEF Next1
  <2> QED BY <2>2, <2>4
<1>4. slotState[s] = NoTask /\ stageIn[s] = n /\ Joined(s) /\ scatter[s] = NoTask
  BY <1>1, <1>2, <1>3 DEF Filling
<1>5. LastOp = (IF accOnGpu THEN "add" ELSE "download") /\ LastOp \in Op BY DEF LastOp, Op
<1>6. PICK both \in Seq(Op) : both = <<"upload", LastOp>> /\ both # <<>>
  <2>1. "upload" \in Op BY DEF Op
  <2>2. LastOp \in Op BY <1>5
  <2>3. <<"upload", LastOp>> \in Seq(Op) BY <2>1, <2>2, ShortSeq
  <2> QED BY <2>3, Short
<1>7. work' = [work EXCEPT ![s] = both] /\ slotState' = [slotState EXCEPT ![s] = n]
  BY <1>2, <1>3, <1>5, <1>6 DEF Issue
<1>8. work \in [Slot -> Seq(Op)] /\ slotState \in [Slot -> Task \cup {NoTask}] BY DEF HostShape
<1>9. /\ work' \in [Slot -> Seq(Op)] /\ slotState' \in [Slot -> Task \cup {NoTask}]
      /\ work'[s] = both /\ slotState'[s] = n
      /\ \A r \in Slot : r # s => work'[r] = work[r] /\ slotState'[r] = slotState[r]
  BY <1>7, <1>8
<1>10. /\ Tasks' = Tasks /\ NPar' = NPar /\ Async' = Async /\ LastOp' = LastOp
       /\ \A e \in Job : (Unfinished(e))' <=> Unfinished(e)
       /\ \A r \in Slot : (HasJob(r))' <=> HasJob(r)
  BY <1>1, Frame
<1>11. n # NoTask BY NoTaskApart
<1>12. turn \in Nat /\ Len(Tasks) \in Nat /\ DOMAIN Tasks = 1 .. Len(Tasks) /\ IsInjective(Tasks)
  BY Shape
<1>13. HostShape'
  <2>1. turn + 1 \in 0 .. Len(Tasks) BY <1>3, <1>12
  <2> QED BY <1>1, <1>9, <1>10, <2>1 DEF HostShape
<1>14. Pipeline'
  <2> SUFFICES ASSUME NEW r \in Slot
               PROVE
                 \/ work'[r] = <<"upload", LastOp>> /\ slotState'[r] # NoTask /\ stageIn[r] = slotState'[r]
                 \/ work'[r] = <<LastOp>> /\ slotState'[r] # NoTask /\ input[r] = slotState'[r]
                 \/ /\ work'[r] = <<>>
                    /\ slotState'[r] # NoTask /\ ~ accOnGpu => stageOut[r] = slotState'[r]
    BY <1>1, <1>10 DEF Pipeline
  <2>1. CASE r = s BY <2>1, <1>4, <1>6, <1>9, <1>11
  <2>2. CASE r # s BY <2>2, <1>9 DEF Pipeline
  <2> QED BY <2>1, <2>2
<1>15. Filling' BY <1>1 DEF Filling
<1>16. ~ HasJob(s) BY <1>4, JoinedIs
<1>17. JobsOwn'
  <2>1. \A e \in Job : Unfinished(e) => e.slot # s /\ e.slot \in Slot BY <1>16 DEF HasJob, Job
  <2>2. \A e \in Job : Unfinished(e) => slotState'[e.slot] = NoTask
    BY <1>9, <2>1 DEF JobsOwn
  <2> QED BY <1>1, <1>10, <2>2 DEF JobsOwn
<1>18. n \notin Issued
  <2> SUFFICES ASSUME NEW i \in 1 .. turn, Tasks[i] = Tasks[turn + 1] PROVE FALSE
    BY <1>3 DEF Issued, Next1
  <2>1. i \in DOMAIN Tasks /\ turn + 1 \in DOMAIN Tasks /\ i # turn + 1 BY <1>3, <1>12
  <2> QED BY <2>1, <1>12 DEF IsInjective
<1>19. Issued' = Issued \cup {n}
  <2>1. 1 .. turn + 1 = 1 .. turn \cup {turn + 1} BY <1>12
  <2> QED BY <2>1, <1>1, <1>3, <1>10 DEF Issued, Next1
<1>20. (Owed(s))' = n BY <1>1, <1>6, <1>9, <1>11 DEF Owed
<1>21. Owed(s) = NoTask
  <2>1. CASE accOnGpu BY <2>1, <1>4 DEF Owed
  <2>2. CASE ~ accOnGpu BY <2>2, <1>4, <1>16 DEF Owed
  <2> QED BY <2>1, <2>2
<1>22. \A r \in Slot : r # s => (Owed(r))' = Owed(r)
  BY <1>1, <1>9, <1>10, OwedFrame
<1>23. Ledger'
  <2>1. \A r \in Slot : (Owed(r))' # NoTask => (Owed(r))' \in Issued'
    <3> SUFFICES ASSUME NEW r \in Slot, (Owed(r))' # NoTask PROVE (Owed(r))' \in Issued' OBVIOUS
    <3>1. CASE r = s BY <3>1, <1>19, <1>20
    <3>2. CASE r # s BY <3>2, <1>19, <1>22 DEF Ledger
    <3> QED BY <3>1, <3>2
  <2>2. \A r \in Slot : Owed(r) # n BY <1>11, <1>18 DEF Ledger
  <2>3. \A q, r \in Slot : (Owed(q))' # NoTask /\ (Owed(q))' = (Owed(r))' => q = r
    <3> SUFFICES ASSUME NEW q \in Slot, NEW r \in Slot, (Owed(q))' # NoTask, (Owed(q))' = (Owed(r))'
                 PROVE  q = r
      OBVIOUS
    <3>1. CASE q = s /\ r # s BY <3>1, <1>20, <1>22, <2>2
    <3>2. CASE q # s /\ r = s BY <3>2, <1>20, <1>22, <2>2
    <3>3. CASE q # s /\ r # s BY <3>3, <1>22 DEF Ledger
    <3> QED BY <3>1, <3>2, <3>3
  <2>4. \A t \in Task : acc'[t] = IF t \in Issued' /\ \A r \in Slot : (Owed(r))' # t THEN 1 ELSE 0
    <3> SUFFICES ASSUME NEW t \in Task
                 PROVE  acc[t] = IF t \in Issued' /\ \A r \in Slot : (Owed(r))' # t THEN 1 ELSE 0
      BY <1>1
    <3>1. CASE t = n BY <3>1, <1>18, <1>20 DEF Ledger
    <3>2. CASE t # n
      <4>1. t # NoTask BY NoTaskApart
      <4>2. (\A r \in Slot : (Owed(r))' # t) <=> \A r \in Slot : Owed(r) # t
        BY <3>2, <4>1, <1>20, <1>21, <1>22
      <4> QED BY <3>2, <4>2, <1>19 DEF Ledger
    <3> QED BY <3>1, <3>2
  <2> QED BY <2>1, <2>3, <2>4 DEF Ledger
<1>24. Closing' BY <1>1, <1>2, <1>9, <1>10 DEF Closing
<1>25. OwnGradients' BY <1>1 DEF OwnGradients
<1> QED BY <1>13, <1>14, <1>15, <1>17, <1>23, <1>24, <1>25

\* The attempt begins anew, one level deeper.
LEMMA HostDeepen == HostInv /\ Deepen => HostInv'
<1> SUFFICES ASSUME HostInv, Deepen PROVE HostInv' OBVIOUS
<1> USE DEF HostInv
<1>1. /\ accOnGpu' = accOnGpu /\ useScatter' = useScatter /\ depth' = depth + 1 /\ turn' = 0
      /\ work' = work /\ foreign' = foreign /\ outcome' = outcome
      /\ pc = "oom" /\ pc' = "setup" /\ jobs' = <<>>
      /\ slotState' = [s \in Slot |-> NoTask] /\ scatter' = [s \in Slot |-> NoTask]
      /\ stageIn' = [s \in Slot |-> NoTask] /\ stageOut' = [s \in Slot |-> NoTask]
      /\ input' = [s \in Slot |-> NoTask]
      /\ adding' = [w \in {0} |-> <<>>] /\ acc' = [t \in Task |-> 0]
      /\ \A s \in Slot : work[s] = <<>>
  BY DEF Deepen, options
<1>2. depth' \in 0 .. DepthCap
  BY BackwardParameters DEF Deepen, HostShape, BackwardParameters
<1>3. 0 \in 0 .. Len(Tasks')
  <2>1. Tasks' \in Seq(Task) BY <1>2, BackwardParameters DEF BackwardParameters, Tasks
  <2> QED BY <2>1, LenProperties
<1>4. HostShape'
  <2>1. jobs' \in Seq(Job) BY <1>1
  <2>2. adding' \in [Worker -> {<<>>} \cup (Job \X [Task -> Nat])] BY <1>1
  <2> QED BY <1>1, <1>2, <1>3, <2>1, <2>2 DEF HostShape
<1>5. DOMAIN jobs' = {} BY <1>1
<1>6. \A e \in Job : ~ (Unfinished(e))' BY <1>1, <1>5 DEF Unfinished
<1>7. \A s \in Slot : ~ (HasJob(s))' BY <1>6 DEF HasJob
<1>8. JobsOwn' BY <1>1, <1>5, <1>6 DEF JobsOwn
<1>9. Pipeline' BY <1>1 DEF Pipeline
<1>10. Filling' BY <1>1 DEF Filling
<1>11. \A s \in Slot : (Owed(s))' = NoTask BY <1>1, <1>7 DEF Owed
<1>12. Issued' = {} BY <1>1 DEF Issued
<1>13. Ledger' BY <1>1, <1>11, <1>12 DEF Ledger
<1>14. Closing'
  <2>1. outcome # "returned" BY <1>1 DEF Closing
  <2> QED BY <1>1, <2>1 DEF Closing
<1>15. OwnGradients' BY <1>1 DEF OwnGradients
<1> QED BY <1>4, <1>8, <1>9, <1>10, <1>13, <1>14, <1>15

-----------------------------------------------------------------------------
(* The host: the streams. *)

\* What a stream is at, from the operation it does next.
LEMMA StreamAt ==
  ASSUME HostInv, NEW s \in Slot, NEW op, Doing(s, op)
  PROVE  /\ slotState[s] \in Task
         /\ op = "upload" => work[s] = <<"upload", LastOp>> /\ stageIn[s] = slotState[s]
         /\ op # "upload" => op = LastOp /\ work[s] = <<LastOp>> /\ input[s] = slotState[s]
<1>1. work[s] # <<>> /\ Head(work[s]) = op BY DEF Doing
<1>2. slotState[s] \in Task \cup {NoTask} BY DEF HostInv, HostShape
<1>3. LastOp # "upload" BY DEF LastOp
<1>4. CASE work[s] = <<"upload", LastOp>> /\ slotState[s] # NoTask /\ stageIn[s] = slotState[s]
  <2>1. op = "upload" BY <1>1, <1>4, Short
  <2> QED BY <2>1, <1>2, <1>4
<1>5. CASE work[s] = <<LastOp>> /\ slotState[s] # NoTask /\ input[s] = slotState[s]
  <2>1. op = LastOp BY <1>1, <1>5, Short
  <2> QED BY <2>1, <1>2, <1>3, <1>5
<1> QED BY <1>1, <1>4, <1>5 DEF HostInv, Pipeline

\* The stream of a slot does its next operation: what is left of its work.
LEMMA StreamGoesOn ==
  ASSUME HostInv, NEW s \in Slot, NEW op, Doing(s, op), work' = [work EXCEPT ![s] = Tail(@)],
         UNCHANGED <<issuer, stageIn>>
  PROVE  /\ work' \in [Slot -> Seq(Op)]
         /\ op = "upload" => work'[s] = <<LastOp>>
         /\ op # "upload" => work'[s] = <<>>
         /\ \A r \in Slot : r # s => work'[r] = work[r]
         /\ accOnGpu' = accOnGpu /\ useScatter' = useScatter /\ depth' = depth /\ turn' = turn
         /\ slotState' = slotState /\ scatter' = scatter /\ stageIn' = stageIn
         /\ pc' = pc /\ outcome' = outcome /\ draining' = draining
         /\ Tasks' = Tasks /\ NPar' = NPar /\ TheSlot' = TheSlot /\ Issued' = Issued
         /\ Next1' = Next1 /\ Async' = Async /\ LastOp' = LastOp
<1>1. work \in [Slot -> Seq(Op)] BY DEF HostInv, HostShape
<1>2. LastOp \in Op BY DEF LastOp, Op
<1>3. work'[s] = Tail(work[s]) /\ \A r \in Slot : r # s => work'[r] = work[r] BY <1>1
<1>4. op = "upload" => work'[s] = <<LastOp>>
  <2> SUFFICES ASSUME op = "upload" PROVE work'[s] = <<LastOp>> OBVIOUS
  <2>1. work[s] = <<"upload", LastOp>> BY StreamAt
  <2> QED BY <2>1, <1>3, Short
<1>5. op # "upload" => work'[s] = <<>>
  <2> SUFFICES ASSUME op # "upload" PROVE work'[s] = <<>> OBVIOUS
  <2>1. work[s] = <<LastOp>> BY StreamAt
  <2> QED BY <2>1, <1>3, Short
<1>6. work' \in [Slot -> Seq(Op)]
  <2>1. work'[s] \in Seq(Op) BY <1>2, <1>4, <1>5, ShortSeq, EmptySeq
  <2>2. \A r \in Slot : work'[r] \in Seq(Op) BY <2>1, <1>1, <1>3
  <2> QED BY <2>2, <1>1
<1>7. /\ accOnGpu' = accOnGpu /\ useScatter' = useScatter /\ depth' = depth /\ turn' = turn
      /\ slotState' = slotState /\ scatter' = scatter /\ stageIn' = stageIn
      /\ pc' = pc /\ outcome' = outcome /\ draining' = draining
  BY DEF issuer, options
<1>8. /\ Tasks' = Tasks /\ NPar' = NPar /\ TheSlot' = TheSlot /\ Issued' = Issued
      /\ Next1' = Next1 /\ Async' = Async /\ LastOp' = LastOp
  BY <1>7, Frame
<1> QED BY <1>3, <1>4, <1>5, <1>6, <1>7, <1>8

\* What the streams do not change for the issuing thread.
LEMMA StreamLeaves ==
  ASSUME HostInv, NEW s \in Slot, NEW op, Doing(s, op), work' = [work EXCEPT ![s] = Tail(@)],
         UNCHANGED <<issuer, stageIn, jobs, adding>>
  PROVE  Filling' /\ Closing'
<1> USE DEF HostInv
<1>1. UNCHANGED <<issuer, stageIn>> OBVIOUS
<1>2. /\ slotState' = slotState /\ scatter' = scatter /\ stageIn' = stageIn /\ turn' = turn
      /\ pc' = pc /\ outcome' = outcome /\ draining' = draining
      /\ Tasks' = Tasks /\ NPar' = NPar /\ TheSlot' = TheSlot /\ Next1' = Next1
  BY <1>1, StreamGoesOn
<1>3. Filling' BY <1>2 DEF Filling, Joined
<1>4. \A r \in Slot : (HasJob(r))' <=> HasJob(r) BY Frame
<1>5. pc # "setup"
  <2>1. slotState[s] # NoTask BY StreamAt, NoTaskApart
  <2> QED BY <2>1 DEF Closing
<1>6. Closing' BY <1>2, <1>4, <1>5 DEF Closing
<1> QED BY <1>3, <1>6

\* The copy of the inputs to the device.
LEMMA HostUpload == ASSUME HostInv, NEW s \in Slot, Upload(s) PROVE HostInv'
<1> USE DEF HostInv
<1>1. /\ Doing(s, "upload") /\ work' = [work EXCEPT ![s] = Tail(@)] /\ UNCHANGED <<issuer, stageIn>>
      /\ input' = [input EXCEPT ![s] = stageIn[s]] /\ stageOut' = stageOut
      /\ jobs' = jobs /\ adding' = adding /\ acc' = acc /\ foreign' = foreign
  BY DEF Upload, adders
<1>2. work[s] = <<"upload", LastOp>> /\ stageIn[s] = slotState[s] /\ slotState[s] \in Task
  BY <1>1, StreamAt
<1>3. /\ work' \in [Slot -> Seq(Op)] /\ work'[s] = <<LastOp>>
      /\ \A r \in Slot : r # s => work'[r] = work[r]
      /\ accOnGpu' = accOnGpu /\ useScatter' = useScatter /\ depth' = depth /\ turn' = turn
      /\ slotState' = slotState /\ scatter' = scatter /\ stageIn' = stageIn
      /\ pc' = pc /\ outcome' = outcome /\ draining' = draining
      /\ Tasks' = Tasks /\ Issued' = Issued /\ Async' = Async /\ LastOp' = LastOp
  BY <1>1, StreamGoesOn
<1>4. /\ input' \in [Slot -> Task \cup {NoTask}] /\ input'[s] = slotState[s]
      /\ \A r \in Slot : r # s => input'[r] = input[r]
  BY <1>1, <1>2 DEF HostShape
<1>5. HostShape' BY <1>1, <1>3, <1>4 DEF HostShape
<1>6. Pipeline'
  <2>1. slotState[s] # NoTask BY <1>2, NoTaskApart
  <2> QED BY <2>1, <1>1, <1>3, <1>4 DEF Pipeline
<1>7. Filling' /\ Closing' BY <1>1, StreamLeaves
<1>8. JobsOwn' BY <1>1, <1>3, Frame DEF JobsOwn
<1>9. \A r \in Slot : (Owed(r))' = Owed(r)
  <2> SUFFICES ASSUME NEW r \in Slot PROVE (Owed(r))' = Owed(r) OBVIOUS
  <2>1. CASE r = s BY <2>1, <1>1, <1>2, <1>3, Frame, Short DEF Owed
  <2>2. CASE r # s BY <2>2, <1>1, <1>3, Frame, OwedFrame
  <2> QED BY <2>1, <2>2
<1>10. Ledger' BY <1>1, <1>3, <1>9, LedgerSame
<1>11. OwnGradients' BY <1>1 DEF OwnGradients
<1> QED BY <1>5, <1>6, <1>7, <1>8, <1>10, <1>11

\* The copy of the gradients to the host.
LEMMA HostDownload == ASSUME HostInv, NEW s \in Slot, Download(s) PROVE HostInv'
<1> USE DEF HostInv
<1>1. /\ Doing(s, "download") /\ work' = [work EXCEPT ![s] = Tail(@)] /\ UNCHANGED <<issuer, stageIn>>
      /\ stageOut' = [stageOut EXCEPT ![s] = input[s]] /\ input' = input
      /\ jobs' = jobs /\ adding' = adding /\ acc' = acc /\ foreign' = foreign
  BY DEF Download, adders
<1>2. /\ LastOp = "download" /\ work[s] = <<LastOp>> /\ input[s] = slotState[s] /\ slotState[s] \in Task
  BY <1>1, StreamAt
<1>3. /\ work' \in [Slot -> Seq(Op)] /\ work'[s] = <<>>
      /\ \A r \in Slot : r # s => work'[r] = work[r]
      /\ accOnGpu' = accOnGpu /\ useScatter' = useScatter /\ depth' = depth /\ turn' = turn
      /\ slotState' = slotState /\ scatter' = scatter /\ stageIn' = stageIn
      /\ pc' = pc /\ outcome' = outcome /\ draining' = draining
      /\ Tasks' = Tasks /\ Issued' = Issued /\ Async' = Async /\ LastOp' = LastOp
  <2>1. PICK op : op = "download" OBVIOUS
  <2>2. op # "upload" /\ Doing(s, op) BY <2>1, <1>1
  <2> QED BY <1>1, <2>2, StreamGoesOn
<1>4. ~ accOnGpu /\ slotState[s] # NoTask BY <1>2, NoTaskApart DEF LastOp
<1>5. /\ stageOut' \in [Slot -> Task \cup {NoTask}] /\ stageOut'[s] = slotState[s]
      /\ \A r \in Slot : r # s => stageOut'[r] = stageOut[r]
  BY <1>1, <1>2 DEF HostShape
<1>6. HostShape' BY <1>1, <1>3, <1>5 DEF HostShape
<1>7. Pipeline' BY <1>1, <1>3, <1>5 DEF Pipeline
<1>8. Filling' /\ Closing' BY <1>1, StreamLeaves
<1>9. JobsOwn'
  <2>1. \A e \in Job : Unfinished(e) => stageOut'[e.slot] = e.task
    <3> SUFFICES ASSUME NEW e \in Job, Unfinished(e) PROVE stageOut'[e.slot] = e.task OBVIOUS
    <3>1. e.slot \in Slot /\ e.slot # s BY <1>4 DEF JobsOwn, Job
    <3> QED BY <3>1, <1>5 DEF JobsOwn
  <2> QED BY <2>1, <1>1, <1>3, Frame DEF JobsOwn
<1>10. \A r \in Slot : (Owed(r))' = Owed(r)
  BY <1>1, <1>3, <1>4, Frame DEF Owed
<1>11. Ledger' BY <1>1, <1>3, <1>10, LedgerSame
<1>12. OwnGradients' BY <1>1 DEF OwnGradients
<1> QED BY <1>6, <1>7, <1>8, <1>9, <1>11, <1>12

\* The addition on the device.
LEMMA HostAddOnDevice == ASSUME HostInv, NEW s \in Slot, AddOnDevice(s) PROVE HostInv'
<1> USE DEF HostInv
<1>1. /\ Doing(s, "add") /\ work' = [work EXCEPT ![s] = Tail(@)] /\ UNCHANGED <<issuer, stageIn>>
      /\ stageOut' = stageOut /\ input' = input
      /\ jobs' = jobs /\ adding' = adding /\ acc' = [acc EXCEPT ![input[s]] = @ + 1] /\ foreign' = foreign
  BY DEF AddOnDevice
<1>2. PICK t \in Task : /\ LastOp = "add" /\ work[s] = <<LastOp>> /\ input[s] = t /\ slotState[s] = t
  BY <1>1, StreamAt
<1>3. /\ work' \in [Slot -> Seq(Op)] /\ work'[s] = <<>>
      /\ \A r \in Slot : r # s => work'[r] = work[r]
      /\ accOnGpu' = accOnGpu /\ useScatter' = useScatter /\ depth' = depth /\ turn' = turn
      /\ slotState' = slotState /\ scatter' = scatter /\ stageIn' = stageIn
      /\ pc' = pc /\ outcome' = outcome /\ draining' = draining
      /\ Tasks' = Tasks /\ Issued' = Issued /\ Async' = Async /\ LastOp' = LastOp
  <2>1. PICK op : op = "add" OBVIOUS
  <2>2. op # "upload" /\ Doing(s, op) BY <2>1, <1>1
  <2> QED BY <1>1, <2>2, StreamGoesOn
<1>4. accOnGpu BY <1>2 DEF LastOp
<1>5. acc \in [Task -> Nat] /\ acc' \in [Task -> Nat] BY <1>1, <1>2 DEF HostShape
<1>6. HostShape' BY <1>1, <1>3, <1>5 DEF HostShape
<1>7. Pipeline' BY <1>1, <1>3, <1>4 DEF Pipeline
<1>8. Filling' /\ Closing' BY <1>1, StreamLeaves
<1>9. JobsOwn'
  <2>1. \A e \in Job : ~ Unfinished(e) BY <1>4 DEF JobsOwn
  <2>2. \A w \in Worker : adding[w] = <<>> BY <2>1 DEF JobsOwn, Unfinished
  <2>3. \A e \in Job : ~ (Unfinished(e))' BY <1>1, <2>1, Frame
  <2> QED BY <1>1, <2>2, <2>3 DEF JobsOwn
<1>10. Owed(s) = t BY <1>2, <1>4, Short DEF Owed
<1>11. (Owed(s))' = NoTask BY <1>3, <1>4 DEF Owed
<1>12. \A r \in Slot : r # s => (Owed(r))' = Owed(r) BY <1>1, <1>3, Frame, OwedFrame
<1>13. acc' = [acc EXCEPT ![t] = @ + 1] BY <1>1, <1>2
<1>14. Ledger' BY <1>3, <1>5, <1>10, <1>11, <1>12, <1>13, LedgerPaid
<1>15. OwnGradients' BY <1>1 DEF OwnGradients
<1> QED BY <1>6, <1>7, <1>8, <1>9, <1>14, <1>15

-----------------------------------------------------------------------------
(* The host: the scatter worker. *)

\* What the streams and the issuing thread see of the worker: nothing.
LEMMA WorkerLeaves ==
  ASSUME HostInv, UNCHANGED <<issuer, stageIn, device>>
  PROVE  /\ accOnGpu' = accOnGpu /\ useScatter' = useScatter /\ depth' = depth /\ turn' = turn
         /\ slotState' = slotState /\ scatter' = scatter /\ stageIn' = stageIn
         /\ stageOut' = stageOut /\ input' = input /\ work' = work
         /\ pc' = pc /\ outcome' = outcome /\ draining' = draining
         /\ Tasks' = Tasks /\ NPar' = NPar /\ TheSlot' = TheSlot /\ Issued' = Issued
         /\ Next1' = Next1 /\ Async' = Async /\ LastOp' = LastOp
         /\ Pipeline'
<1>1. /\ accOnGpu' = accOnGpu /\ useScatter' = useScatter /\ depth' = depth /\ turn' = turn
      /\ slotState' = slotState /\ scatter' = scatter /\ stageIn' = stageIn
      /\ stageOut' = stageOut /\ input' = input /\ work' = work
      /\ pc' = pc /\ outcome' = outcome /\ draining' = draining
  BY DEF issuer, options, device
<1>2. /\ Tasks' = Tasks /\ NPar' = NPar /\ TheSlot' = TheSlot /\ Issued' = Issued
      /\ Next1' = Next1 /\ Async' = Async /\ LastOp' = LastOp
  BY <1>1, Frame
<1>3. Pipeline' BY <1>1, <1>2 DEF HostInv, Pipeline
<1> QED BY <1>1, <1>2, <1>3

\* A job that is being added is one of the list that was: its slot's gradients
\* are added to the accumulators as they are.
LEMMA Adding ==
  ASSUME HostInv, NEW w \in Worker, adding[w] # <<>>
  PROVE  \E e \in Job :
           /\ adding[w] = <<e, acc>> /\ adding[w][1] = e /\ adding[w][2] = acc
           /\ Unfinished(e) /\ e.task \in Task /\ e.slot \in Slot
           /\ slotState[e.slot] = NoTask /\ scatter[e.slot] = e.task /\ stageOut[e.slot] = e.task
           /\ \A i \in DOMAIN jobs : jobs[i].slot # e.slot
<1>1. PICK e \in Job : adding[w] = <<e, acc>> BY DEF HostInv, JobsOwn
<1>2. adding[w][1] = e /\ adding[w][2] = acc BY <1>1
<1>3. Unfinished(e) BY <1>2 DEF Unfinished
<1>4. e.task \in Task /\ e.slot \in Slot BY DEF Job
<1>5. slotState[e.slot] = NoTask /\ scatter[e.slot] = e.task /\ stageOut[e.slot] = e.task
  BY <1>3 DEF HostInv, JobsOwn
<1>6. \A i \in DOMAIN jobs : jobs[i].slot # e.slot BY <1>2 DEF HostInv, JobsOwn
<1> QED BY <1>1, <1>2, <1>3, <1>4, <1>5, <1>6

\* The worker takes the first job and reads the accumulators.
LEMMA HostAddRead == ASSUME HostInv, NEW w \in Worker, AddRead(w) PROVE HostInv'
<1> USE DEF HostInv
<1>1. /\ UNCHANGED <<issuer, stageIn, device>> /\ acc' = acc /\ foreign' = foreign
      /\ adding[w] = <<>> /\ jobs # <<>>
      /\ adding' = [adding EXCEPT ![w] = <<Head(jobs), acc>>] /\ jobs' = Tail(jobs)
  BY DEF AddRead
<1>2. /\ jobs \in Seq(Job) /\ acc \in [Task -> Nat]
      /\ adding \in [Worker -> {<<>>} \cup (Job \X [Task -> Nat])]
  BY DEF HostShape
<1>3. PICK first \in Job : first = Head(jobs) BY <1>1, <1>2, HeadTailProperties
<1>4. /\ jobs' \in Seq(Job) /\ Len(jobs) \in Nat \ {0} /\ Len(jobs') = Len(jobs) - 1
      /\ DOMAIN jobs = 1 .. Len(jobs) /\ DOMAIN jobs' = 1 .. Len(jobs) - 1
      /\ \A i \in DOMAIN jobs' : jobs'[i] = jobs[i + 1]
      /\ jobs[1] = first
  BY <1>1, <1>2, <1>3, HeadTailProperties, LenProperties, EmptySeq
<1>5. /\ adding' \in [Worker -> {<<>>} \cup (Job \X [Task -> Nat])]
      /\ adding'[w] = <<first, acc>> /\ adding'[w] # <<>> /\ adding'[w][1] = first
  BY <1>1, <1>2, <1>3
<1>6. \A v \in Worker : v = w OBVIOUS
<1>7. \A e \in Job : (Unfinished(e))' <=> Unfinished(e)
  <2> SUFFICES ASSUME NEW e \in Job PROVE (Unfinished(e))' <=> Unfinished(e) OBVIOUS
  <2>1. (Unfinished(e))' <=> e = first \/ \E i \in DOMAIN jobs' : jobs'[i] = e
    BY <1>5, <1>6 DEF Unfinished
  <2>2. Unfinished(e) <=> \E i \in DOMAIN jobs : jobs[i] = e
    BY <1>1, <1>6 DEF Unfinished
  <2>3. (\E i \in DOMAIN jobs : jobs[i] = e) => e = first \/ \E i \in DOMAIN jobs' : jobs'[i] = e
    <3> SUFFICES ASSUME NEW i \in DOMAIN jobs, jobs[i] = e
                 PROVE  e = first \/ \E j \in DOMAIN jobs' : jobs'[j] = e
      OBVIOUS
    <3>1. CASE i = 1 BY <3>1, <1>4
    <3>2. CASE i # 1
      <4>1. i - 1 \in DOMAIN jobs' /\ (i - 1) + 1 = i BY <3>2, <1>4
      <4> QED BY <4>1, <1>4
    <3> QED BY <3>1, <3>2
  <2>4. e = first \/ (\E i \in DOMAIN jobs' : jobs'[i] = e) => \E i \in DOMAIN jobs : jobs[i] = e
    <3>1. \A i \in DOMAIN jobs' : i + 1 \in DOMAIN jobs BY <1>4
    <3>2. 1 \in DOMAIN jobs BY <1>4
    <3> QED BY <3>1, <3>2, <1>4
  <2> QED BY <2>1, <2>2, <2>3, <2>4
<1>8. \A r \in Slot : (HasJob(r))' <=> HasJob(r) BY <1>7 DEF HasJob
<1>9. /\ accOnGpu' = accOnGpu /\ useScatter' = useScatter /\ depth' = depth /\ turn' = turn
      /\ slotState' = slotState /\ scatter' = scatter /\ stageIn' = stageIn
      /\ stageOut' = stageOut /\ input' = input /\ work' = work
      /\ pc' = pc /\ outcome' = outcome /\ draining' = draining
      /\ Tasks' = Tasks /\ NPar' = NPar /\ TheSlot' = TheSlot /\ Issued' = Issued
      /\ Next1' = Next1 /\ Async' = Async /\ LastOp' = LastOp
      /\ Pipeline'
  BY <1>1, WorkerLeaves
<1>10. HostShape' BY <1>1, <1>4, <1>5, <1>9 DEF HostShape
<1>11. Filling'
  <2> SUFFICES ASSUME pc = "issue" PROVE (Joined(TheSlot))' BY <1>9 DEF Filling
  <2> QED BY <1>9 DEF Filling, Joined
<1>12. JobsOwn'
  <2>1. \A e \in Job : (Unfinished(e))' =>
          slotState'[e.slot] = NoTask /\ scatter'[e.slot] = e.task /\ stageOut'[e.slot] = e.task
    BY <1>7, <1>9 DEF JobsOwn
  <2>2. \A i, j \in DOMAIN jobs' : jobs'[i].slot = jobs'[j].slot => i = j
    <3> SUFFICES ASSUME NEW i \in DOMAIN jobs', NEW j \in DOMAIN jobs', jobs'[i].slot = jobs'[j].slot
                 PROVE  i = j
      OBVIOUS
    <3>1. i + 1 \in DOMAIN jobs /\ j + 1 \in DOMAIN jobs BY <1>4
    <3>2. jobs[i + 1].slot = jobs[j + 1].slot BY <1>4
    <3>3. i + 1 = j + 1 BY <3>1, <3>2 DEF JobsOwn
    <3> QED BY <3>3, <1>4
  <2>3. \A v \in Worker : adding'[v] # <<>> =>
          /\ \E e \in Job : adding'[v] = <<e, acc'>>
          /\ \A i \in DOMAIN jobs' : jobs'[i].slot # adding'[v][1].slot
    <3>1. \E e \in Job : adding'[w] = <<e, acc'>> BY <1>1, <1>5
    <3>2. \A i \in DOMAIN jobs' : jobs'[i].slot # first.slot
      <4> SUFFICES ASSUME NEW i \in DOMAIN jobs', jobs'[i].slot = first.slot PROVE FALSE OBVIOUS
      <4>1. i + 1 \in DOMAIN jobs /\ 1 \in DOMAIN jobs /\ i + 1 # 1 BY <1>4
      <4>2. jobs[i + 1].slot = jobs[1].slot BY <1>4
      <4> QED BY <4>1, <4>2 DEF JobsOwn
    <3> QED BY <3>1, <3>2, <1>5, <1>6
  <2>4. accOnGpu' \/ ~ Async' => \A e \in Job : ~ (Unfinished(e))'
    BY <1>7, <1>9 DEF JobsOwn
  <2> QED BY <2>1, <2>2, <2>3, <2>4 DEF JobsOwn
<1>13. \A r \in Slot : (Owed(r))' = Owed(r) BY <1>8, <1>9, OwedFrame
<1>14. Ledger' BY <1>1, <1>9, <1>13, LedgerSame
<1>15. Closing' BY <1>8, <1>9 DEF Closing
<1>16. OwnGradients' BY <1>1 DEF OwnGradients
<1> QED BY <1>9, <1>10, <1>11, <1>12, <1>14, <1>15, <1>16

\* The worker writes the accumulators back, with the job's gradients added.
LEMMA HostAddWrite == ASSUME HostInv, NEW w \in Worker, AddWrite(w) PROVE HostInv'
<1> USE DEF HostInv
<1>1. adding[w] # <<>> /\ adding' = [adding EXCEPT ![w] = <<>>] /\ jobs' = jobs
      /\ UNCHANGED <<issuer, stageIn, device>>
  BY DEF AddWrite
<1>2. PICK e \in Job :
        /\ adding[w] = <<e, acc>> /\ adding[w][1] = e /\ adding[w][2] = acc
        /\ Unfinished(e) /\ e.task \in Task /\ e.slot \in Slot
        /\ slotState[e.slot] = NoTask /\ scatter[e.slot] = e.task /\ stageOut[e.slot] = e.task
        /\ \A i \in DOMAIN jobs : jobs[i].slot # e.slot
  BY <1>1, Adding
<1>3. PICK t \in Task, s \in Slot : t = e.task /\ s = e.slot /\ t # NoTask
  BY <1>2, NoTaskApart
<1>4. acc' = [acc EXCEPT ![t] = @ + 1] /\ foreign' = foreign
  BY <1>2, <1>3 DEF AddWrite
<1>5. \A v \in Worker : v = w OBVIOUS
<1>6. adding' \in [Worker -> {<<>>} \cup (Job \X [Task -> Nat])] /\ adding'[w] = <<>>
  BY <1>1 DEF HostShape
<1>7. /\ accOnGpu' = accOnGpu /\ useScatter' = useScatter /\ depth' = depth /\ turn' = turn
      /\ slotState' = slotState /\ scatter' = scatter /\ stageIn' = stageIn
      /\ stageOut' = stageOut /\ input' = input /\ work' = work
      /\ pc' = pc /\ outcome' = outcome /\ draining' = draining
      /\ Tasks' = Tasks /\ NPar' = NPar /\ TheSlot' = TheSlot /\ Issued' = Issued
      /\ Next1' = Next1 /\ Async' = Async /\ LastOp' = LastOp
      /\ Pipeline'
  BY <1>1, WorkerLeaves
<1>8. acc \in [Task -> Nat] /\ acc' \in [Task -> Nat] BY <1>3, <1>4 DEF HostShape
<1>9. HostShape' BY <1>1, <1>6, <1>7, <1>8 DEF HostShape
<1>10. \A f \in Job : (Unfinished(f))' <=> Unfinished(f) /\ f # e
  <2> SUFFICES ASSUME NEW f \in Job PROVE (Unfinished(f))' <=> Unfinished(f) /\ f # e OBVIOUS
  <2>1. (Unfinished(f))' <=> \E i \in DOMAIN jobs : jobs[i] = f
    BY <1>1, <1>5, <1>6 DEF Unfinished
  <2>2. Unfinished(f) <=> (\E i \in DOMAIN jobs : jobs[i] = f) \/ f = e
    BY <1>1, <1>2, <1>5 DEF Unfinished
  <2>3. ~ \E i \in DOMAIN jobs : jobs[i] = e BY <1>2
  <2> QED BY <2>1, <2>2, <2>3
<1>11. \A f \in Job : Unfinished(f) /\ f # e => f.slot # s
  <2> SUFFICES ASSUME NEW f \in Job, Unfinished(f), f # e PROVE f.slot # s OBVIOUS
  <2>1. PICK i \in DOMAIN jobs : jobs[i] = f BY <1>1, <1>2, <1>5 DEF Unfinished
  <2> QED BY <2>1, <1>2, <1>3
<1>12. \A r \in Slot : (HasJob(r))' <=> HasJob(r) /\ r # s
  <2>1. \A r \in Slot : (HasJob(r))' => HasJob(r) /\ r # s BY <1>10, <1>11 DEF HasJob
  <2>2. \A r \in Slot : HasJob(r) /\ r # s => (HasJob(r))' BY <1>3, <1>10 DEF HasJob
  <2> QED BY <2>1, <2>2
<1>13. ~ accOnGpu BY <1>2 DEF JobsOwn
<1>14. Filling'
  <2> SUFFICES ASSUME pc = "issue" PROVE (Joined(TheSlot))' BY <1>7 DEF Filling
  <2> QED BY <1>7 DEF Filling, Joined
<1>15. JobsOwn' BY <1>1, <1>5, <1>6, <1>7, <1>10 DEF JobsOwn
<1>16. Owed(s) = t
  <2>1. HasJob(s) BY <1>2, <1>3 DEF HasJob
  <2> QED BY <2>1, <1>2, <1>3, <1>13 DEF Owed
<1>17. (Owed(s))' = NoTask BY <1>2, <1>3, <1>7, <1>12, <1>13 DEF Owed
<1>18. \A r \in Slot : r # s => (Owed(r))' = Owed(r) BY <1>7, <1>12, OwedFrame
<1>19. Ledger' BY <1>4, <1>7, <1>8, <1>16, <1>17, <1>18, LedgerPaid
<1>20. Closing' BY <1>7, <1>12 DEF Closing
<1>21. OwnGradients' BY <1>4 DEF OwnGradients
<1> QED BY <1>7, <1>9, <1>14, <1>15, <1>19, <1>20, <1>21

-----------------------------------------------------------------------------
(* The host: every step. *)

\* A call starts with nothing issued, owed or added.
LEMMA HostStarts == CallInit => HostInv
<1> SUFFICES ASSUME CallInit PROVE HostInv OBVIOUS
<1>1. /\ accOnGpu \in BOOLEAN /\ useScatter \in BOOLEAN /\ pc = "setup" /\ depth \in Starts
      /\ outcome = "running" /\ foreign = {} /\ turn = 0
      /\ slotState = [s \in Slot |-> NoTask] /\ scatter = [s \in Slot |-> NoTask]
      /\ stageIn = [s \in Slot |-> NoTask] /\ stageOut = [s \in Slot |-> NoTask]
      /\ input = [s \in Slot |-> NoTask] /\ work = [s \in Slot |-> <<>>]
      /\ jobs = <<>> /\ adding = [w \in {0} |-> <<>>] /\ acc = [t \in Task |-> 0]
  BY DEF CallInit, Init, Fresh
<1>2. depth \in 0 .. DepthCap BY <1>1, BackwardParameters DEF BackwardParameters
<1>3. 0 \in 0 .. Len(Tasks)
  <2>1. Tasks \in Seq(Task) BY <1>2, BackwardParameters DEF BackwardParameters, Tasks
  <2> QED BY <2>1, LenProperties
<1>4. HostShape
  <2>1. jobs \in Seq(Job) BY <1>1
  <2>2. adding \in [Worker -> {<<>>} \cup (Job \X [Task -> Nat])] BY <1>1
  <2>3. work \in [Slot -> Seq(Op)] BY <1>1, EmptySeq
  <2> QED BY <1>1, <1>2, <1>3, <2>1, <2>2, <2>3 DEF HostShape
<1>5. DOMAIN jobs = {} BY <1>1
<1>6. \A e \in Job : ~ Unfinished(e) BY <1>1, <1>5 DEF Unfinished
<1>7. \A s \in Slot : ~ HasJob(s) BY <1>6 DEF HasJob
<1>8. JobsOwn BY <1>1, <1>5, <1>6 DEF JobsOwn
<1>9. Pipeline BY <1>1 DEF Pipeline
<1>10. Filling BY <1>1 DEF Filling
<1>11. \A s \in Slot : Owed(s) = NoTask BY <1>1, <1>7 DEF Owed
<1>12. Issued = {} BY <1>1 DEF Issued
<1>13. Ledger BY <1>1, <1>11, <1>12 DEF Ledger
<1>14. Closing BY <1>1 DEF Closing
<1>15. OwnGradients BY <1>1 DEF OwnGradients
<1> QED BY <1>4, <1>8, <1>9, <1>10, <1>13, <1>14, <1>15 DEF HostInv

\* The invariant of the host speaks of the host's variables only.
LEMMA HostRests == HostInv /\ UNCHANGED hostVars => HostInv'
<1> SUFFICES ASSUME HostInv, UNCHANGED hostVars PROVE HostInv' OBVIOUS
<1> USE DEF HostInv
<1>1. /\ UNCHANGED <<options, depth, turn, slotState, scatter, stageIn, device, adders>>
      /\ pc' = pc /\ outcome' = outcome /\ draining' = draining
  BY DEF hostVars, vars, issuer, options, device, adders
<1>2. /\ depth' = depth /\ turn' = turn /\ slotState' = slotState /\ scatter' = scatter
      /\ stageIn' = stageIn /\ work' = work /\ jobs' = jobs /\ adding' = adding
  BY <1>1 DEF device, adders
<1>3. pc' \in {"setup", "flush", "join", "issue", "drain", "oom", "end"} BY <1>1 DEF HostShape
<1>4. HostShape' /\ Pipeline' /\ JobsOwn' /\ Ledger' /\ OwnGradients' BY <1>1, <1>3, Quiet
<1>5. Filling' BY <1>1, <1>2, Frame DEF Filling, Joined
<1>6. Closing' BY <1>1, <1>2, Frame DEF Closing
<1> QED BY <1>4, <1>5, <1>6

\* Every step of issuing thread, streams and worker.
LEMMA HostSteps == HostInv /\ Next => HostInv'
<1> SUFFICES ASSUME HostInv, Next PROVE HostInv' OBVIOUS
<1>1. CASE IssuerNext
  BY <1>1, HostSetup, HostFlush, HostJoinAndGather, HostIssue, HostBeginDrain, HostDrain,
     HostReturn, HostRunOut, HostDeepen, HostGiveUp DEF IssuerNext
<1>2. CASE \E s \in Slot : StreamNext(s)
  BY <1>2, HostUpload, HostDownload, HostAddOnDevice DEF StreamNext
<1>3. CASE \E w \in Worker : AdderNext(w)
  BY <1>3, HostAddRead, HostAddWrite DEF AdderNext
<1>4. CASE Finished BY <1>4, HostRests DEF Finished, hostVars
<1> QED BY <1>1, <1>2, <1>3, <1>4 DEF Next

\* Once the call has returned, everything is issued, and nothing is owed.
LEMMA HostReturnsAll == HostInv => ReturnedExact
<1> SUFFICES ASSUME HostInv, outcome = "returned", NEW p \in Pairs
             PROVE  \E t \in Task : acc[t] = 1 /\ {u \in Task : acc[u] > 0 /\ p \in Keep[u]} = {t}
  BY DEF ReturnedExact
<1>1. turn = Len(Tasks) /\ \A s \in Slot : slotState[s] = NoTask /\ ~ HasJob(s)
  BY DEF HostInv, Closing
<1>2. \A s \in Slot : Owed(s) = NoTask BY <1>1 DEF Owed
<1>3. \A t \in Task : acc[t] = IF t \in Issued THEN 1 ELSE 0
  BY <1>2, NoTaskApart DEF HostInv, Ledger
<1>4. Tasks \in Seq(Task) /\ DOMAIN Tasks = 1 .. Len(Tasks) /\ Shares(Tasks, Pairs)
  BY Shape DEF HostInv
<1>5. Issued = {Tasks[i] : i \in DOMAIN Tasks} BY <1>1, <1>4 DEF Issued
<1>6. PICK i \in DOMAIN Tasks : p \in Keep[Tasks[i]] BY <1>4 DEF Shares
<1>7. PICK t \in Task : t = Tasks[i] BY <1>4, <1>6, LenProperties
<1>8. acc[t] = 1 BY <1>3, <1>5, <1>7
<1>9. \A u \in Task : acc[u] > 0 /\ p \in Keep[u] => u = t
  <2> SUFFICES ASSUME NEW u \in Task, acc[u] > 0, p \in Keep[u] PROVE u = t OBVIOUS
  <2>1. u \in Issued BY <1>3
  <2>2. PICK j \in DOMAIN Tasks : u = Tasks[j] BY <2>1, <1>5
  <2>3. Keep[Tasks[i]] \cap Keep[Tasks[j]] # {} BY <2>2, <1>6
  <2>4. i = j BY <2>3, <1>4 DEF Shares
  <2> QED BY <2>2, <2>4, <1>7
<1> QED BY <1>6, <1>7, <1>8, <1>9

-----------------------------------------------------------------------------
(* The device. *)

\* Where a pair is depends on the list, the subproblem in hand, what it still
\* owes, and the accumulators.
LEMMA PlaceFrame ==
  ASSUME todo' = todo, hand' = hand, grad' = grad,
         \A g \in OnDevice!Gradient : (Owes(g))' <=> Owes(g),
         \A g \in OnDevice!Gradient, p \in Pairs : Waiting(g, p) \/ Running(g, p) \/ Finishing(g, p)
  PROVE  \A g \in OnDevice!Gradient, p \in Pairs :
           (Waiting(g, p))' \/ (Running(g, p))' \/ (Finishing(g, p))'
<1> SUFFICES ASSUME NEW g \in OnDevice!Gradient, NEW p \in Pairs
             PROVE  (Waiting(g, p))' \/ (Running(g, p))' \/ (Finishing(g, p))'
  OBVIOUS
<1>1. (ToRun(p))' = ToRun(p) BY DEF ToRun
<1>2. (InHand(g, p))' <=> InHand(g, p) BY DEF InHand
<1>3. (Added(g, p))' = Added(g, p) BY DEF Added
<1>4. CASE Waiting(g, p) BY <1>4, <1>1, <1>2, <1>3 DEF Waiting
<1>5. CASE Running(g, p) BY <1>5, <1>1, <1>2, <1>3 DEF Running
<1>6. CASE Finishing(g, p) BY <1>6, <1>1, <1>2, <1>3 DEF Finishing
<1> QED BY <1>4, <1>5, <1>6

\* The call starts with the whole list to be run.
LEMMA DeviceStarts == CallInit => DeviceInv
<1> SUFFICES ASSUME CallInit PROVE DeviceInv OBVIOUS
<1>1. /\ initial = Len(todo) /\ hand = NoTask /\ at = "setup" /\ tries = 0 /\ half = FALSE
      /\ grad = [g \in OnDevice!Gradient |-> [t \in Task |-> 0]] /\ ending = "running"
      /\ \E d \in Starts : todo = TasksAt[d]
  BY DEF CallInit, OnDevice!Init
<1>2. PICK d \in Starts : todo = TasksAt[d] BY <1>1
<1>3. d \in 0 .. DepthCap BY BackwardParameters DEF BackwardParameters
<1>4. todo \in Seq(Task) BY <1>2, <1>3, BackwardParameters DEF BackwardParameters
<1>5. Shares(todo, Pairs) BY <1>2, <1>3, BackwardTasks DEF BackwardTasks
<1>6. DeviceShape BY <1>1, <1>4 DEF DeviceShape
<1>7. \A g \in OnDevice!Gradient, p \in Pairs : Waiting(g, p)
  <2> SUFFICES ASSUME NEW g \in OnDevice!Gradient, NEW p \in Pairs PROVE Waiting(g, p) OBVIOUS
  <2>1. PICK i \in DOMAIN todo : p \in Keep[todo[i]] BY <1>5 DEF Shares
  <2>2. \A j \in DOMAIN todo : p \in Keep[todo[j]] => j = i BY <2>1, <1>5 DEF Shares
  <2>3. ToRun(p) = {i} BY <2>1, <2>2 DEF ToRun
  <2>4. ~ InHand(g, p) BY <1>1 DEF InHand, Owes
  <2>5. Added(g, p) = {} BY <1>1 DEF Added
  <2> QED BY <2>3, <2>4, <2>5 DEF Waiting
<1> QED BY <1>6, <1>7 DEF DeviceInv, EachPairOnce

\* The invariant of the device speaks of the device's variables only.
LEMMA DeviceRests == DeviceInv /\ UNCHANGED deviceVars => DeviceInv'
<1> SUFFICES ASSUME DeviceInv, UNCHANGED deviceVars PROVE DeviceInv' OBVIOUS
<1>1. /\ todo' = todo /\ hand' = hand /\ at' = at /\ grad' = grad /\ half' = half /\ ending' = ending
  BY DEF deviceVars
<1>2. DeviceShape' BY <1>1 DEF DeviceInv, DeviceShape
<1>3. \A g \in OnDevice!Gradient : (Owes(g))' <=> Owes(g) BY <1>1 DEF Owes
<1>4. EachPairOnce' BY <1>1, <1>3, PlaceFrame DEF DeviceInv, EachPairOnce
<1> QED BY <1>2, <1>4 DEF DeviceInv

\* The steps that move no pair.
LEMMA DeviceSetup == DeviceInv /\ OnDevice!Setup => DeviceInv'
<1> SUFFICES ASSUME DeviceInv, OnDevice!Setup PROVE DeviceInv' OBVIOUS
<1>1. /\ todo' = todo /\ hand' = hand /\ grad' = grad /\ half' = half /\ at = "setup"
      /\ (at' = "pop" /\ ending' = ending) \/ (at' = "end" /\ ending' = "setup")
  BY DEF OnDevice!Setup
<1>2. hand = NoTask /\ ~ half /\ ending = "running" BY <1>1 DEF DeviceInv, DeviceShape
<1>3. DeviceShape' BY <1>1, <1>2 DEF DeviceInv, DeviceShape
<1>4. \A g \in OnDevice!Gradient : (Owes(g))' <=> Owes(g) BY <1>1, <1>2 DEF Owes
<1>5. EachPairOnce' BY <1>1, <1>2, <1>4, PlaceFrame DEF DeviceInv, EachPairOnce
<1> QED BY <1>3, <1>5 DEF DeviceInv

\* The kernel.
LEMMA DeviceCompute == DeviceInv /\ OnDevice!Compute => DeviceInv'
<1> SUFFICES ASSUME DeviceInv, OnDevice!Compute PROVE DeviceInv' OBVIOUS
<1>1. /\ todo' = todo /\ hand' = hand /\ grad' = grad /\ half' = half /\ ending' = ending
      /\ at = "compute" /\ at' = "dq"
  BY DEF OnDevice!Compute
<1>2. hand \in Task /\ ~ half /\ ending = "running" BY <1>1 DEF DeviceInv, DeviceShape
<1>3. DeviceShape' BY <1>1, <1>2 DEF DeviceInv, DeviceShape
<1>4. \A g \in OnDevice!Gradient : (Owes(g))' <=> Owes(g) BY <1>1 DEF Owes
<1>5. EachPairOnce' BY <1>1, <1>2, <1>4, PlaceFrame DEF DeviceInv, EachPairOnce
<1> QED BY <1>3, <1>5 DEF DeviceInv

\* Memory runs out: before the first addition the subproblem owes all it owed.
LEMMA DeviceRunOut == DeviceInv /\ OnDevice!RunOut => DeviceInv'
<1> SUFFICES ASSUME DeviceInv, OnDevice!RunOut PROVE DeviceInv' OBVIOUS
<1>1. /\ todo' = todo /\ hand' = hand /\ grad' = grad /\ ending' = ending
      /\ at \in {"compute", "dq", "dk", "dv"} /\ at' = "oom"
      /\ half' = (at \in {"dk", "dv"} \/ half)
  BY DEF OnDevice!RunOut, OnDevice!Begun, OnDevice!Gradient
<1>2. hand \in Task /\ ~ half /\ ending = "running" BY <1>1 DEF DeviceInv, DeviceShape
<1>3. half' \in BOOLEAN BY <1>1
<1>4. DeviceShape' BY <1>1, <1>2, <1>3 DEF DeviceInv, DeviceShape
<1>5. EachPairOnce'
  <2>1. CASE at \in {"dk", "dv"} BY <2>1, <1>1 DEF EachPairOnce
  <2>2. CASE at \in {"compute", "dq"}
    <3>1. \A g \in OnDevice!Gradient : (Owes(g))' <=> Owes(g) BY <1>1, <2>2 DEF Owes
    <3> QED BY <1>1, <1>2, <3>1, PlaceFrame DEF DeviceInv, EachPairOnce
  <2> QED BY <2>1, <2>2, <1>1
<1> QED BY <1>4, <1>5 DEF DeviceInv

\* The call ends with an error, and nobody gets the gradients.
LEMMA DeviceFails ==
  DeviceInv /\ (OnDevice!Fault \/ OnDevice!RefuseTorn \/ OnDevice!GiveUp) => DeviceInv'
<1> SUFFICES ASSUME DeviceInv, OnDevice!Fault \/ OnDevice!RefuseTorn \/ OnDevice!GiveUp
             PROVE  DeviceInv'
  OBVIOUS
<1>1. /\ todo' = todo /\ hand' = hand /\ grad' = grad /\ half' = half
      /\ at' = "end" /\ ending' \in {"error", "torn", "capped"}
  BY DEF OnDevice!Fault, OnDevice!RefuseTorn, OnDevice!GiveUp
<1>2. DeviceShape' BY <1>1 DEF DeviceInv, DeviceShape
<1>3. EachPairOnce' BY <1>1 DEF EachPairOnce
<1> QED BY <1>2, <1>3 DEF DeviceInv

\* The list is empty, and the gradients are returned.
LEMMA DeviceReturn == DeviceInv /\ OnDevice!Return => DeviceInv'
<1> SUFFICES ASSUME DeviceInv, OnDevice!Return PROVE DeviceInv' OBVIOUS
<1>1. /\ todo' = todo /\ hand' = hand /\ grad' = grad /\ half' = half /\ todo = <<>>
      /\ at = "pop" /\ at' = "end" /\ ending' = "returned"
  BY DEF OnDevice!Return
<1>2. hand = NoTask /\ ~ half /\ ending = "running" BY <1>1 DEF DeviceInv, DeviceShape
<1>3. DeviceShape' BY <1>1, <1>2 DEF DeviceInv, DeviceShape
<1>4. \A g \in OnDevice!Gradient : (Owes(g))' <=> Owes(g) BY <1>1, <1>2 DEF Owes
<1>5. EachPairOnce' BY <1>1, <1>2, <1>4, PlaceFrame DEF DeviceInv, EachPairOnce
<1> QED BY <1>3, <1>5 DEF DeviceInv

\* The first subproblem of the list is taken in hand.
LEMMA DevicePop == DeviceInv /\ OnDevice!Pop => DeviceInv'
<1> SUFFICES ASSUME DeviceInv, OnDevice!Pop PROVE DeviceInv' OBVIOUS
<1>1. /\ todo # <<>> /\ hand' = Head(todo) /\ todo' = Tail(todo) /\ at = "pop" /\ at' = "compute"
      /\ grad' = grad /\ half' = half /\ ending' = ending
  BY DEF OnDevice!Pop
<1>2. /\ todo \in Seq(Task) /\ hand = NoTask /\ ~ half /\ ending = "running"
  BY <1>1 DEF DeviceInv, DeviceShape
<1>3. /\ todo' \in Seq(Task) /\ Len(todo) \in Nat \ {0} /\ hand' \in Task
      /\ DOMAIN todo = 1 .. Len(todo) /\ DOMAIN todo' = 1 .. Len(todo) - 1
      /\ \A i \in DOMAIN todo' : todo'[i] = todo[i + 1]
      /\ hand' = todo[1]
  BY <1>1, <1>2, HeadTailProperties, LenProperties, EmptySeq
<1>4. DeviceShape' BY <1>1, <1>2, <1>3 DEF DeviceInv, DeviceShape
<1>5. hand' # NoTask BY <1>3, NoTaskApart
<1>6. EachPairOnce'
  <2> SUFFICES ASSUME NEW g \in OnDevice!Gradient, NEW p \in Pairs
               PROVE  (Waiting(g, p))' \/ (Running(g, p))' \/ (Finishing(g, p))'
    BY DEF EachPairOnce
  <2>1. ~ InHand(g, p) BY <1>2 DEF InHand, Owes
  <2>2. (InHand(g, p))' <=> p \in Keep[todo[1]] BY <1>1, <1>3, <1>5 DEF InHand, Owes
  <2>3. (Added(g, p))' = Added(g, p) BY <1>1 DEF Added
  <2>4. (ToRun(p))' = {i \in DOMAIN todo' : p \in Keep[todo[i + 1]]} BY <1>3 DEF ToRun
  <2>5. 1 \in DOMAIN todo /\ \A i \in DOMAIN todo' : i + 1 \in DOMAIN todo /\ i + 1 # 1 BY <1>3
  <2>6. CASE Waiting(g, p)
    <3>1. PICK i \in DOMAIN todo : ToRun(p) = {i} BY <2>6 DEF Waiting
    <3>2. p \in Keep[todo[i]] /\ \A j \in DOMAIN todo : p \in Keep[todo[j]] => j = i
      BY <3>1 DEF ToRun
    <3>3. CASE i = 1
      <4>1. (ToRun(p))' = {} BY <2>4, <2>5, <3>2, <3>3
      <4> QED BY <4>1, <2>2, <2>3, <2>6, <3>2, <3>3 DEF Waiting, Running
    <3>4. CASE i # 1
      <4>1. i - 1 \in DOMAIN todo' /\ (i - 1) + 1 = i BY <3>4, <1>3
      <4>2. \A j \in DOMAIN todo' : p \in Keep[todo[j + 1]] => j = i - 1
        <5> SUFFICES ASSUME NEW j \in DOMAIN todo', p \in Keep[todo[j + 1]] PROVE j = i - 1 OBVIOUS
        <5>1. j + 1 = i BY <2>5, <3>2
        <5> QED BY <5>1, <1>3
      <4>3. (ToRun(p))' = {i - 1} BY <4>1, <4>2, <2>4, <3>2
      <4>4. ~ (InHand(g, p))' BY <2>2, <2>5, <3>2, <3>4
      <4> QED BY <4>1, <4>3, <4>4, <2>3, <2>6 DEF Waiting
    <3> QED BY <3>3, <3>4
  <2>7. CASE Finishing(g, p)
    <3>1. \A j \in DOMAIN todo : p \notin Keep[todo[j]] BY <2>7 DEF Finishing, ToRun
    <3>2. (ToRun(p))' = {} BY <3>1, <2>4, <2>5
    <3>3. ~ (InHand(g, p))' BY <3>1, <2>2, <2>5
    <3> QED BY <3>2, <3>3, <2>3, <2>7, <1>1 DEF Finishing
  <2>8. ~ Running(g, p) BY <2>1 DEF Running
  <2> QED BY <2>6, <2>7, <2>8, <1>2 DEF DeviceInv, EachPairOnce
<1> QED BY <1>4, <1>6 DEF DeviceInv

\* An addition moves the pairs of the subproblem in hand into one accumulator.
LEMMA DeviceAdds ==
  ASSUME DeviceInv, NEW h \in OnDevice!Gradient, at = h,
         grad' = [grad EXCEPT ![h][hand] = @ + 1], todo' = todo, half' = half, ending' = ending,
         \A g \in OnDevice!Gradient : (Owes(g))' <=> Owes(g) /\ g # h,
         Owes(h), hand' = hand \/ \A g \in OnDevice!Gradient : ~ (Owes(g))'
  PROVE  EachPairOnce' /\ grad' \in [OnDevice!Gradient -> [Task -> Nat]]
<1>1. hand \in Task /\ ~ half /\ ending = "running" /\ grad \in [OnDevice!Gradient -> [Task -> Nat]]
  BY DEF DeviceInv, DeviceShape, OnDevice!Gradient
<1>2. grad' \in [OnDevice!Gradient -> [Task -> Nat]] BY <1>1
<1>3. /\ \A g \in OnDevice!Gradient : g # h => grad'[g] = grad[g]
      /\ grad'[h][hand] = grad[h][hand] + 1
      /\ \A t \in Task : t # hand => grad'[h][t] = grad[h][t]
  BY <1>1
<1>4. EachPairOnce'
  <2> SUFFICES ASSUME NEW g \in OnDevice!Gradient, NEW p \in Pairs
               PROVE  (Waiting(g, p))' \/ (Running(g, p))' \/ (Finishing(g, p))'
    BY DEF EachPairOnce
  <2>1. (ToRun(p))' = ToRun(p) BY DEF ToRun
  <2>2. Waiting(g, p) \/ Running(g, p) \/ Finishing(g, p) BY <1>1 DEF DeviceInv, EachPairOnce
  <2>3. CASE g # h
    <3>1. (InHand(g, p))' <=> InHand(g, p) BY <2>3 DEF InHand
    <3>2. (Added(g, p))' = Added(g, p) BY <2>3, <1>3 DEF Added
    <3>3. CASE Waiting(g, p) BY <3>3, <2>1, <3>1, <3>2 DEF Waiting
    <3>4. CASE Running(g, p) BY <3>4, <2>1, <3>1, <3>2 DEF Running
    <3>5. CASE Finishing(g, p) BY <3>5, <2>1, <2>3, <3>1, <3>2, <1>3 DEF Finishing
    <3> QED BY <2>2, <3>3, <3>4, <3>5
  <2>4. CASE g = h /\ p \in Keep[hand]
    <3>1. InHand(h, p) BY <2>4 DEF InHand
    <3>2. ToRun(p) = {} /\ Added(h, p) = {}
      BY <2>2, <2>4, <3>1 DEF Waiting, Running, Finishing
    <3>3. \A t \in Task : p \in Keep[t] => grad[h][t] = 0
      <4> SUFFICES ASSUME NEW t \in Task, p \in Keep[t] PROVE grad[h][t] = 0 OBVIOUS
      <4>1. grad[h][t] \in Nat BY <1>1
      <4>2. ~ (grad[h][t] > 0) BY <3>2 DEF Added
      <4> QED BY <4>1, <4>2
    <3>4. grad'[h][hand] = 1 BY <3>3, <1>1, <1>3, <2>4
    <3>5. \A t \in Task : p \in Keep[t] /\ t # hand => ~ (grad'[h][t] > 0) BY <3>3, <1>3
    <3>6. (Added(h, p))' = {hand} BY <3>4, <3>5, <1>1, <2>4 DEF Added
    <3>7. ~ (InHand(h, p))' BY DEF InHand
    <3> QED BY <2>1, <2>4, <3>2, <3>4, <3>6, <3>7, <1>1 DEF Finishing
  <2>5. CASE g = h /\ p \notin Keep[hand]
    <3>1. ~ InHand(h, p) /\ ~ (InHand(h, p))' BY <2>5 DEF InHand
    <3>2. \A t \in Task : p \in Keep[t] => grad'[h][t] = grad[h][t] BY <1>3, <2>5
    <3>3. (Added(h, p))' = Added(h, p) BY <3>2 DEF Added
    <3>4. CASE Waiting(h, p) BY <3>4, <2>1, <2>5, <3>1, <3>3 DEF Waiting
    <3>5. CASE Finishing(h, p)
      <4>1. PICK t \in Task : Added(h, p) = {t} /\ grad[h][t] = 1 BY <3>5 DEF Finishing
      <4>2. p \in Keep[t] BY <4>1 DEF Added
      <4>3. grad'[h][t] = 1 BY <4>1, <4>2, <3>2
      <4> QED BY <4>1, <4>3, <2>1, <2>5, <3>1, <3>3, <3>5 DEF Finishing
    <3> QED BY <2>2, <2>5, <3>1, <3>4, <3>5 DEF Running
  <2> QED BY <2>3, <2>4, <2>5
<1> QED BY <1>2, <1>4

\* The three additions, one after the other.
LEMMA DeviceCommit == DeviceInv /\ OnDevice!Commit => DeviceInv'
<1> SUFFICES ASSUME DeviceInv, OnDevice!Commit PROVE DeviceInv' OBVIOUS
<1>0. "dq" \in OnDevice!Gradient /\ "dk" \in OnDevice!Gradient /\ "dv" \in OnDevice!Gradient
  BY DEF OnDevice!Gradient
<1>1. CASE OnDevice!Add("dq", "dk")
  <2>1. /\ at = "dq" /\ at' = "dk" /\ hand' = hand /\ grad' = [grad EXCEPT !["dq"][hand] = @ + 1]
        /\ todo' = todo /\ half' = half /\ ending' = ending
    BY <1>1 DEF OnDevice!Add
  <2>2. hand \in Task /\ hand # NoTask BY <2>1, NoTaskApart DEF DeviceInv, DeviceShape
  <2>3. \A g \in OnDevice!Gradient : (Owes(g))' <=> Owes(g) /\ g # "dq"
    BY <2>1, <2>2 DEF Owes, OnDevice!Gradient
  <2>4. Owes("dq") BY <2>1, <2>2 DEF Owes
  <2>5. EachPairOnce' /\ grad' \in [OnDevice!Gradient -> [Task -> Nat]]
    BY <1>0, <2>1, <2>3, <2>4, DeviceAdds
  <2>6. DeviceShape' BY <2>1, <2>2, <2>5 DEF DeviceInv, DeviceShape
  <2> QED BY <2>5, <2>6 DEF DeviceInv
<1>2. CASE OnDevice!Add("dk", "dv")
  <2>1. /\ at = "dk" /\ at' = "dv" /\ hand' = hand /\ grad' = [grad EXCEPT !["dk"][hand] = @ + 1]
        /\ todo' = todo /\ half' = half /\ ending' = ending
    BY <1>2 DEF OnDevice!Add
  <2>2. hand \in Task /\ hand # NoTask BY <2>1, NoTaskApart DEF DeviceInv, DeviceShape
  <2>3. \A g \in OnDevice!Gradient : (Owes(g))' <=> Owes(g) /\ g # "dk"
    BY <2>1, <2>2 DEF Owes, OnDevice!Gradient
  <2>4. Owes("dk") BY <2>1, <2>2 DEF Owes
  <2>5. EachPairOnce' /\ grad' \in [OnDevice!Gradient -> [Task -> Nat]]
    BY <1>0, <2>1, <2>3, <2>4, DeviceAdds
  <2>6. DeviceShape' BY <2>1, <2>2, <2>5 DEF DeviceInv, DeviceShape
  <2> QED BY <2>5, <2>6 DEF DeviceInv
<1>3. CASE OnDevice!Add("dv", "pop")
  <2>1. /\ at = "dv" /\ at' = "pop" /\ hand' = NoTask /\ grad' = [grad EXCEPT !["dv"][hand] = @ + 1]
        /\ todo' = todo /\ half' = half /\ ending' = ending
    BY <1>3 DEF OnDevice!Add
  <2>2. hand \in Task /\ hand # NoTask BY <2>1, NoTaskApart DEF DeviceInv, DeviceShape
  <2>3. \A g \in OnDevice!Gradient : ~ (Owes(g))' BY <2>1 DEF Owes
  <2>4. \A g \in OnDevice!Gradient : Owes(g) <=> g = "dv"
    BY <2>1, <2>2 DEF Owes, OnDevice!Gradient
  <2>5. EachPairOnce' /\ grad' \in [OnDevice!Gradient -> [Task -> Nat]]
    BY <1>0, <2>1, <2>3, <2>4, DeviceAdds
  <2>6. DeviceShape' BY <2>1, <2>2, <2>5 DEF DeviceInv, DeviceShape
  <2> QED BY <2>5, <2>6 DEF DeviceInv
<1> QED BY <1>1, <1>2, <1>3 DEF OnDevice!Commit

\* The subproblem in hand is replaced by its children, which share its pairs.
LEMMA DeviceSplit == DeviceInv /\ OnDevice!Split => DeviceInv'
<1> SUFFICES ASSUME DeviceInv, OnDevice!Split PROVE DeviceInv' OBVIOUS
<1>1. /\ todo' = ChildrenOf[hand] \o todo /\ hand' = NoTask /\ at = "oom" /\ at' = "pop"
      /\ grad' = grad /\ half' = half /\ ending' = ending /\ ~ half /\ Depth[hand] < DepthCap
  BY DEF OnDevice!Split, OnDevice!Refinable
<1>2. todo \in Seq(Task) /\ hand \in Task /\ hand # NoTask /\ ending = "running"
  BY <1>1, NoTaskApart DEF DeviceInv, DeviceShape
<1>3. PICK kids \in Seq(Task) : kids = ChildrenOf[hand] /\ Shares(kids, Keep[hand])
  BY <1>1, <1>2, BackwardChildren DEF BackwardChildren
<1>4. /\ todo' \in Seq(Task) /\ Len(todo') = Len(kids) + Len(todo)
      /\ Len(kids) \in Nat /\ Len(todo) \in Nat
      /\ DOMAIN kids = 1 .. Len(kids) /\ DOMAIN todo = 1 .. Len(todo)
      /\ DOMAIN todo' = 1 .. Len(kids) + Len(todo)
      /\ \A i \in 1 .. Len(kids) + Len(todo) :
           todo'[i] = IF i <= Len(kids) THEN kids[i] ELSE todo[i - Len(kids)]
  BY <1>1, <1>2, <1>3, ConcatProperties, LenProperties
<1>5. DeviceShape' BY <1>1, <1>2, <1>4 DEF DeviceInv, DeviceShape
<1>6. EachPairOnce'
  <2> SUFFICES ASSUME NEW g \in OnDevice!Gradient, NEW p \in Pairs
               PROVE  (Waiting(g, p))' \/ (Running(g, p))' \/ (Finishing(g, p))'
    BY DEF EachPairOnce
  <2>1. Waiting(g, p) \/ Running(g, p) \/ Finishing(g, p) BY <1>1, <1>2 DEF DeviceInv, EachPairOnce
  <2>2. (Added(g, p))' = Added(g, p) BY <1>1 DEF Added
  <2>3. InHand(g, p) <=> p \in Keep[hand] BY <1>1, <1>2 DEF InHand, Owes
  <2>4. ~ (InHand(g, p))' BY <1>1 DEF InHand, Owes
  <2>5. \A i \in DOMAIN todo' :
          \/ i \in DOMAIN kids /\ todo'[i] = kids[i]
          \/ i - Len(kids) \in DOMAIN todo /\ todo'[i] = todo[i - Len(kids)]
    BY <1>4
  <2>6. CASE Running(g, p)
    <3>1. p \in Keep[hand] /\ \A j \in DOMAIN todo : p \notin Keep[todo[j]]
      BY <2>3, <2>6 DEF Running, ToRun
    <3>2. PICK k \in DOMAIN kids : p \in Keep[kids[k]] BY <3>1, <1>3 DEF Shares
    <3>3. \A j \in DOMAIN kids : p \in Keep[kids[j]] => j = k BY <3>2, <1>3 DEF Shares
    <3>4. k \in DOMAIN todo' /\ todo'[k] = kids[k] BY <1>4
    <3>5. \A i \in DOMAIN todo' : p \in Keep[todo'[i]] => i = k BY <2>5, <3>1, <3>3
    <3>6. (ToRun(p))' = {k} BY <3>2, <3>4, <3>5 DEF ToRun
    <3> QED BY <3>4, <3>6, <2>2, <2>4, <2>6 DEF Running, Waiting
  <2>7. ASSUME Waiting(g, p) \/ Finishing(g, p)
        PROVE  \A i \in DOMAIN kids : p \notin Keep[kids[i]]
    <3>1. p \notin Keep[hand] BY <2>3, <2>7 DEF Waiting, Finishing
    <3> QED BY <3>1, <1>3 DEF Shares
  <2>8. CASE Waiting(g, p)
    <3>1. PICK i \in DOMAIN todo : ToRun(p) = {i} BY <2>8 DEF Waiting
    <3>2. p \in Keep[todo[i]] /\ \A j \in DOMAIN todo : p \in Keep[todo[j]] => j = i
      BY <3>1 DEF ToRun
    <3>3. PICK k \in DOMAIN todo' : k = i + Len(kids) /\ todo'[k] = todo[i]
      <4>1. i + Len(kids) \in 1 .. Len(kids) + Len(todo) BY <1>4
      <4>2. ~ (i + Len(kids) <= Len(kids)) /\ (i + Len(kids)) - Len(kids) = i BY <1>4
      <4>3. todo'[i + Len(kids)] = todo[i] BY <4>1, <4>2, <1>4
      <4> QED BY <4>1, <4>3, <1>4
    <3>4. \A j \in DOMAIN todo' : p \in Keep[todo'[j]] => j = k
      <4> SUFFICES ASSUME NEW j \in DOMAIN todo', p \in Keep[todo'[j]] PROVE j = k OBVIOUS
      <4>1. j - Len(kids) \in DOMAIN todo /\ todo'[j] = todo[j - Len(kids)] BY <2>5, <2>7, <2>8
      <4>2. j - Len(kids) = i BY <4>1, <3>2
      <4> QED BY <4>2, <3>3, <1>4
    <3>5. (ToRun(p))' = {k} BY <3>2, <3>3, <3>4 DEF ToRun
    <3> QED BY <3>5, <2>2, <2>4, <2>8 DEF Waiting
  <2>9. CASE Finishing(g, p)
    <3>1. \A j \in DOMAIN todo : p \notin Keep[todo[j]] BY <2>9 DEF Finishing, ToRun
    <3>2. \A i \in DOMAIN todo' : p \notin Keep[todo'[i]] BY <3>1, <2>5, <2>7, <2>9
    <3>3. (ToRun(p))' = {} BY <3>2 DEF ToRun
    <3> QED BY <3>3, <2>2, <2>4, <2>9, <1>1 DEF Finishing
  <2> QED BY <2>1, <2>6, <2>8, <2>9
<1> QED BY <1>5, <1>6 DEF DeviceInv

\* Every step of the device path.
LEMMA DeviceSteps == DeviceInv /\ OnDevice!Next => DeviceInv'
BY DeviceSetup, DevicePop, DeviceCompute, DeviceCommit, DeviceRunOut, DeviceFails, DeviceSplit,
   DeviceReturn DEF OnDevice!Next

\* Once the call has returned, no pair is to be run or in hand.
LEMMA DeviceReturnsAll == DeviceInv => OnDevice!GradientsExact
<1> SUFFICES ASSUME DeviceInv, ending = "returned", NEW g \in OnDevice!Gradient, NEW p \in Pairs
             PROVE  \E t \in Task :
                      grad[g][t] = 1 /\ {u \in Task : grad[g][u] > 0 /\ p \in Keep[u]} = {t}
  BY DEF OnDevice!GradientsExact
<1>1. ~ half /\ todo = <<>> /\ hand = NoTask BY DEF DeviceInv, DeviceShape
<1>2. ~ Waiting(g, p)
  <2>1. DOMAIN todo = {} BY <1>1
  <2> QED BY <2>1 DEF Waiting
<1>3. ~ Running(g, p) BY <1>1 DEF Running, InHand, Owes
<1>4. Finishing(g, p) BY <1>1, <1>2, <1>3 DEF DeviceInv, EachPairOnce
<1> QED BY <1>4 DEF Finishing, Added

-----------------------------------------------------------------------------
(* The theorems. *)

\* On the host, a gradient that was issued is added or owed by one slot, whose
\* buffers nobody else fills; on the device, a pair is to be run, in hand or in
\* the accumulator, for each accumulator alike.
THEOREM Invariant == CallSpec => []IInv
<1>1. CallInit => IInv BY HostStarts, DeviceStarts DEF IInv
<1>2. IInv /\ [HostStep \/ DeviceStep \/ DeviceEnded]_allVars => IInv'
  <2> SUFFICES ASSUME IInv, [HostStep \/ DeviceStep \/ DeviceEnded]_allVars PROVE IInv' OBVIOUS
  <2>1. CASE HostStep
    BY <2>1, HostSteps, DeviceRests DEF IInv, HostStep
  <2>2. CASE DeviceStep
    BY <2>2, DeviceSteps, HostRests DEF IInv, DeviceStep
  <2>3. CASE DeviceEnded
    BY <2>3, HostRests, DeviceRests DEF IInv, DeviceEnded, allVars
  <2>4. CASE UNCHANGED allVars
    BY <2>4, HostRests, DeviceRests DEF IInv, allVars
  <2> QED BY <2>1, <2>2, <2>3, <2>4
<1> QED BY <1>1, <1>2, PTL DEF CallSpec

\* stream_cqsa_backward on either path: gradients that are returned hold every
\* pair exactly once, whatever depth the call started at, however often it was
\* repeated one level deeper or a subproblem refined, and wherever an addition
\* failed.
THEOREM EachGradientOnce == CallSpec => []GradientsOnce
<1>1. IInv => GradientsOnce BY HostReturnsAll, DeviceReturnsAll DEF IInv, GradientsOnce
<1> QED BY <1>1, Invariant, PTL

\* "A slot is not refilled until its own scatter has consumed the staging
\* buffer": the one worker never adds the gradients of another subproblem than
\* the one that was handed over, in whatever order the streams run.
THEOREM NothingForeign == CallSpec => []OwnGradients
<1>1. IInv => OwnGradients BY DEF IInv, HostInv
<1> QED BY <1>1, Invariant, PTL

=============================================================================
