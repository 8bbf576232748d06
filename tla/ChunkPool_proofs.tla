-------------------------- MODULE ChunkPool_proofs --------------------------
(* That the chunk pool's books balance, and that a kernel finds the rows of *)
(* its own tokens but for the two exceptions ServedOwnRows names, for every *)
(* length, perfect difference set, number of streams and number of slots.   *)
EXTENDS ChunkPoolInv, QuorumDecomposition_proofs

-----------------------------------------------------------------------------
(* The constants, and the chunks a subproblem is served from. *)

\* The pool has a number of slots, by default at least none; None is no slot, no
\* chunk and no subproblem.
LEMMA Numbers ==
  /\ PoolSize \in Nat /\ PoolSlot = 0 .. PoolSize - 1
  /\ NPar \in Nat /\ NPar > 0 /\ Worker = 0 .. NPar - 1 /\ N \in Nat
  /\ None \notin PoolSlot /\ None \notin Chunk /\ None \notin Path
<1>1. Len(interest_set) \in Nat /\ c \in Nat BY PerfectDifferenceSet DEF PerfectDifferenceSet
<1>2. NPar \in Nat /\ NPar > 0 /\ N \in Nat /\ ChunkPoolSlots \in Nat
  BY PoolParameters DEF PoolParameters
<1>3. NPar * Len(interest_set) \in Nat BY <1>1, <1>2
<1>4. \A a, b \in Nat : Min({a, b}) \in Nat
  <2> SUFFICES ASSUME NEW a \in Nat, NEW b \in Nat PROVE Min({a, b}) \in Nat OBVIOUS
  <2>1. \E x \in {a, b} : \A y \in {a, b} : x <= y
    <3>1. CASE a <= b BY <3>1
    <3>2. CASE b <= a BY <3>2
    <3> QED BY <3>1, <3>2
  <2>2. Min({a, b}) \in {a, b} BY <2>1 DEF Min
  <2> QED BY <2>2
<1>5. PoolSize \in Nat BY <1>1, <1>2, <1>3, <1>4 DEF PoolSize
<1>6. None \notin Nat /\ None \notin Seq(Chunk) BY PoolParameters DEF PoolParameters
<1> QED BY <1>1, <1>2, <1>5, <1>6 DEF PoolSlot, Worker, Chunk, Path

\* The chunks of a subproblem are a sequence without repetition (GatherOrder).
LEMMA ChunksOfIs ==
  ASSUME NEW p \in Path
  PROVE  /\ p[1] \in Chunk
         /\ ChunksOf(p) \in Seq(Chunk)
         /\ \A i, j \in DOMAIN ChunksOf(p) : ChunksOf(p)[i] = ChunksOf(p)[j] => i = j
<1>1. p[1] \in Chunk BY DEF Path
<1>2. PICK m \in Nat \ {0} :
        /\ GatherOrder(p[1], TRUE) \in [1 .. m -> Chunk]
        /\ \A i, j \in 1 .. m : GatherOrder(p[1], TRUE)[i] = GatherOrder(p[1], TRUE)[j] => i = j
  BY <1>1, GatherOrderIs
<1>3. PICK f : f = GatherOrder(p[1], TRUE) OBVIOUS
<1>4. f \in [1 .. m -> Chunk] BY <1>2, <1>3
<1>5. f \in Seq(Chunk) /\ DOMAIN f = 1 .. m BY <1>4
<1> QED BY <1>1, <1>2, <1>3, <1>5 DEF ChunksOf

\* The stream a turn falls on is one of the workers.
LEMMA TurnIsWorker ==
  ASSUME NEW t \in Nat, NEW n \in 1 .. NPar
  PROVE  t % n \in Worker
<1>1. t % n \in 0 .. n - 1 BY Numbers, Division
<1> QED BY <1>1, Numbers

\* Range, by places.
LEMMA InRange ==
  ASSUME NEW S, NEW s \in Seq(S), NEW v
  PROVE  v \in Range(s) <=> \E i \in 1 .. Len(s) : s[i] = v
BY DEF Range

\* The places of a sequence with one more element.
LEMMA Appended ==
  ASSUME NEW S, NEW s \in Seq(S), NEW v \in S
  PROVE  /\ Append(s, v) \in Seq(S)
         /\ Len(Append(s, v)) = Len(s) + 1
         /\ DOMAIN Append(s, v) = 1 .. Len(s) + 1
         /\ \A i \in 1 .. Len(s) : Append(s, v)[i] = s[i]
         /\ Append(s, v)[Len(s) + 1] = v
         /\ \A u : u \in Range(Append(s, v)) <=> u \in Range(s) \/ u = v
<1>1. /\ Append(s, v) \in Seq(S)
      /\ Len(Append(s, v)) = Len(s) + 1
      /\ DOMAIN Append(s, v) = 1 .. Len(s) + 1
      /\ \A i \in 1 .. Len(s) : Append(s, v)[i] = s[i]
      /\ Append(s, v)[Len(s) + 1] = v
  OBVIOUS
<1>2. ASSUME NEW u PROVE u \in Range(Append(s, v)) <=> u \in Range(s) \/ u = v
  <2>1. u \in Range(Append(s, v)) <=> \E i \in 1 .. Len(s) + 1 : Append(s, v)[i] = u
    BY <1>1 DEF Range
  <2>2. u \in Range(s) <=> \E i \in 1 .. Len(s) : s[i] = u BY InRange
  <2> QED BY <1>1, <2>1, <2>2
<1> QED BY <1>1, <1>2

\* The places of a sequence without its first element.
LEMMA Dropped ==
  ASSUME NEW S, NEW s \in Seq(S), s # <<>>
  PROVE  /\ Tail(s) \in Seq(S) /\ Head(s) \in S /\ Head(s) = s[1]
         /\ Len(s) \in Nat /\ Len(s) > 0
         /\ Len(Tail(s)) = Len(s) - 1
         /\ DOMAIN Tail(s) = 1 .. Len(s) - 1
         /\ \A i \in 1 .. Len(s) - 1 : Tail(s)[i] = s[i + 1]
OBVIOUS

-----------------------------------------------------------------------------
(* The start. *)

\* A new pool: every slot is free, nothing is loaded.
LEMMA InitInv == Init => IInv
<1> SUFFICES ASSUME Init PROVE IInv OBVIOUS
<1>1. HostTypeOK
  <2>1. \A i \in 1 .. c : <<i - 1>> \in Path BY ChunksAre DEF Path
  <2>2. pending \in Seq(Path)
    <3>1. pending = [i \in 1 .. c |-> <<i - 1>>] BY DEF Init
    <3>2. pending \in [1 .. c -> Path] BY <2>1, <3>1
    <3> QED BY <3>2, ChunksAre
  <2> QED BY <2>2, Numbers DEF Init, HostTypeOK
<1>2. /\ free = [i \in 1 .. PoolSize |-> i - 1] /\ free \in Seq(PoolSlot)
      /\ DOMAIN free = 1 .. PoolSize
  <2>1. free = [i \in 1 .. PoolSize |-> i - 1] BY DEF Init
  <2>2. free \in [1 .. PoolSize -> PoolSlot] BY <2>1, Numbers
  <2> QED BY <2>1, <2>2, Numbers
<1>3. PoolTypeOK
  <2>1. todo = <<>> /\ assigned = <<>> /\ resident = <<>> BY DEF Init
  <2>2. slotOf \in [Chunk -> {None} \cup PoolSlot] /\ refs \in [Chunk -> Nat] /\ DOMAIN lastUse = Chunk
    BY DEF Init
  <2> QED BY <1>2, <2>1, <2>2 DEF PoolTypeOK
<1>4. (\A s \in Worker : work[s] = <<>>) /\ DeviceTypeOK
  <2>1. work = [s \in Worker |-> <<>>] /\ merges = <<>> /\ content = [p \in PoolSlot |-> None]
    BY DEF Init
  <2> QED BY <2>1 DEF DeviceTypeOK
<1>5. PoolOK
  <2>1. resident = <<>> /\ Range(resident) = {} BY DEF Init, Range
  <2>2. IsInjective(resident) BY <2>1 DEF IsInjective
  <2>3. IsInjective(free) BY <1>2, Numbers DEF IsInjective
  <2>4. Range(free) \subseteq PoolSlot
    <3> SUFFICES ASSUME NEW q \in Range(free) PROVE q \in PoolSlot OBVIOUS
    <3>1. PICK x \in DOMAIN free : free[x] = q BY DEF Range
    <3>2. x \in 1 .. PoolSize /\ q = x - 1 BY <1>2, <3>1
    <3> QED BY <3>2, Numbers
  <2>5. \A k \in Chunk : slotOf[k] = None BY DEF Init
  <2> QED BY <2>1, <2>2, <2>3, <2>4, <2>5 DEF PoolOK
<1>6. Acquiring /\ Served /\ Loaded /\ Guarded /\ Filled
  <2>1. pc = "pop" /\ Range(resident) = {} BY DEF Init, Range
  <2> QED BY <1>4, <2>1 DEF Acquiring, Served, Loaded, Guarded, Filled
<1> QED BY <1>1, <1>3, <1>4, <1>5, <1>6 DEF IInv

-----------------------------------------------------------------------------
(* The steps of the host that leave the pool and the device alone. *)

\* The books and what the device will do depend on the pool and the device only.
LEMMA DeviceAlone ==
  ASSUME IInv, UNCHANGED <<resident, slotOf, free>>, UNCHANGED device
  PROVE  DeviceTypeOK' /\ PoolOK' /\ Served' /\ Loaded' /\ Filled'
<1> USE DEF device
<1>1. DeviceTypeOK' BY DEF IInv, DeviceTypeOK
<1>2. PoolOK' BY DEF IInv, PoolOK
<1>3. Served' BY DEF IInv, Served, KernelServed, HasAssigned
<1>4. Loaded' BY DEF IInv, Loaded, LoadOK
<1>5. Filled' BY DEF IInv, Filled, OnItsWayTo
<1> QED BY <1>1, <1>2, <1>3, <1>4, <1>5

\* While no kernel was enqueued for what is in hand, the guards of the device's work
\* do not depend on the host.
LEMMA HostMoves ==
  ASSUME IInv, UNCHANGED <<lastUse, device>>, pc' \notin {"oom", "end", "merge"},
         pc \notin {"oom", "end", "merge"},
         \/ pc \notin {"acquire", "kernel"}
         \/ UNCHANGED <<cur, turn, streams, assigned>> /\ pc' \in {"acquire", "kernel"}
  PROVE  Guarded'
<1> USE DEF device
<1> SUFFICES ASSUME NEW s \in Worker, NEW i \in DOMAIN work[s]
             PROVE  /\ KernelGuarded(work[s][i])'
                    /\ work[s][i].op = "load" => LoadWanted(s, i)'
  BY DEF Guarded
<1>1. KernelGuarded(work[s][i]) /\ (work[s][i].op = "load" => LoadWanted(s, i))
  BY DEF IInv, Guarded
<1>2. KernelGuarded(work[s][i])' BY <1>1 DEF KernelGuarded, UsedAfter
<1>3. ASSUME work[s][i].op = "load" PROVE LoadWanted(s, i)'
  BY <1>1, <1>3 DEF LoadWanted, TheWorker
<1> QED BY <1>2, <1>3

\* pending.pop, and what the steps below keep when the pool is not touched at all.
LEMMA PopTaskInv == ASSUME IInv, PopTask PROVE IInv'
<1> USE DEF PopTask, pool
<1>1. DeviceTypeOK' /\ PoolOK' /\ Served' /\ Loaded' /\ Filled' BY DeviceAlone
<1>2. HostTypeOK'
  <2>1. pending \in Seq(Path) /\ pending # <<>> BY DEF IInv, HostTypeOK
  <2>2. Head(pending) \in Path /\ Tail(pending) \in Seq(Path) BY <2>1
  <2> QED BY <2>2 DEF IInv, HostTypeOK
<1>3. PoolTypeOK' BY DEF IInv, PoolTypeOK
<1>4. Acquiring' BY DEF Acquiring
<1>5. Guarded' BY HostMoves
<1> QED BY <1>1, <1>2, <1>3, <1>4, <1>5 DEF IInv

\* The wait for the slot, and the list of chunks to acquire.
LEMMA UploadInv == ASSUME IInv, Upload PROVE IInv'
<1> USE DEF Upload
<1>1. DeviceTypeOK' /\ PoolOK' /\ Served' /\ Loaded' /\ Filled' BY DeviceAlone
<1>2. HostTypeOK' BY DEF IInv, HostTypeOK
<1>3. cur \in Path BY DEF IInv, HostTypeOK
<1>4. ChunksOf(cur) \in Seq(Chunk) BY <1>3, ChunksOfIs
<1>5. PoolTypeOK' BY <1>4 DEF IInv, PoolTypeOK
<1>6. Acquiring'
  <2>1. HasAssigned(cur, assigned)' BY DEF HasAssigned
  <2>2. pc' = "acquire" /\ todo' = ChunksOf(cur) /\ assigned' = <<>> /\ cur' = cur OBVIOUS
  <2>3. ChunksOf(cur)' = ChunksOf(cur) BY <2>2
  <2>4. Len(assigned') = 0 /\ DOMAIN assigned' = {} BY <2>2
  <2>5. Len(assigned') + Len(todo') = Len(ChunksOf(cur')) BY <1>4, <2>2, <2>4
  <2>6. \A i \in DOMAIN todo' : todo'[i] = ChunksOf(cur')[Len(assigned') + i] BY <1>4, <2>2, <2>4
  <2> QED BY <2>1, <2>2, <2>4, <2>5, <2>6 DEF Acquiring
<1>7. Guarded' BY HostMoves
<1> QED BY <1>1, <1>2, <1>5, <1>6, <1>7 DEF IInv

\* Every chunk of the subproblem is resident and held.
LEMMA AcquiredInv == ASSUME IInv, Acquired PROVE IInv'
<1> USE DEF Acquired, pool
<1>1. DeviceTypeOK' /\ PoolOK' /\ Served' /\ Loaded' /\ Filled' BY DeviceAlone
<1>2. HostTypeOK' BY DEF IInv, HostTypeOK
<1>3. PoolTypeOK' BY DEF IInv, PoolTypeOK
<1>4. Acquiring'
  <2>1. assigned \in Seq(PoolSlot) /\ ChunksOf(cur) \in Seq(Chunk)
    BY ChunksOfIs DEF IInv, HostTypeOK, PoolTypeOK
  <2>2. Len(assigned) + 0 = Len(ChunksOf(cur)) BY <2>1 DEF IInv, Acquiring
  <2>3. Len(assigned) = Len(ChunksOf(cur)) BY <2>1, <2>2
  <2> QED BY <2>3 DEF IInv, Acquiring, HasAssigned
<1>5. Guarded' BY HostMoves
<1> QED BY <1>1, <1>2, <1>3, <1>4, <1>5 DEF IInv

-----------------------------------------------------------------------------
(* Failures of memory and the end of a call. *)

\* What is in the pool stays there when an attempt fails or the call ends; from then
\* on nothing is acquired before the streams are empty.
LEMMA Stops ==
  ASSUME IInv, UNCHANGED <<pending, cur, turn, streams, pool, device>>, pc' \in {"oom", "end"},
         pc' = "oom" => pc \notin {"pop", "end"}
  PROVE  IInv'
<1> USE DEF pool
<1>1. DeviceTypeOK' /\ PoolOK' /\ Served' /\ Loaded' /\ Filled' BY DeviceAlone
<1>2. HostTypeOK' BY DEF IInv, HostTypeOK
<1>3. PoolTypeOK' BY DEF IInv, PoolTypeOK
<1>4. Acquiring' BY DEF Acquiring
<1>5. Guarded' BY DEF Guarded
<1> QED BY <1>1, <1>2, <1>3, <1>4, <1>5 DEF IInv

\* Exhausted, RunOut, GiveUp and Return.
LEMMA StopInv == ASSUME IInv, Exhausted \/ RunOut \/ GiveUp \/ Return PROVE IInv'
<1>1. CASE Exhausted BY <1>1, Stops DEF Exhausted
<1>2. CASE RunOut BY <1>2, Stops DEF RunOut
<1>3. CASE GiveUp BY <1>3, Stops DEF GiveUp
<1>4. CASE Return BY <1>4, Stops DEF Return
<1> QED BY <1>1, <1>2, <1>3, <1>4

\* Recovery starts again with empty streams; the references an attempt took are lost.
LEMMA Requeued ==
  ASSUME IInv, Synchronized, NEW tasks \in Seq(Path), Requeue(tasks),
         turn' = turn, streams' \in 1 .. NPar, UNCHANGED <<pool, device>>
  PROVE  IInv'
<1> USE DEF pool, Requeue
<1>1. DeviceTypeOK' /\ PoolOK' /\ Served' /\ Loaded' /\ Filled' BY DeviceAlone
<1>2. HostTypeOK'
  <2>1. pending \in Seq(Path) BY DEF IInv, HostTypeOK
  <2>2. tasks \o pending \in Seq(Path) BY <2>1
  <2> QED BY <2>2 DEF IInv, HostTypeOK
<1>3. PoolTypeOK' BY DEF IInv, PoolTypeOK
<1>4. Acquiring' BY DEF Acquiring
<1>5. Guarded' BY DEF Guarded, Synchronized, device
<1> QED BY <1>1, <1>2, <1>3, <1>4, <1>5 DEF IInv

\* Fewer streams: half of at least two is at least one.
LEMMA HalveInv == ASSUME IInv, Halve PROVE IInv'
<1>1. cur \in Path /\ streams \in 1 .. NPar /\ streams > 1 BY DEF IInv, HostTypeOK, Halve
<1>2. streams \div 2 \in 1 .. NPar
  <2>1. streams \div 2 \in Nat /\ streams % 2 \in 0 .. 1 /\ streams = 2 * (streams \div 2) + (streams % 2)
    BY <1>1, Division
  <2> QED BY <1>1, <2>1, Numbers
<1>3. <<cur>> \in Seq(Path) BY <1>1
<1> QED BY <1>2, <1>3, Requeued DEF Halve

\* The children of a subproblem are subproblems (refine_task).
LEMMA SplitInv == ASSUME IInv, Split PROVE IInv'
<1>1. cur \in Path /\ streams = 1 /\ Synchronized BY DEF IInv, HostTypeOK, Split
<1>2. PICK n \in Nat : cur \in [1 .. n -> Chunk]
  <2>1. cur \in Seq(Chunk) BY <1>1 DEF Path
  <2> QED BY <2>1
<1>3. Task(cur).path \in Seq(Chunk)
  <2>1. WellFormed(AtPath(N, cur, TRUE, 1), N, TRUE)
    <3>1. TRUE \in BOOLEAN /\ 1 \in Nat \ {0} /\ N \in Nat BY Numbers
    <3>2. \A path \in [1 .. n -> Chunk] : WellFormed(AtPath(N, path, TRUE, 1), N, TRUE)
      BY <3>1, AtPathWellFormed
    <3> QED BY <1>2, <3>2
  <2> QED BY <2>1, WellFormedIs, Numbers DEF Task
<1>4. PICK m \in Nat : \E own \in [1 .. m -> Chunk] : OwnedBy(Task(cur), TRUE, 1, m, own)
  <2>1. TRUE \in BOOLEAN /\ 1 \in Nat \ {0} OBVIOUS
  <2>2. PICK t : t = Task(cur) OBVIOUS
  <2>3. \E m \in Nat : \E own \in [1 .. m -> Chunk] : OwnedBy(t, TRUE, 1, m, own)
    BY <2>1, ChildrenAre
  <2> QED BY <2>2, <2>3
<1>5. PICK own \in [1 .. m -> Chunk] : OwnedBy(Task(cur), TRUE, 1, m, own) BY <1>4
<1> DEFINE kids == Children(Task(cur), TRUE, 1)
<1>6. kids = [i \in 1 .. m |-> Child(Task(cur), own[i], TRUE, 1)] BY <1>5 DEF OwnedBy
<1> HIDE DEF kids
<1>7. \A i \in 1 .. m : kids[i].path \in Path
  <2> SUFFICES ASSUME NEW i \in 1 .. m PROVE kids[i].path \in Path OBVIOUS
  <2>1. kids[i].path = Append(Task(cur).path, own[i]) BY <1>6 DEF Child
  <2>2. own[i] \in Chunk BY <1>5
  <2>3. Append(Task(cur).path, own[i]) \in Seq(Chunk) BY <1>3, <2>2
  <2>4. Append(Task(cur).path, own[i]) # <<>> BY <1>3
  <2> QED BY <2>1, <2>3, <2>4 DEF Path
<1>8. [i \in DOMAIN kids |-> kids[i].path] \in Seq(Path)
  <2>1. DOMAIN kids = 1 .. m BY <1>6
  <2>2. [i \in 1 .. m |-> kids[i].path] \in [1 .. m -> Path] BY <1>7
  <2> QED BY <2>1, <2>2
<1>9. /\ Requeue([i \in DOMAIN kids |-> kids[i].path])
      /\ turn' = turn /\ streams' = streams /\ UNCHANGED <<pool, device>>
  BY DEF Split, kids
<1>10. streams' \in 1 .. NPar BY <1>9 DEF IInv, HostTypeOK
<1> QED BY <1>1, <1>8, <1>9, <1>10, Requeued

-----------------------------------------------------------------------------
(* acquire. *)

\* One more operation at the end of a worker stream, everything before it in place.
LEMMA Enqueued ==
  ASSUME DeviceTypeOK, NEW t \in Worker, NEW op \in LoadOf \cup KernelOf,
         work' = [work EXCEPT ![t] = Append(@, op)]
  PROVE  /\ work' \in [Worker -> Seq(LoadOf \cup KernelOf)]
         /\ \A s \in Worker : \A i \in DOMAIN work[s] :
              i \in DOMAIN work'[s] /\ work'[s][i] = work[s][i]
         /\ \A s \in Worker : \A i \in DOMAIN work'[s] :
              \/ i \in DOMAIN work[s]
              \/ s = t /\ i = Len(work[t]) + 1 /\ work'[s][i] = op
         /\ Len(work[t]) \in Nat /\ DOMAIN work[t] = 1 .. Len(work[t])
         /\ Len(work[t]) + 1 \in DOMAIN work'[t] /\ work'[t][Len(work[t]) + 1] = op
<1> DEFINE Q == LoadOf \cup KernelOf
<1>1. work \in [Worker -> Seq(Q)] BY DEF DeviceTypeOK
<1>2. work[t] \in Seq(Q) BY <1>1
<1>3. work'[t] = Append(work[t], op) /\ \A s \in Worker \ {t} : work'[s] = work[s] BY <1>1
<1>4. /\ Append(work[t], op) \in Seq(Q)
      /\ DOMAIN Append(work[t], op) = 1 .. Len(work[t]) + 1
      /\ \A i \in 1 .. Len(work[t]) : Append(work[t], op)[i] = work[t][i]
      /\ Append(work[t], op)[Len(work[t]) + 1] = op
  BY <1>2, Appended
<1>5. Len(work[t]) \in Nat /\ DOMAIN work[t] = 1 .. Len(work[t]) BY <1>2
<1>6. work' \in [Worker -> Seq(Q)]
  <2>1. DOMAIN work' = Worker BY <1>1
  <2>2. \A s \in Worker : work'[s] \in Seq(Q) BY <1>1, <1>3, <1>4
  <2>3. work' = [s \in Worker |-> work'[s]] BY <1>1
  <2> QED BY <2>2, <2>3
<1>7. \A s \in Worker : \A i \in DOMAIN work[s] : i \in DOMAIN work'[s] /\ work'[s][i] = work[s][i]
  BY <1>3, <1>4, <1>5
<1>8. \A s \in Worker : \A i \in DOMAIN work'[s] :
        \/ i \in DOMAIN work[s]
        \/ s = t /\ i = Len(work[t]) + 1 /\ work'[s][i] = op
  <2> SUFFICES ASSUME NEW s \in Worker, NEW i \in DOMAIN work'[s], i \notin DOMAIN work[s]
               PROVE  s = t /\ i = Len(work[t]) + 1 /\ work'[s][i] = op
    OBVIOUS
  <2>1. s = t BY <1>3
  <2>2. i \in 1 .. Len(work[t]) + 1 /\ i \notin 1 .. Len(work[t]) BY <1>3, <1>4, <1>5, <2>1
  <2>3. i = Len(work[t]) + 1 BY <1>5, <2>2
  <2> QED BY <1>3, <1>4, <2>1, <2>3
<1>9. Len(work[t]) + 1 \in DOMAIN work'[t] /\ work'[t][Len(work[t]) + 1] = op
  BY <1>3, <1>4, <1>5
<1> QED BY <1>5, <1>6, <1>7, <1>8, <1>9

\* What acquire does with the next chunk is the next of what it has assigned.
LEMMA Pinned ==
  ASSUME IInv, pc = "acquire", todo # <<>>, NEW p \in PoolSlot, Pin(Head(todo), p), UNCHANGED host,
         slotOf'[Head(todo)] = p,
         \A x \in DOMAIN assigned : slotOf'[ChunksOf(cur)[x]] = slotOf[ChunksOf(cur)[x]]
  PROVE  /\ Acquiring'
         /\ todo' \in Seq(Chunk) /\ assigned' \in Seq(PoolSlot) /\ refs' \in [Chunk -> Nat]
         /\ \A x \in DOMAIN assigned : x \in DOMAIN assigned'
         /\ \E x \in DOMAIN assigned' : Head(todo) = ChunksOf(cur)[x]
<1> DEFINE order == ChunksOf(cur)
           k == Head(todo)
           n == Len(assigned)
<1>1. todo \in Seq(Chunk) /\ assigned \in Seq(PoolSlot) /\ refs \in [Chunk -> Nat]
  BY DEF IInv, PoolTypeOK
<1>2. order \in Seq(Chunk) BY ChunksOfIs DEF IInv, HostTypeOK
<1>3. /\ k \in Chunk /\ k = todo[1] /\ Tail(todo) \in Seq(Chunk)
      /\ Len(todo) \in Nat /\ Len(todo) > 0 /\ Len(Tail(todo)) = Len(todo) - 1
      /\ DOMAIN Tail(todo) = 1 .. Len(todo) - 1
      /\ \A i \in 1 .. Len(todo) - 1 : Tail(todo)[i] = todo[i + 1]
  BY <1>1, Dropped
<1>4. /\ n + Len(todo) = Len(order)
      /\ \A i \in DOMAIN todo : todo[i] = order[n + i]
      /\ \A x \in DOMAIN assigned :
           x \in DOMAIN order /\ slotOf[order[x]] = assigned[x] /\ refs[order[x]] > 0
  BY DEF IInv, Acquiring, HasAssigned
<1>5. n \in Nat /\ DOMAIN assigned = 1 .. n /\ DOMAIN order = 1 .. Len(order) /\ Len(order) \in Nat
      /\ DOMAIN todo = 1 .. Len(todo)
  BY <1>1, <1>2
<1>6. k = order[n + 1] /\ n + 1 \in DOMAIN order BY <1>3, <1>4, <1>5
<1>7. /\ assigned' = Append(assigned, p) /\ todo' = Tail(todo)
      /\ refs' = [refs EXCEPT ![k] = @ + 1] /\ pc' = "acquire" /\ cur' = cur
  BY DEF Pin, host
<1>8. /\ assigned' \in Seq(PoolSlot) /\ Len(assigned') = n + 1 /\ DOMAIN assigned' = 1 .. n + 1
      /\ \A x \in 1 .. n : assigned'[x] = assigned[x]
      /\ assigned'[n + 1] = p
  BY <1>1, <1>7, Appended
<1>9. /\ refs' \in [Chunk -> Nat] /\ refs'[k] > 0
      /\ \A j \in Chunk : refs[j] > 0 => refs'[j] > 0
  <2>1. refs'[k] = refs[k] + 1 /\ refs[k] \in Nat BY <1>1, <1>3, <1>7
  <2>2. \A j \in Chunk : j # k => refs'[j] = refs[j] BY <1>1, <1>7
  <2>3. refs' \in [Chunk -> Nat] BY <1>1, <1>3, <1>7, <2>1
  <2> QED BY <2>1, <2>2, <2>3
<1> HIDE DEF order, k, n
<1>10. ASSUME NEW x \in DOMAIN assigned'
       PROVE  x \in DOMAIN order /\ slotOf'[order[x]] = assigned'[x] /\ refs'[order[x]] > 0
  <2>1. CASE x = n + 1 BY <1>6, <1>8, <1>9, <2>1 DEF k
  <2>2. CASE x # n + 1
    <3>1. x \in 1 .. n BY <1>5, <1>8, <2>2
    <3>2. x \in DOMAIN order /\ slotOf[order[x]] = assigned[x] /\ refs[order[x]] > 0
      BY <1>4, <1>5, <3>1
    <3>3. order[x] \in Chunk BY <1>2, <3>2
    <3>4. slotOf'[order[x]] = slotOf[order[x]] BY <1>5, <3>1 DEF order
    <3> QED BY <1>8, <1>9, <3>1, <3>2, <3>3, <3>4
  <2> QED BY <2>1, <2>2
<1>11. Len(assigned') + Len(todo') = Len(order) BY <1>3, <1>4, <1>5, <1>7, <1>8 DEF n
<1>12. ASSUME NEW i \in DOMAIN todo' PROVE todo'[i] = order[Len(assigned') + i]
  <2>1. i \in 1 .. Len(todo) - 1 BY <1>3, <1>7
  <2>2. i + 1 \in DOMAIN todo BY <1>3, <1>5, <2>1
  <2>3. todo'[i] = todo[i + 1] /\ todo[i + 1] = order[n + (i + 1)] BY <1>3, <1>4, <1>7, <2>1, <2>2
  <2>4. n + (i + 1) = Len(assigned') + i BY <1>5, <1>8, <2>1
  <2> QED BY <2>3, <2>4
<1>13. ChunksOf(cur') = order BY <1>7 DEF order
<1>14. Acquiring'
  <2>1. HasAssigned(cur, assigned)' BY <1>10, <1>13 DEF HasAssigned
  <2>2. \A x \in DOMAIN assigned' : refs'[ChunksOf(cur')[x]] > 0 BY <1>10, <1>13
  <2> QED BY <1>7, <1>11, <1>12, <1>13, <2>1, <2>2 DEF Acquiring
<1> QED BY <1>3, <1>5, <1>6, <1>7, <1>8, <1>9, <1>14 DEF order, k

\* A chunk that is resident is only counted.
LEMMA HitInv == ASSUME IInv, Hit PROVE IInv'
<1> USE DEF Hit
<1>1. DeviceTypeOK' /\ PoolOK' /\ Served' /\ Loaded' /\ Filled' BY DeviceAlone
<1>2. HostTypeOK' BY DEF IInv, HostTypeOK, host
<1> DEFINE k == Head(todo)
<1>3. k \in Range(resident) OBVIOUS
<1>4. slotOf[k] \in PoolSlot BY <1>3 DEF IInv, PoolOK
<1>5. /\ Acquiring'
      /\ todo' \in Seq(Chunk) /\ assigned' \in Seq(PoolSlot) /\ refs' \in [Chunk -> Nat]
      /\ \A x \in DOMAIN assigned : x \in DOMAIN assigned'
  BY <1>4, Pinned
<1>6. PoolTypeOK' BY <1>5 DEF IInv, PoolTypeOK
<1>7. Guarded'
  <2> USE DEF host, device
  <2> SUFFICES ASSUME NEW s \in Worker, NEW i \in DOMAIN work[s]
               PROVE  /\ KernelGuarded(work[s][i])'
                      /\ work[s][i].op = "load" => LoadWanted(s, i)'
    BY DEF Guarded
  <2>1. KernelGuarded(work[s][i]) /\ (work[s][i].op = "load" => LoadWanted(s, i))
    BY DEF IInv, Guarded
  <2>2. KernelGuarded(work[s][i])' BY <2>1 DEF KernelGuarded, UsedAfter
  <2>3. LoadWanted(s, i) => LoadWanted(s, i)' BY <1>5 DEF LoadWanted, TheWorker
  <2> QED BY <2>1, <2>2, <2>3
<1> QED BY <1>1, <1>2, <1>5, <1>6, <1>7 DEF IInv

\* What the device still has to do with a chunk: it is read, loaded or held.
InUse(k) ==
  \/ \E s \in Worker : \E i \in DOMAIN work[s] :
       \/ work[s][i].op = "kernel" /\ k \in Range(ChunksOf(work[s][i].path))
       \/ work[s][i].op = "load" /\ work[s][i].chunk = k
  \/ \E x \in DOMAIN assigned : ChunksOf(cur)[x] = k

\* What the step that loads the next chunk does not disturb: the chunks that stay
\* keep their slots and their events, and everything in use stays.
Stays(stay, k, p) ==
  /\ stay \subseteq Range(resident)
  /\ \A j \in Chunk : InUse(j) => j \in stay
  /\ Range(resident') = stay \cup {k}
  /\ slotOf'[k] = p
  /\ \A j \in stay : slotOf'[j] = slotOf[j] /\ lastUse'[j] = lastUse[j]

\* TakeFree and Evict, given that what they take away is not in use.
LEMMA Fetched ==
  ASSUME IInv, pc = "acquire", todo # <<>>, Head(todo) \notin Range(resident),
         NEW p \in PoolSlot, NEW stay, Stays(stay, Head(todo), p),
         Pin(Head(todo), p), UNCHANGED <<host, merges, content>>,
         work' = [work EXCEPT ![TheWorker] = Append(@, [op |-> "load", chunk |-> Head(todo), at |-> p])]
  PROVE  /\ DeviceTypeOK' /\ Acquiring' /\ Served' /\ Loaded' /\ Guarded' /\ Filled'
         /\ todo' \in Seq(Chunk) /\ assigned' \in Seq(PoolSlot) /\ refs' \in [Chunk -> Nat]
<1> DEFINE k == Head(todo)
           t == TheWorker
           load == [op |-> "load", chunk |-> k, at |-> p]
           new == Len(work[t]) + 1
<1>1. t \in Worker BY TurnIsWorker DEF IInv, HostTypeOK, TheWorker
<1>2. k \in Chunk BY Dropped DEF IInv, PoolTypeOK
<1>3. load \in LoadOf \cup KernelOf /\ load.op = "load" /\ load.chunk = k /\ load.at = p
  BY <1>2 DEF LoadOf
<1>4. DeviceTypeOK BY DEF IInv
<1>5. /\ work' \in [Worker -> Seq(LoadOf \cup KernelOf)]
      /\ \A s \in Worker : \A i \in DOMAIN work[s] :
           i \in DOMAIN work'[s] /\ work'[s][i] = work[s][i]
      /\ \A s \in Worker : \A i \in DOMAIN work'[s] :
           \/ i \in DOMAIN work[s]
           \/ s = t /\ i = new /\ work'[s][i] = load
      /\ Len(work[t]) \in Nat /\ DOMAIN work[t] = 1 .. Len(work[t])
      /\ new \in DOMAIN work'[t] /\ work'[t][new] = load
  BY <1>1, <1>3, <1>4, Enqueued
<1>6. /\ \A j \in stay : slotOf'[j] = slotOf[j] /\ lastUse'[j] = lastUse[j]
      /\ slotOf'[k] = p /\ Range(resident') = stay \cup {k} /\ stay \subseteq Range(resident)
  BY DEF Stays
<1>7. \A x \in DOMAIN assigned : ChunksOf(cur)[x] \in stay
  <2> SUFFICES ASSUME NEW x \in DOMAIN assigned PROVE ChunksOf(cur)[x] \in stay OBVIOUS
  <2>1. cur \in Path BY DEF IInv, HostTypeOK
  <2>2. ChunksOf(cur)[x] \in Chunk BY <2>1, ChunksOfIs DEF IInv, Acquiring, HasAssigned
  <2>3. InUse(ChunksOf(cur)[x]) BY DEF InUse
  <2> QED BY <2>2, <2>3 DEF Stays
<1>8. ASSUME NEW s \in Worker, NEW i \in DOMAIN work[s], work[s][i].op = "kernel"
      PROVE  /\ work[s][i].path \in Path
             /\ \A j \in Range(ChunksOf(work[s][i].path)) : j \in Chunk /\ j \in stay
  <2>1. work[s][i] \in LoadOf \cup KernelOf BY <1>4 DEF DeviceTypeOK
  <2>2. work[s][i].path \in Path BY <1>8, <2>1 DEF LoadOf, KernelOf
  <2>3. ASSUME NEW j \in Range(ChunksOf(work[s][i].path)) PROVE j \in Chunk /\ j \in stay
    <3>1. j \in Chunk BY <2>2, ChunksOfIs, InRange
    <3>2. InUse(j) BY <1>8 DEF InUse
    <3> QED BY <3>1, <3>2 DEF Stays
  <2> QED BY <2>2, <2>3
<1>9. ASSUME NEW s \in Worker, NEW i \in DOMAIN work[s], work[s][i].op = "load"
      PROVE  work[s][i].chunk \in stay
  <2>1. work[s][i] \in LoadOf \cup KernelOf BY <1>4 DEF DeviceTypeOK
  <2>2. work[s][i].chunk \in Chunk BY <1>9, <2>1 DEF LoadOf, KernelOf
  <2>3. InUse(work[s][i].chunk) BY <1>9 DEF InUse
  <2> QED BY <2>2, <2>3 DEF Stays
<1>10. k \notin stay BY <1>6
<1>11. /\ Acquiring'
       /\ todo' \in Seq(Chunk) /\ assigned' \in Seq(PoolSlot) /\ refs' \in [Chunk -> Nat]
       /\ \A x \in DOMAIN assigned : x \in DOMAIN assigned'
       /\ \E x \in DOMAIN assigned' : k = ChunksOf(cur)[x]
  <2>1. slotOf'[Head(todo)] = p BY <1>6
  <2>2. UNCHANGED host OBVIOUS
  <2>3. \A x \in DOMAIN assigned : slotOf'[ChunksOf(cur)[x]] = slotOf[ChunksOf(cur)[x]] BY <1>6, <1>7
  <2> QED BY <2>1, <2>2, <2>3, Pinned
<1>12. pc' = "acquire" /\ cur' = cur /\ turn' = turn /\ streams' = streams /\ TheWorker' = t
  BY DEF host, TheWorker
<1> HIDE DEF k, t, load, new
<1>13. DeviceTypeOK' BY <1>4, <1>5 DEF DeviceTypeOK
<1>14. Served'
  <2> SUFFICES ASSUME NEW s \in Worker, NEW i \in DOMAIN work'[s], work'[s][i].op = "kernel"
               PROVE  KernelServed(work[s][i])'
    BY DEF Served, KernelServed
  <2>1. i \in DOMAIN work[s] /\ work'[s][i] = work[s][i] BY <1>3, <1>5
  <2>2. KernelServed(work[s][i]) BY <2>1 DEF IInv, Served
  <2>3. PICK w : w = work[s][i] OBVIOUS
  <2>4. w.path \in Path /\ \A j \in Range(ChunksOf(w.path)) : j \in stay BY <1>8, <2>1, <2>3
  <2>5. ASSUME NEW x \in DOMAIN w.where
        PROVE  x \in DOMAIN ChunksOf(w.path) /\ slotOf'[ChunksOf(w.path)[x]] = w.where[x]
    <3>1. x \in DOMAIN ChunksOf(w.path) /\ slotOf[ChunksOf(w.path)[x]] = w.where[x]
      BY <2>1, <2>2, <2>3 DEF KernelServed, HasAssigned
    <3>2. ChunksOf(w.path)[x] \in Range(ChunksOf(w.path)) BY <3>1 DEF Range
    <3> QED BY <1>6, <2>4, <3>1, <3>2
  <2>6. Len(w.where) = Len(ChunksOf(w.path)) BY <2>1, <2>2, <2>3 DEF KernelServed
  <2> QED BY <2>1, <2>3, <2>5, <2>6 DEF KernelServed, HasAssigned
<1>15. Loaded'
  <2> SUFFICES ASSUME NEW s \in Worker, NEW i \in DOMAIN work'[s], work'[s][i].op = "load"
               PROVE  /\ slotOf'[work'[s][i].chunk] = work'[s][i].at
                      /\ \A j \in DOMAIN work'[s] :
                           j < i /\ work'[s][j].op = "kernel" =>
                             work'[s][i].chunk \notin Range(ChunksOf(work'[s][j].path))
    BY DEF Loaded, LoadOK
  <2>1. CASE i \in DOMAIN work[s]
    <3>1. work'[s][i] = work[s][i] /\ work[s][i].op = "load" BY <1>5, <2>1
    <3>2. LoadOK(s, i) BY <2>1 DEF IInv, Loaded
    <3>3. slotOf'[work[s][i].chunk] = slotOf[work[s][i].chunk] BY <1>6, <1>9, <2>1, <3>1
    <3>4. ASSUME NEW j \in DOMAIN work'[s], j < i, work'[s][j].op = "kernel"
          PROVE  work[s][i].chunk \notin Range(ChunksOf(work'[s][j].path))
      <4>1. j \in DOMAIN work[s] /\ work'[s][j] = work[s][j] BY <1>3, <1>5, <3>4
      <4> QED BY <3>1, <3>2, <3>4, <4>1 DEF LoadOK
    <3> QED BY <3>1, <3>2, <3>3, <3>4 DEF LoadOK
  <2>2. CASE i \notin DOMAIN work[s]
    <3>1. work'[s][i] = load BY <1>5, <2>2
    <3>2. ASSUME NEW j \in DOMAIN work'[s], j < i, work'[s][j].op = "kernel"
          PROVE  k \notin Range(ChunksOf(work'[s][j].path))
      <4>1. j \in DOMAIN work[s] /\ work'[s][j] = work[s][j] BY <1>3, <1>5, <3>2
      <4> QED BY <1>8, <1>10, <3>2, <4>1
    <3> QED BY <1>3, <1>6, <3>1, <3>2
  <2> QED BY <2>1, <2>2
<1>16. Guarded'
  <2> SUFFICES ASSUME NEW s \in Worker, NEW i \in DOMAIN work'[s]
               PROVE  /\ KernelGuarded(work[s][i])'
                      /\ work'[s][i].op = "load" => LoadWanted(s, i)'
    BY DEF Guarded
  <2>1. KernelGuarded(work[s][i])'
    <3> SUFFICES ASSUME work'[s][i].op = "kernel" PROVE KernelGuarded(work[s][i])'
      BY DEF KernelGuarded
    <3>1. i \in DOMAIN work[s] /\ work'[s][i] = work[s][i] BY <1>3, <1>5
    <3>2. KernelGuarded(work[s][i]) BY <3>1 DEF IInv, Guarded
    <3>3. PICK n \in DOMAIN merges : merges[n] = work[s][i].path /\ UsedAfter(work[s][i].path, n)
      BY <3>1, <3>2 DEF KernelGuarded
    <3>4. \A j \in Range(ChunksOf(work[s][i].path)) : lastUse'[j] = lastUse[j] BY <1>6, <1>8, <3>1
    <3>5. merges' = merges OBVIOUS
    <3>6. UsedAfter(work[s][i].path, n)'
      <4>1. ASSUME NEW j \in Range(ChunksOf(work[s][i].path))
            PROVE  \E x \in n .. Len(merges) : lastUse'[j] = merges[x]
        BY <3>3, <3>4 DEF UsedAfter
      <4> QED BY <4>1, <3>1, <3>5 DEF UsedAfter
    <3> QED BY <3>1, <3>3, <3>5, <3>6 DEF KernelGuarded
  <2>2. ASSUME work'[s][i].op = "load", i \in DOMAIN work[s] PROVE LoadWanted(s, i)'
    <3>1. work'[s][i] = work[s][i] BY <1>5, <2>2
    <3>2. LoadWanted(s, i) BY <2>2, <3>1 DEF IInv, Guarded
    <3>3. CASE \E j \in DOMAIN work[s] :
                 /\ j > i /\ work[s][j].op = "kernel"
                 /\ work[s][i].chunk \in Range(ChunksOf(work[s][j].path))
      BY <1>5, <3>1, <3>3 DEF LoadWanted
    <3>4. CASE s = TheWorker /\ \E x \in DOMAIN assigned : work[s][i].chunk = ChunksOf(cur)[x]
      BY <1>11, <1>12, <3>1, <3>4 DEF LoadWanted, t
    <3> QED BY <3>2, <3>3, <3>4 DEF LoadWanted
  <2>3. ASSUME i \notin DOMAIN work[s] PROVE LoadWanted(s, i)'
    <3>1. s = t /\ work'[s][i] = load BY <1>5, <2>3
    <3>2. work'[s][i].chunk = k BY <1>3, <3>1
    <3> QED BY <1>11, <1>12, <3>1, <3>2 DEF LoadWanted
  <2> QED BY <2>1, <2>2, <2>3
<1>17. Filled'
  <2> SUFFICES ASSUME NEW j \in Range(resident') PROVE content'[slotOf'[j]] = j \/ OnItsWayTo(j)'
    BY DEF Filled
  <2>1. CASE j = k
    <3>1. new \in DOMAIN work'[t] /\ work'[t][new].op = "load" /\ work'[t][new].chunk = k
      BY <1>3, <1>5
    <3> QED BY <1>1, <2>1, <3>1 DEF OnItsWayTo
  <2>2. CASE j # k
    <3>1. j \in stay /\ j \in Range(resident) BY <1>6, <2>2
    <3>2. content[slotOf[j]] = j \/ OnItsWayTo(j) BY <3>1 DEF IInv, Filled
    <3>3. OnItsWayTo(j) => OnItsWayTo(j)'
      <4> SUFFICES ASSUME NEW s \in Worker, NEW i \in DOMAIN work[s],
                          work[s][i].op = "load", work[s][i].chunk = j
                   PROVE  OnItsWayTo(j)'
        BY DEF OnItsWayTo
      <4>1. i \in DOMAIN work'[s] /\ work'[s][i] = work[s][i] BY <1>5
      <4> QED BY <4>1 DEF OnItsWayTo
    <3>4. content' = content /\ slotOf'[j] = slotOf[j] BY <1>6, <3>1
    <3> QED BY <3>2, <3>3, <3>4
  <2> QED BY <2>1, <2>2
<1> QED BY <1>11, <1>13, <1>14, <1>15, <1>16, <1>17

\* What is in use is resident: it has a slot.
LEMMA InUseIsResident ==
  ASSUME IInv, pc = "acquire", NEW j \in Chunk, InUse(j)
  PROVE  j \in Range(resident)
<1>1. slotOf[j] \in PoolSlot => j \in Range(resident) BY Numbers DEF IInv, PoolOK
<1>2. ASSUME NEW s \in Worker, NEW i \in DOMAIN work[s],
             work[s][i].op = "kernel", j \in Range(ChunksOf(work[s][i].path))
      PROVE  slotOf[j] \in PoolSlot
  <2>1. PICK w : w = work[s][i] OBVIOUS
  <2>2. w \in LoadOf \cup KernelOf BY <2>1 DEF IInv, DeviceTypeOK
  <2>3. w.path \in Path /\ w.where \in Seq(PoolSlot) BY <1>2, <2>1, <2>2 DEF LoadOf, KernelOf
  <2>4. ChunksOf(w.path) \in Seq(Chunk) BY <2>3, ChunksOfIs
  <2>5. PICK x \in 1 .. Len(ChunksOf(w.path)) : ChunksOf(w.path)[x] = j
    BY <1>2, <2>1, <2>4, InRange
  <2>6. KernelServed(w) BY <2>1 DEF IInv, Served
  <2>7. x \in DOMAIN w.where /\ slotOf[ChunksOf(w.path)[x]] = w.where[x]
    BY <1>2, <2>1, <2>3, <2>5, <2>6 DEF KernelServed, HasAssigned
  <2> QED BY <2>3, <2>5, <2>7
<1>3. ASSUME NEW s \in Worker, NEW i \in DOMAIN work[s], work[s][i].op = "load", work[s][i].chunk = j
      PROVE  slotOf[j] \in PoolSlot
  <2>1. PICK w : w = work[s][i] OBVIOUS
  <2>2. w \in LoadOf \cup KernelOf BY <2>1 DEF IInv, DeviceTypeOK
  <2>3. w.at \in PoolSlot BY <1>3, <2>1, <2>2 DEF LoadOf, KernelOf
  <2> QED BY <1>3, <2>1, <2>3 DEF IInv, Loaded, LoadOK
<1>4. ASSUME NEW x \in DOMAIN assigned, ChunksOf(cur)[x] = j PROVE slotOf[j] \in PoolSlot
  <2>1. assigned \in Seq(PoolSlot) BY DEF IInv, PoolTypeOK
  <2>2. slotOf[j] = assigned[x] BY <1>4 DEF IInv, Acquiring, HasAssigned
  <2> QED BY <2>1, <2>2
<1> QED BY <1>1, <1>2, <1>3, <1>4 DEF InUse

\* What nobody holds is not in use once the event recorded last for it has happened
\* (the comment on last_event).
LEMMA IdleIsNotInUse ==
  ASSUME IInv, pc = "acquire", NEW k \in Chunk, refs[k] = 0, EventDone(k)
  PROVE  ~ InUse(k)
<1>1. ASSUME NEW x \in DOMAIN assigned PROVE ChunksOf(cur)[x] # k
  BY DEF IInv, Acquiring
<1>2. ASSUME NEW s \in Worker, NEW i \in DOMAIN work[s], work[s][i].op = "kernel"
      PROVE  k \notin Range(ChunksOf(work[s][i].path))
  <2> SUFFICES ASSUME k \in Range(ChunksOf(work[s][i].path)) PROVE FALSE OBVIOUS
  <2>1. KernelGuarded(work[s][i]) BY DEF IInv, Guarded
  <2>2. PICK n \in DOMAIN merges : UsedAfter(work[s][i].path, n)
    BY <1>2, <2>1 DEF KernelGuarded
  <2>3. PICK j \in n .. Len(merges) : lastUse[k] = merges[j] BY <2>2 DEF UsedAfter
  <2>4. merges \in Seq(Path) BY DEF IInv, DeviceTypeOK
  <2>5. j \in DOMAIN merges /\ merges[j] \in Path BY <2>3, <2>4
  <2>6. lastUse[k] # None BY <2>3, <2>5, Numbers
  <2>7. Queued(lastUse[k]) BY <2>3, <2>5 DEF Queued
  <2> QED BY <2>6, <2>7 DEF EventDone
<1>3. ASSUME NEW s \in Worker, NEW i \in DOMAIN work[s], work[s][i].op = "load"
      PROVE  work[s][i].chunk # k
  <2>1. LoadWanted(s, i) BY <1>3 DEF IInv, Guarded
  <2> QED BY <1>1, <1>2, <2>1 DEF LoadWanted
<1> QED BY <1>1, <1>2, <1>3 DEF InUse

\* One element more, another one.
LEMMA OneMore ==
  ASSUME NEW S, NEW s \in Seq(S), IsInjective(s), NEW v \in S, v \notin Range(s)
  PROVE  IsInjective(Append(s, v))
<1> DEFINE r == Append(s, v)
<1>1. /\ DOMAIN r = 1 .. Len(s) + 1
      /\ \A i \in 1 .. Len(s) : r[i] = s[i]
      /\ r[Len(s) + 1] = v
  BY Appended
<1>2. Len(s) \in Nat /\ DOMAIN s = 1 .. Len(s) /\ \A i \in 1 .. Len(s) : s[i] # v BY InRange
<1>3. \A i, j \in DOMAIN s : s[i] = s[j] => i = j BY DEF IsInjective
<1> HIDE DEF r
<1>4. ASSUME NEW i \in DOMAIN r, NEW j \in DOMAIN r, r[i] = r[j] PROVE i = j
  <2>1. i \in 1 .. Len(s) + 1 /\ j \in 1 .. Len(s) + 1 BY <1>1
  <2>2. CASE i = Len(s) + 1 BY <1>1, <1>2, <1>4, <2>1, <2>2
  <2>3. CASE j = Len(s) + 1 BY <1>1, <1>2, <1>4, <2>1, <2>3
  <2>4. CASE i # Len(s) + 1 /\ j # Len(s) + 1
    <3>1. i \in 1 .. Len(s) /\ j \in 1 .. Len(s) BY <1>2, <2>1, <2>4
    <3> QED BY <1>1, <1>2, <1>3, <1>4, <3>1
  <2> QED BY <2>2, <2>3, <2>4
<1>5. IsInjective(r) BY <1>4 DEF IsInjective
<1> QED BY <1>5 DEF r

\* A sequence without its last element.
LEMMA WithoutLast ==
  ASSUME NEW S, NEW s \in Seq(S), s # <<>>, IsInjective(s)
  PROVE  /\ Front(s) \in Seq(S) /\ Last(s) \in S /\ Last(s) \in Range(s)
         /\ IsInjective(Front(s))
         /\ \A v : v \in Range(Front(s)) => v \in Range(s) /\ v # Last(s)
<1>1. Len(s) \in Nat /\ Len(s) > 0 /\ DOMAIN s = 1 .. Len(s) OBVIOUS
<1>2. /\ Front(s) \in Seq(S) /\ DOMAIN Front(s) = 1 .. Len(s) - 1
      /\ \A i \in 1 .. Len(s) - 1 : Front(s)[i] = s[i]
  BY <1>1 DEF Front
<1>3. Last(s) = s[Len(s)] /\ Last(s) \in S BY <1>1 DEF Last
<1>4. \A i, j \in DOMAIN s : s[i] = s[j] => i = j BY DEF IsInjective
<1>5. \A i, j \in DOMAIN Front(s) : Front(s)[i] = Front(s)[j] => i = j BY <1>1, <1>2, <1>4
<1>6. ASSUME NEW v, v \in Range(Front(s)) PROVE v \in Range(s) /\ v # Last(s)
  <2>1. PICK i \in DOMAIN Front(s) : Front(s)[i] = v BY <1>6 DEF Range
  <2>2. i \in 1 .. Len(s) - 1 /\ s[i] = v BY <1>2, <2>1
  <2>3. i \in DOMAIN s /\ Len(s) \in DOMAIN s /\ i # Len(s) BY <1>1, <2>2
  <2> QED BY <1>3, <1>4, <2>2, <2>3 DEF Range
<1>7. Last(s) \in Range(s) BY <1>1, <1>3 DEF Range
<1> QED BY <1>2, <1>3, <1>5, <1>6, <1>7 DEF IsInjective

\* A sequence without one of its elements.
LEMMA Removed ==
  ASSUME NEW S, NEW s \in Seq(S), IsInjective(s), NEW n \in DOMAIN s
  PROVE  /\ RemoveAt(s, n) \in Seq(S)
         /\ IsInjective(RemoveAt(s, n))
         /\ Range(RemoveAt(s, n)) = Range(s) \ {s[n]}
<1> DEFINE r == RemoveAt(s, n)
           at(i) == IF i < n THEN i ELSE i + 1
<1>1. Len(s) \in Nat /\ DOMAIN s = 1 .. Len(s) /\ n \in 1 .. Len(s) OBVIOUS
<1>2. /\ r \in Seq(S) /\ DOMAIN r = 1 .. Len(s) - 1
      /\ \A i \in 1 .. Len(s) - 1 : r[i] = s[at(i)]
  <2>1. PICK a : a = SubSeq(s, 1, n - 1) OBVIOUS
  <2>2. PICK b : b = SubSeq(s, n + 1, Len(s)) OBVIOUS
  <2>3. a \in Seq(S) /\ Len(a) = n - 1 /\ \A i \in 1 .. n - 1 : a[i] = s[i] BY <1>1, <2>1
  <2>4. b \in Seq(S) /\ Len(b) = Len(s) - n /\ \A i \in 1 .. Len(s) - n : b[i] = s[n + i]
    BY <1>1, <2>2
  <2>5. r = a \o b BY <2>1, <2>2 DEF RemoveAt
  <2>6. /\ a \o b \in Seq(S) /\ Len(a \o b) = Len(s) - 1 /\ DOMAIN (a \o b) = 1 .. Len(s) - 1
        /\ \A i \in 1 .. Len(s) - 1 :
             (a \o b)[i] = IF i <= Len(a) THEN a[i] ELSE b[i - Len(a)]
    <3>1. a \in Seq(S) /\ b \in Seq(S) BY <2>3, <2>4
    <3>2. /\ a \o b \in Seq(S) /\ Len(a \o b) = Len(a) + Len(b)
          /\ \A i \in 1 .. Len(a) + Len(b) :
               (a \o b)[i] = IF i <= Len(a) THEN a[i] ELSE b[i - Len(a)]
      BY <3>1
    <3>3. Len(a) + Len(b) = Len(s) - 1 BY <1>1, <2>3, <2>4
    <3> QED BY <3>2, <3>3
  <2>7. ASSUME NEW i \in 1 .. Len(s) - 1 PROVE (a \o b)[i] = s[at(i)]
    <3>1. CASE i < n
      <4>1. i <= Len(a) /\ i \in 1 .. n - 1 BY <1>1, <2>3, <3>1
      <4> QED BY <2>3, <2>6, <3>1, <4>1
    <3>2. CASE ~ i < n
      <4>1. ~ i <= Len(a) /\ i - Len(a) \in 1 .. Len(s) - n /\ n + (i - Len(a)) = i + 1
        BY <1>1, <2>3, <3>2
      <4>2. b[i - Len(a)] = s[i + 1] BY <2>4, <4>1
      <4> QED BY <2>6, <3>2, <4>1, <4>2
    <3> QED BY <3>1, <3>2
  <2> QED BY <2>5, <2>6, <2>7
<1>3. \A i, j \in DOMAIN s : s[i] = s[j] => i = j BY DEF IsInjective
<1>4. \A i \in 1 .. Len(s) - 1 : at(i) \in DOMAIN s /\ at(i) # n BY <1>1
<1>5. \A i, j \in 1 .. Len(s) - 1 : at(i) = at(j) => i = j BY <1>1
<1>6. \A m \in DOMAIN s : m # n => \E i \in 1 .. Len(s) - 1 : at(i) = m
  <2> SUFFICES ASSUME NEW m \in DOMAIN s, m # n PROVE \E i \in 1 .. Len(s) - 1 : at(i) = m OBVIOUS
  <2>1. CASE m < n
    <3>1. m \in 1 .. Len(s) - 1 /\ at(m) = m BY <1>1, <2>1
    <3> QED BY <3>1
  <2>2. CASE m > n
    <3>1. m - 1 \in 1 .. Len(s) - 1 /\ at(m - 1) = m BY <1>1, <2>2
    <3> QED BY <3>1
  <2> QED BY <1>1, <2>1, <2>2
<1> HIDE DEF r, at
<1>7. IsInjective(r)
  <2> SUFFICES ASSUME NEW i \in DOMAIN r, NEW j \in DOMAIN r, r[i] = r[j] PROVE i = j
    BY DEF IsInjective
  <2> QED BY <1>2, <1>3, <1>4, <1>5
<1>8. ASSUME NEW v PROVE v \in Range(r) <=> v \in Range(s) /\ v # s[n]
  <2>1. ASSUME v \in Range(r) PROVE v \in Range(s) /\ v # s[n]
    <3>1. PICK i \in DOMAIN r : r[i] = v BY <2>1 DEF Range
    <3>2. v = s[at(i)] /\ at(i) \in DOMAIN s /\ at(i) # n BY <1>2, <1>4, <3>1
    <3> QED BY <1>3, <3>2 DEF Range
  <2>2. ASSUME v \in Range(s), v # s[n] PROVE v \in Range(r)
    <3>1. PICK m \in DOMAIN s : s[m] = v BY <2>2 DEF Range
    <3>2. PICK i \in 1 .. Len(s) - 1 : at(i) = m BY <1>6, <2>2, <3>1
    <3>3. i \in DOMAIN r /\ r[i] = v BY <1>2, <3>1, <3>2
    <3> QED BY <3>3 DEF Range
  <2> QED BY <2>1, <2>2
<1>9. Range(r) = Range(s) \ {s[n]} BY <1>8
<1> QED BY <1>2, <1>7, <1>9 DEF r

\* A slot that was never used is loaded with the next chunk.
LEMMA TakeFreeInv == ASSUME IInv, TakeFree PROVE IInv'
<1> USE DEF TakeFree, Load
<1> DEFINE k == Head(todo)
           p == Last(free)
<1>1. /\ resident \in Seq(Chunk) /\ free \in Seq(PoolSlot) /\ todo \in Seq(Chunk)
      /\ slotOf \in [Chunk -> {None} \cup PoolSlot]
  BY DEF IInv, PoolTypeOK
<1>2. k \in Chunk /\ k \notin Range(resident) BY <1>1, Dropped
<1>3. /\ IsInjective(resident) /\ IsInjective(free) /\ Range(resident) \subseteq Chunk
      /\ Range(free) \subseteq PoolSlot
      /\ \A j \in Chunk : slotOf[j] # None <=> j \in Range(resident)
      /\ \A j \in Range(resident) : slotOf[j] \in PoolSlot \ Range(free)
      /\ \A i, j \in Range(resident) : slotOf[i] = slotOf[j] => i = j
  BY DEF IInv, PoolOK
<1>4. /\ Front(free) \in Seq(PoolSlot) /\ p \in PoolSlot /\ p \in Range(free)
      /\ IsInjective(Front(free))
      /\ \A v : v \in Range(Front(free)) => v \in Range(free) /\ v # p
  BY <1>1, <1>3, WithoutLast
<1>5. /\ Append(resident, k) \in Seq(Chunk)
      /\ Len(Append(resident, k)) = Len(resident) + 1
      /\ DOMAIN Append(resident, k) = 1 .. Len(resident) + 1
      /\ \A i \in 1 .. Len(resident) : Append(resident, k)[i] = resident[i]
      /\ Append(resident, k)[Len(resident) + 1] = k
      /\ \A u : u \in Range(Append(resident, k)) <=> u \in Range(resident) \/ u = k
  BY <1>1, <1>2, Appended
<1>6. /\ resident' = Append(resident, k) /\ free' = Front(free) /\ lastUse' = lastUse
      /\ slotOf' = [slotOf EXCEPT ![k] = p] /\ Pin(k, p) /\ UNCHANGED host
      /\ UNCHANGED <<merges, content>>
      /\ work' = [work EXCEPT ![TheWorker] = Append(@, [op |-> "load", chunk |-> k, at |-> p])]
      /\ pc = "acquire" /\ todo # <<>>
  OBVIOUS
<1>7. /\ slotOf' \in [Chunk -> {None} \cup PoolSlot]
      /\ slotOf'[k] = p /\ \A j \in Chunk : j # k => slotOf'[j] = slotOf[j]
  BY <1>1, <1>2, <1>4, <1>6
<1> HIDE DEF k, p
<1>8. Stays(Range(resident), k, p)
  <2>1. \A j \in Chunk : InUse(j) => j \in Range(resident) BY <1>6, InUseIsResident
  <2>2. Range(resident') = Range(resident) \cup {k} BY <1>5, <1>6
  <2>3. \A j \in Range(resident) : slotOf'[j] = slotOf[j] BY <1>2, <1>3, <1>7
  <2> QED BY <1>6, <1>7, <2>1, <2>2, <2>3 DEF Stays
<1>9. /\ DeviceTypeOK' /\ Acquiring' /\ Served' /\ Loaded' /\ Guarded' /\ Filled'
      /\ todo' \in Seq(Chunk) /\ assigned' \in Seq(PoolSlot) /\ refs' \in [Chunk -> Nat]
  BY <1>2, <1>4, <1>6, <1>8, Fetched DEF k
<1>10. HostTypeOK' BY <1>6 DEF IInv, HostTypeOK, host
<1>11. PoolTypeOK' BY <1>4, <1>5, <1>6, <1>7, <1>9 DEF IInv, PoolTypeOK
<1>12. PoolOK'
  <2>1. IsInjective(resident') BY <1>1, <1>2, <1>3, <1>6, OneMore
  <2>2. Range(resident') = Range(resident) \cup {k} BY <1>5, <1>6
  <2>3. \A j \in Chunk : slotOf'[j] # None <=> j \in Range(resident') BY <1>3, <1>4, <1>7, <2>2, Numbers
  <2>4. \A j \in Range(resident') : slotOf'[j] \in PoolSlot \ Range(free')
    BY <1>2, <1>3, <1>4, <1>6, <1>7, <2>2
  <2>5. \A i, j \in Range(resident') : slotOf'[i] = slotOf'[j] => i = j
    BY <1>2, <1>3, <1>4, <1>7, <2>2
  <2>6. IsInjective(free') /\ Range(free') \subseteq PoolSlot BY <1>3, <1>4, <1>6
  <2> QED BY <1>2, <1>3, <2>1, <2>2, <2>3, <2>4, <2>5, <2>6 DEF PoolOK
<1> QED BY <1>9, <1>10, <1>11, <1>12 DEF IInv

\* The oldest chunk nobody holds makes room for the next one (_evict_one).
LEMMA EvictInv == ASSUME IInv, Evict PROVE IInv'
<1> USE DEF Evict
<1> DEFINE k == Head(todo)
           oldest == Min(Unreferenced)
           victim == resident[oldest]
           p == slotOf[victim]
           stay == Range(resident) \ {victim}
<1>1. /\ resident \in Seq(Chunk) /\ free \in Seq(PoolSlot) /\ todo \in Seq(Chunk)
      /\ slotOf \in [Chunk -> {None} \cup PoolSlot]
      /\ DOMAIN lastUse = Chunk
  BY DEF IInv, PoolTypeOK
<1>2. k \in Chunk /\ k \notin Range(resident) BY <1>1, Dropped
<1>3. /\ IsInjective(resident) /\ Range(resident) \subseteq Chunk
      /\ \A j \in Chunk : slotOf[j] # None <=> j \in Range(resident)
      /\ \A j \in Range(resident) : slotOf[j] \in PoolSlot \ Range(free)
      /\ \A i, j \in Range(resident) : slotOf[i] = slotOf[j] => i = j
  BY DEF IInv, PoolOK
<1>4. oldest \in DOMAIN resident /\ refs[victim] = 0
  <2>1. Unreferenced \in SUBSET Nat /\ Unreferenced # {}
    <3>1. Len(resident) \in Nat /\ DOMAIN resident = 1 .. Len(resident) BY <1>1
    <3>2. 1 .. Len(resident) \subseteq Nat BY <3>1
    <3>3. Unreferenced \subseteq DOMAIN resident BY DEF Unreferenced
    <3>4. Unreferenced # {} OBVIOUS
    <3> HIDE DEF Evict
    <3> QED BY <3>1, <3>2, <3>3, <3>4
  <2>2. \E x \in Unreferenced : \A y \in Unreferenced : x <= y BY <2>1, LeastNat
  <2>3. Min(Unreferenced) \in Unreferenced BY <2>2 DEF Min
  <2> QED BY <2>3 DEF Unreferenced
<1>5. victim \in Range(resident) /\ victim \in Chunk /\ victim # k /\ p \in PoolSlot
  <2>1. victim \in Range(resident) BY <1>4 DEF Range
  <2> QED BY <1>2, <1>3, <2>1
<1>6. /\ resident' = Append(Others(oldest), k) /\ free' = free /\ EventDone(victim)
      /\ lastUse' = [lastUse EXCEPT ![victim] = None]
      /\ slotOf' = [slotOf EXCEPT ![victim] = None, ![k] = p] /\ Pin(k, p) /\ UNCHANGED host
      /\ UNCHANGED <<merges, content>>
      /\ work' = [work EXCEPT ![TheWorker] = Append(@, [op |-> "load", chunk |-> k, at |-> p])]
      /\ pc = "acquire" /\ todo # <<>>
  OBVIOUS
<1>7. /\ slotOf' \in [Chunk -> {None} \cup PoolSlot]
      /\ slotOf'[k] = p /\ slotOf'[victim] = None
      /\ \A j \in Chunk : j # k /\ j # victim => slotOf'[j] = slotOf[j] /\ lastUse'[j] = lastUse[j]
      /\ DOMAIN lastUse' = Chunk
  BY <1>1, <1>2, <1>5, <1>6
<1>8. /\ Others(oldest) \in Seq(Chunk) /\ IsInjective(Others(oldest))
      /\ Range(Others(oldest)) = stay
  BY <1>1, <1>3, <1>4, Removed DEF Others
<1>9. ~ InUse(victim) BY <1>4, <1>5, <1>6, IdleIsNotInUse
<1> HIDE DEF k, oldest, victim, p, stay
<1>10. /\ resident' \in Seq(Chunk) /\ IsInjective(resident')
       /\ Range(resident') = stay \cup {k}
  <2>1. k \notin stay BY <1>2 DEF stay
  <2>2. IsInjective(Append(Others(oldest), k)) BY <1>2, <1>8, <2>1, OneMore
  <2>3. /\ Append(Others(oldest), k) \in Seq(Chunk)
        /\ \A u : u \in Range(Append(Others(oldest), k)) <=> u \in Range(Others(oldest)) \/ u = k
    BY <1>2, <1>8, Appended
  <2> QED BY <1>6, <1>8, <2>2, <2>3
<1>11. Stays(stay, k, p)
  <2>1. ASSUME NEW j \in Chunk, InUse(j) PROVE j \in stay
    <3>1. j \in Range(resident) BY <1>6, <2>1, InUseIsResident
    <3>2. j # victim BY <1>9, <2>1
    <3> QED BY <3>1, <3>2 DEF stay
  <2>2. ASSUME NEW j \in stay PROVE slotOf'[j] = slotOf[j] /\ lastUse'[j] = lastUse[j]
    <3>1. j \in Range(resident) /\ j # victim BY DEF stay
    <3>2. j # k BY <1>2, <3>1
    <3> QED BY <1>3, <1>7, <3>1, <3>2
  <2> QED BY <1>7, <1>10, <2>1, <2>2 DEF Stays, stay
<1>12. /\ DeviceTypeOK' /\ Acquiring' /\ Served' /\ Loaded' /\ Guarded' /\ Filled'
       /\ todo' \in Seq(Chunk) /\ assigned' \in Seq(PoolSlot) /\ refs' \in [Chunk -> Nat]
  BY <1>2, <1>5, <1>6, <1>11, Fetched DEF k
<1>13. HostTypeOK' BY <1>6 DEF IInv, HostTypeOK, host
<1>14. PoolTypeOK' BY <1>1, <1>6, <1>7, <1>10, <1>12 DEF IInv, PoolTypeOK
<1>15. PoolOK'
  <2>1. Range(resident') \subseteq Chunk BY <1>2, <1>3, <1>10 DEF stay
  <2>2. \A j \in Chunk : slotOf'[j] # None <=> j \in Range(resident')
    <3> SUFFICES ASSUME NEW j \in Chunk PROVE slotOf'[j] # None <=> j \in Range(resident') OBVIOUS
    <3>1. CASE j = k BY <1>5, <1>7, <1>10, <3>1, Numbers
    <3>2. CASE j = victim BY <1>5, <1>7, <1>10, <3>2 DEF stay
    <3>3. CASE j # k /\ j # victim BY <1>3, <1>7, <1>10, <3>3 DEF stay
    <3> QED BY <3>1, <3>2, <3>3
  <2>3. \A j \in stay : j \in Chunk /\ j \in Range(resident) /\ slotOf'[j] = slotOf[j]
    BY <1>2, <1>3, <1>7 DEF stay
  <2>4. p \in PoolSlot \ Range(free) /\ \A j \in stay : slotOf[j] # p
    BY <1>3, <1>5 DEF p, stay
  <2>5. \A j \in Range(resident') : slotOf'[j] \in PoolSlot \ Range(free')
    BY <1>3, <1>6, <1>7, <1>10, <2>3, <2>4
  <2>6. \A i, j \in Range(resident') : slotOf'[i] = slotOf'[j] => i = j
    BY <1>3, <1>7, <1>10, <2>3, <2>4
  <2>7. IsInjective(free') /\ Range(free') \subseteq PoolSlot BY <1>6 DEF IInv, PoolOK
  <2> QED BY <1>10, <2>1, <2>2, <2>5, <2>6, <2>7 DEF PoolOK
<1> QED BY <1>12, <1>13, <1>14, <1>15 DEF IInv

-----------------------------------------------------------------------------
(* The kernel and the merge are enqueued. *)

\* A kernel goes behind the loads it is for.
LEMMA EnqueueKernelInv == ASSUME IInv, EnqueueKernel PROVE IInv'
<1> USE DEF EnqueueKernel
<1> DEFINE t == TheWorker
           kernel == [op |-> "kernel", path |-> cur, where |-> assigned]
           new == Len(work[t]) + 1
<1>1. t \in Worker BY TurnIsWorker DEF IInv, HostTypeOK, TheWorker
<1>2. cur \in Path /\ assigned \in Seq(PoolSlot) /\ DeviceTypeOK
  BY DEF IInv, HostTypeOK, PoolTypeOK
<1>3. /\ kernel \in LoadOf \cup KernelOf
      /\ kernel.op = "kernel" /\ kernel.path = cur /\ kernel.where = assigned
  BY <1>2 DEF KernelOf
<1>4. /\ work' \in [Worker -> Seq(LoadOf \cup KernelOf)]
      /\ \A s \in Worker : \A i \in DOMAIN work[s] :
           i \in DOMAIN work'[s] /\ work'[s][i] = work[s][i]
      /\ \A s \in Worker : \A i \in DOMAIN work'[s] :
           \/ i \in DOMAIN work[s]
           \/ s = t /\ i = new /\ work'[s][i] = kernel
      /\ Len(work[t]) \in Nat /\ DOMAIN work[t] = 1 .. Len(work[t])
      /\ new \in DOMAIN work'[t] /\ work'[t][new] = kernel
  BY <1>1, <1>2, <1>3, Enqueued
<1>5. /\ pc = "kernel" /\ pc' = "merge"
      /\ UNCHANGED <<pending, cur, turn, streams, slotDone, outcome, pool, merges, content>>
  OBVIOUS
<1> USE DEF pool
<1>6. HasAssigned(cur, assigned) /\ Len(assigned) = Len(ChunksOf(cur)) BY <1>5 DEF IInv, Acquiring
<1> HIDE DEF EnqueueKernel, t, kernel, new
<1>7. HostTypeOK' BY <1>5 DEF IInv, HostTypeOK
<1>8. PoolTypeOK' /\ PoolOK' BY <1>5 DEF IInv, PoolTypeOK, PoolOK
<1>9. DeviceTypeOK' BY <1>2, <1>4, <1>5 DEF DeviceTypeOK
<1>10. Acquiring' BY <1>5 DEF IInv, Acquiring, HasAssigned
<1>11. Served'
  <2> SUFFICES ASSUME NEW s \in Worker, NEW i \in DOMAIN work'[s] PROVE KernelServed(work[s][i])'
    BY DEF Served
  <2>1. CASE i \in DOMAIN work[s]
    <3>1. KernelServed(work[s][i]) /\ work'[s][i] = work[s][i] BY <1>4, <2>1 DEF IInv, Served
    <3> QED BY <1>5, <3>1 DEF KernelServed, HasAssigned
  <2>2. CASE i \notin DOMAIN work[s]
    <3>1. work'[s][i] = kernel BY <1>4, <2>2
    <3> QED BY <1>3, <1>5, <1>6, <3>1 DEF KernelServed, HasAssigned
  <2> QED BY <2>1, <2>2
<1>12. Loaded'
  <2> SUFFICES ASSUME NEW s \in Worker, NEW i \in DOMAIN work'[s], work'[s][i].op = "load"
               PROVE  LoadOK(s, i)'
    BY DEF Loaded, LoadOK
  <2>1. i \in DOMAIN work[s] /\ work'[s][i] = work[s][i] BY <1>3, <1>4
  <2>2. LoadOK(s, i) BY <2>1 DEF IInv, Loaded
  <2>3. ASSUME NEW j \in DOMAIN work'[s], j < i
        PROVE  j \in DOMAIN work[s] /\ work'[s][j] = work[s][j]
    <3> SUFFICES ASSUME j \notin DOMAIN work[s] PROVE FALSE BY <1>4
    <3>1. s = t /\ j = new BY <1>4
    <3>2. i \in 1 .. Len(work[t]) BY <1>4, <2>1, <3>1
    <3> QED BY <1>4, <2>3, <3>1, <3>2 DEF new
  <2> QED BY <1>5, <2>1, <2>2, <2>3 DEF LoadOK
<1>13. Guarded'
  <2> SUFFICES ASSUME NEW s \in Worker, NEW i \in DOMAIN work'[s]
               PROVE  /\ KernelGuarded(work[s][i])'
                      /\ work'[s][i].op = "load" => LoadWanted(s, i)'
    BY DEF Guarded
  <2>1. ASSUME i \in DOMAIN work[s]
        PROVE  /\ work'[s][i] = work[s][i] /\ KernelGuarded(work[s][i])
               /\ work[s][i].op = "load" => LoadWanted(s, i)
    BY <1>4, <1>5, <2>1 DEF IInv, Guarded
  <2>2. KernelGuarded(work[s][i])'
    <3>1. CASE i \in DOMAIN work[s] BY <1>5, <2>1, <3>1 DEF KernelGuarded, UsedAfter
    <3>2. CASE i \notin DOMAIN work[s]
      <4>1. work'[s][i] = kernel BY <1>4, <3>2
      <4> QED BY <1>3, <1>5, <4>1 DEF KernelGuarded
    <3> QED BY <3>1, <3>2
  <2>3. ASSUME work'[s][i].op = "load" PROVE LoadWanted(s, i)'
    <3>1. i \in DOMAIN work[s] BY <1>3, <1>4, <2>3
    <3>2. work'[s][i] = work[s][i] /\ LoadWanted(s, i) BY <2>1, <2>3, <3>1
    <3>3. CASE \E j \in DOMAIN work[s] :
                 /\ j > i /\ work[s][j].op = "kernel"
                 /\ work[s][i].chunk \in Range(ChunksOf(work[s][j].path))
      BY <1>4, <3>2, <3>3 DEF LoadWanted
    <3>4. CASE s = TheWorker /\ \E x \in DOMAIN assigned : work[s][i].chunk = ChunksOf(cur)[x]
      <4>1. PICK x \in DOMAIN assigned : work[s][i].chunk = ChunksOf(cur)[x] BY <3>4
      <4>2. x \in DOMAIN ChunksOf(cur) BY <1>6, <4>1 DEF HasAssigned
      <4>3. work'[s][i].chunk \in Range(ChunksOf(cur)) BY <3>2, <4>1, <4>2 DEF Range
      <4>4. s = t BY <3>4 DEF t
      <4>5. i \in 1 .. Len(work[t]) BY <1>4, <3>1, <4>4
      <4>6. new > i BY <1>4, <4>5 DEF new
      <4> QED BY <1>3, <1>4, <4>3, <4>4, <4>6 DEF LoadWanted
    <3> QED BY <3>2, <3>3, <3>4 DEF LoadWanted
  <2> QED BY <2>2, <2>3
<1>14. Filled'
  <2>1. ASSUME NEW j, OnItsWayTo(j) PROVE OnItsWayTo(j)' BY <1>4, <2>1 DEF OnItsWayTo
  <2>2. resident' = resident /\ slotOf' = slotOf /\ content' = content BY <1>5
  <2> QED BY <2>1, <2>2 DEF IInv, Filled
<1> QED BY <1>7, <1>8, <1>9, <1>10, <1>11, <1>12, <1>13, <1>14 DEF IInv

\* The references of the subproblem drop, and its event takes over.
LEMMA EnqueueMergeInv == ASSUME IInv, EnqueueMerge PROVE IInv'
<1> USE DEF EnqueueMerge
<1>0. PICK last : last = Len(merges) + 1 OBVIOUS
<1>1. /\ cur \in Path /\ turn \in Nat /\ streams \in 1 .. NPar
      /\ refs \in [Chunk -> Nat] /\ DeviceTypeOK /\ merges \in Seq(Path)
  BY DEF IInv, HostTypeOK, PoolTypeOK, DeviceTypeOK
<1>2. /\ pc = "merge" /\ pc' = "pop" /\ merges' = Append(merges, cur) /\ turn' = turn + 1
      /\ UNCHANGED <<pending, streams, todo, assigned, resident, slotOf, free, work, content>>
      /\ DOMAIN lastUse' = Chunk
      /\ \A k \in Chunk : lastUse'[k] = IF k \in Range(ChunksOf(cur)) THEN cur ELSE lastUse[k]
  OBVIOUS
<1>3. refs' \in [Chunk -> Nat]
  <2>1. refs' = [k \in Chunk |-> IF k \in Range(ChunksOf(cur)) /\ refs[k] > 0
                                   THEN refs[k] - 1 ELSE refs[k]]
    OBVIOUS
  <2>2. \A k \in Chunk : refs[k] \in Nat /\ (refs[k] > 0 => refs[k] - 1 \in Nat) BY <1>1
  <2> QED BY <2>1, <2>2
<1> HIDE DEF EnqueueMerge
<1>4. /\ merges' \in Seq(Path) /\ DOMAIN merges' = 1 .. last /\ last \in DOMAIN merges' /\ Len(merges') = last
      /\ DOMAIN merges = 1 .. Len(merges) /\ Len(merges) \in Nat
      /\ \A i \in DOMAIN merges : i \in DOMAIN merges' /\ merges'[i] = merges[i]
      /\ merges'[last] = cur
  <2>1. /\ Append(merges, cur) \in Seq(Path)
        /\ Len(Append(merges, cur)) = last
        /\ DOMAIN Append(merges, cur) = 1 .. last
        /\ \A i \in 1 .. Len(merges) : Append(merges, cur)[i] = merges[i]
        /\ Append(merges, cur)[last] = cur
    BY <1>0, <1>1, Appended
  <2>2. DOMAIN merges = 1 .. Len(merges) /\ Len(merges) \in Nat BY <1>1
  <2> QED BY <1>0, <1>2, <2>1, <2>2
<1>5. HostTypeOK' BY <1>1, <1>2 DEF IInv, HostTypeOK
<1>6. PoolTypeOK' /\ PoolOK' BY <1>2, <1>3 DEF IInv, PoolTypeOK, PoolOK
<1>7. DeviceTypeOK' BY <1>1, <1>2, <1>4 DEF DeviceTypeOK
<1>8. Acquiring' BY <1>2 DEF Acquiring
<1>9. Served' BY <1>2 DEF IInv, Served, KernelServed, HasAssigned
<1>10. Loaded' BY <1>2 DEF IInv, Loaded, LoadOK
<1>11. Filled' BY <1>2 DEF IInv, Filled, OnItsWayTo
<1>12. Guarded'
  <2> SUFFICES ASSUME NEW s \in Worker, NEW i \in DOMAIN work[s]
               PROVE  /\ KernelGuarded(work[s][i])'
                      /\ work[s][i].op = "load" => LoadWanted(s, i)'
    BY <1>2 DEF Guarded
  <2>1. KernelGuarded(work[s][i]) /\ (work[s][i].op = "load" => LoadWanted(s, i))
    BY <1>2 DEF IInv, Guarded
  <2>2. work[s][i].op = "load" => LoadWanted(s, i)' BY <1>2, <2>1 DEF LoadWanted
  <2>3. KernelGuarded(work[s][i])'
    <3> SUFFICES ASSUME work[s][i].op = "kernel"
                 PROVE  \E n \in DOMAIN merges' : merges'[n] = work[s][i].path /\ UsedAfter(work[s][i].path, n)'
      BY <1>2 DEF KernelGuarded
    <3>1. PICK w : w = work[s][i] OBVIOUS
    <3>2. w \in LoadOf \cup KernelOf BY <1>1, <3>1 DEF DeviceTypeOK
    <3>3. w.path \in Path BY <3>1, <3>2 DEF LoadOf, KernelOf
    <3>4. \A k \in Range(ChunksOf(w.path)) : k \in Chunk BY <3>3, ChunksOfIs, InRange
    <3>5. CASE w.path = cur
      <4>1. \A k \in Range(ChunksOf(w.path)) : lastUse'[k] = merges'[last] BY <1>2, <1>4, <3>4, <3>5
      <4>2. last \in last .. Len(merges') BY <1>4
      <4>3. UsedAfter(w.path, last)' BY <4>1, <4>2 DEF UsedAfter
      <4> QED BY <1>2, <1>4, <3>1, <3>5, <4>3
    <3>6. CASE w.path # cur
      <4>1. PICK n \in DOMAIN merges : merges[n] = w.path /\ UsedAfter(w.path, n)
        BY <2>1, <3>1, <3>6 DEF KernelGuarded
      <4>2. ASSUME NEW k \in Range(ChunksOf(w.path))
            PROVE  \E j \in n .. Len(merges') : lastUse'[k] = merges'[j]
        <5>1. CASE k \in Range(ChunksOf(cur))
          <6>1. lastUse'[k] = merges'[last] BY <1>2, <1>4, <3>4, <5>1
          <6>2. last \in n .. Len(merges') BY <1>0, <1>4, <4>1
          <6> QED BY <6>1, <6>2
        <5>2. CASE k \notin Range(ChunksOf(cur))
          <6>1. PICK j \in n .. Len(merges) : lastUse[k] = merges[j] BY <4>1 DEF UsedAfter
          <6>2. j \in DOMAIN merges /\ j \in n .. Len(merges') BY <1>0, <1>4, <4>1, <6>1
          <6>3. lastUse'[k] = merges'[j] BY <1>2, <1>4, <3>4, <5>2, <6>1, <6>2
          <6> QED BY <6>2, <6>3
        <5> QED BY <5>1, <5>2
      <4>3. UsedAfter(w.path, n)' BY <4>2 DEF UsedAfter
      <4> QED BY <1>2, <1>4, <3>1, <4>1, <4>3
    <3> QED BY <3>5, <3>6
  <2> QED BY <2>2, <2>3
<1> QED BY <1>5, <1>6, <1>7, <1>8, <1>9, <1>10, <1>11, <1>12 DEF IInv

-----------------------------------------------------------------------------
(* The device. *)

\* The places by which a stream that has run its first operation moves up.
Shift(r, s) == IF r = s THEN 1 ELSE 0

\* Work that is left is what it was, one place further on in its stream.
MovesUp(s) ==
  /\ work' \in [Worker -> Seq(LoadOf \cup KernelOf)]
  /\ \A r \in Worker : \A i \in DOMAIN work'[r] :
       /\ i \in Nat /\ i + Shift(r, s) \in DOMAIN work[r]
       /\ work'[r][i] = work[r][i + Shift(r, s)]
  /\ \A r \in Worker : \A i \in DOMAIN work[r] :
       r # s \/ i > 1 =>
         /\ i \in Nat /\ i - Shift(r, s) \in DOMAIN work'[r]
         /\ work'[r][i - Shift(r, s)] = work[r][i]

\* A stream takes the first of its operations.
LEMMA Dequeued ==
  ASSUME DeviceTypeOK, NEW s \in Worker, work[s] # <<>>, work' = [work EXCEPT ![s] = Tail(@)]
  PROVE  /\ MovesUp(s)
         /\ Head(work[s]) = work[s][1] /\ 1 \in DOMAIN work[s]
         /\ Head(work[s]) \in LoadOf \cup KernelOf
<1> DEFINE Q == LoadOf \cup KernelOf
<1>1. work \in [Worker -> Seq(Q)] BY DEF DeviceTypeOK
<1>2. work[s] \in Seq(Q) BY <1>1
<1>3. work'[s] = Tail(work[s]) /\ \A r \in Worker \ {s} : work'[r] = work[r] BY <1>1
<1>4. /\ Tail(work[s]) \in Seq(Q) /\ Head(work[s]) \in Q /\ Head(work[s]) = work[s][1]
      /\ Len(work[s]) \in Nat /\ Len(work[s]) > 0
      /\ DOMAIN Tail(work[s]) = 1 .. Len(work[s]) - 1
      /\ \A i \in 1 .. Len(work[s]) - 1 : Tail(work[s])[i] = work[s][i + 1]
  BY <1>2, Dropped
<1>5. DOMAIN work[s] = 1 .. Len(work[s]) BY <1>2
<1>10. PICK q : q = Tail(work[s]) OBVIOUS
<1>6. work' \in [Worker -> Seq(Q)]
  <2>1. \A r \in Worker : work'[r] \in Seq(Q) BY <1>1, <1>3, <1>4
  <2>2. work' = [r \in Worker |-> work'[r]] BY <1>1
  <2> QED BY <2>1, <2>2
<1>7. \A r \in Worker : \A i \in DOMAIN work[r] : i \in Nat
  <2> SUFFICES ASSUME NEW r \in Worker PROVE \A i \in DOMAIN work[r] : i \in Nat OBVIOUS
  <2>1. work[r] \in Seq(Q) BY <1>1
  <2> QED BY <2>1
<1>8. ASSUME NEW r \in Worker, NEW i \in DOMAIN work'[r]
      PROVE  /\ i \in Nat /\ i + Shift(r, s) \in DOMAIN work[r]
             /\ work'[r][i] = work[r][i + Shift(r, s)]
  <2>1. CASE r = s
    <3>1. i \in DOMAIN q /\ DOMAIN q = 1 .. Len(work[s]) - 1 BY <1>3, <1>4, <1>10, <2>1
    <3>2. i \in 1 .. Len(work[s]) - 1 BY <3>1
    <3>3. i \in Nat /\ i + 1 \in 1 .. Len(work[s]) BY <1>4, <3>2
    <3>4. work'[s][i] = work[s][i + 1] BY <1>3, <1>4, <3>2
    <3>5. Shift(r, s) = 1 BY <2>1 DEF Shift
    <3> QED BY <1>5, <2>1, <3>3, <3>4, <3>5
  <2>2. CASE r # s
    <3>1. i \in DOMAIN work[r] /\ i \in Nat /\ i + 0 = i BY <1>3, <1>7, <2>2
    <3> QED BY <1>3, <2>2, <3>1 DEF Shift
  <2> QED BY <2>1, <2>2
<1>9. ASSUME NEW r \in Worker, NEW i \in DOMAIN work[r], r # s \/ i > 1
      PROVE  /\ i \in Nat /\ i - Shift(r, s) \in DOMAIN work'[r]
             /\ work'[r][i - Shift(r, s)] = work[r][i]
  <2>1. CASE r = s
    <3>1. i \in 1 .. Len(work[s]) /\ i > 1 BY <1>5, <1>9, <2>1
    <3>2. i - 1 \in 1 .. Len(work[s]) - 1 /\ (i - 1) + 1 = i BY <1>4, <3>1
    <3>3. i - 1 \in DOMAIN q BY <1>4, <1>10, <3>2
    <3>4. q[i - 1] = work[s][(i - 1) + 1] BY <1>4, <1>10, <3>2
    <3>5. q[i - 1] = work[s][i] BY <3>2, <3>4
    <3>6. work'[s] = q BY <1>3, <1>10
    <3>7. Shift(r, s) = 1 BY <2>1 DEF Shift
    <3> QED BY <2>1, <3>1, <3>3, <3>5, <3>6, <3>7
  <2>2. CASE r # s
    <3>1. i \in Nat /\ i - 0 = i BY <1>7
    <3> QED BY <1>3, <2>2, <3>1 DEF Shift
  <2> QED BY <2>1, <2>2
<1> QED BY <1>4, <1>5, <1>6, <1>8, <1>9 DEF MovesUp

\* What a stream has left keeps what is said of it.
LEMMA StreamMoves ==
  ASSUME IInv, NEW s \in Worker, MovesUp(s), UNCHANGED <<host, pool, merges>>
  PROVE  HostTypeOK' /\ PoolTypeOK' /\ PoolOK' /\ Acquiring' /\ Served' /\ Loaded' /\ Guarded'
<1> USE DEF host, pool
<1>1. HostTypeOK' BY DEF IInv, HostTypeOK
<1>2. PoolTypeOK' /\ PoolOK' BY DEF IInv, PoolTypeOK, PoolOK
<1>3. Acquiring' BY DEF IInv, Acquiring, HasAssigned
<1>4. Served'
  <2> SUFFICES ASSUME NEW r \in Worker, NEW i \in DOMAIN work'[r] PROVE KernelServed(work[r][i])'
    BY DEF Served
  <2>1. PICK m \in DOMAIN work[r] : work'[r][i] = work[r][m] BY DEF MovesUp
  <2>2. KernelServed(work[r][m]) BY DEF IInv, Served
  <2> QED BY <2>1, <2>2 DEF KernelServed, HasAssigned
<1>5. Loaded'
  <2> SUFFICES ASSUME NEW r \in Worker, NEW i \in DOMAIN work'[r], work'[r][i].op = "load"
               PROVE  LoadOK(r, i)'
    BY DEF Loaded, LoadOK
  <2> DEFINE d == Shift(r, s)
  <2>1. i \in Nat /\ i + d \in DOMAIN work[r] /\ work'[r][i] = work[r][i + d] BY DEF MovesUp
  <2>2. LoadOK(r, i + d) BY <2>1 DEF IInv, Loaded
  <2>3. ASSUME NEW j \in DOMAIN work'[r], j < i, work'[r][j].op = "kernel"
        PROVE  work'[r][i].chunk \notin Range(ChunksOf(work'[r][j].path))
    <3>1. j \in Nat /\ j + d \in DOMAIN work[r] /\ work'[r][j] = work[r][j + d] BY DEF MovesUp
    <3>2. j + d < i + d BY <2>1, <2>3, <3>1 DEF Shift
    <3> QED BY <2>1, <2>2, <2>3, <3>1, <3>2 DEF LoadOK
  <2>4. slotOf'[work'[r][i].chunk] = work'[r][i].at BY <2>1, <2>2 DEF LoadOK
  <2> QED BY <2>3, <2>4 DEF LoadOK
<1>6. Guarded'
  <2> SUFFICES ASSUME pc \notin {"oom", "end"}, NEW r \in Worker, NEW i \in DOMAIN work'[r]
               PROVE  /\ KernelGuarded(work[r][i])'
                      /\ work'[r][i].op = "load" => LoadWanted(r, i)'
    BY DEF Guarded
  <2> DEFINE d == Shift(r, s)
  <2>1. i \in Nat /\ i + d \in DOMAIN work[r] /\ work'[r][i] = work[r][i + d] BY DEF MovesUp
  <2>2. /\ KernelGuarded(work[r][i + d])
        /\ work[r][i + d].op = "load" => LoadWanted(r, i + d)
    BY <2>1 DEF IInv, Guarded
  <2>3. KernelGuarded(work[r][i])' BY <2>1, <2>2 DEF KernelGuarded, UsedAfter
  <2>4. ASSUME work'[r][i].op = "load" PROVE LoadWanted(r, i)'
    <3>1. LoadWanted(r, i + d) BY <2>1, <2>2, <2>4
    <3>2. ASSUME NEW j \in DOMAIN work[r], j > i + d, work[r][j].op = "kernel",
                 work[r][i + d].chunk \in Range(ChunksOf(work[r][j].path))
          PROVE  LoadWanted(r, i)'
      <4>1. r # s \/ j > 1
        <5>1. CASE r = s
          <6>1. work[s] \in Seq(LoadOf \cup KernelOf) BY DEF IInv, DeviceTypeOK
          <6>2. j \in Nat /\ i + 1 \in DOMAIN work[s] /\ j > i + 1 BY <2>1, <3>2, <5>1, <6>1 DEF Shift
          <6> QED BY <2>1, <6>2
        <5> QED BY <5>1
      <4>2. j \in Nat /\ j - d \in DOMAIN work'[r] /\ work'[r][j - d] = work[r][j]
        BY <4>1 DEF MovesUp
      <4>3. j - d > i BY <2>1, <3>2, <4>2 DEF Shift
      <4> QED BY <2>1, <3>2, <4>2, <4>3 DEF LoadWanted
    <3>3. ASSUME pc \in {"acquire", "kernel"}, r = TheWorker,
                 \E x \in DOMAIN assigned : work[r][i + d].chunk = ChunksOf(cur)[x]
          PROVE  LoadWanted(r, i)'
      BY <2>1, <3>3 DEF LoadWanted, TheWorker
    <3> QED BY <3>1, <3>2, <3>3 DEF LoadWanted
  <2> QED BY <2>3, <2>4
<1> QED BY <1>1, <1>2, <1>3, <1>4, <1>5, <1>6

\* A load that runs leaves the rows of its chunk in the slot the chunk has.
LEMMA RunLoadInv == ASSUME IInv, NEW s \in Worker, RunLoad(s) PROVE IInv'
<1> DEFINE load == Head(work[s])
<1>1. /\ work[s] # <<>> /\ load.op = "load"
      /\ content' = [content EXCEPT ![load.at] = load.chunk]
      /\ work' = [work EXCEPT ![s] = Tail(@)]
      /\ UNCHANGED <<host, pool, merges>>
  BY DEF RunLoad
<1>2. MovesUp(s) /\ load = work[s][1] /\ 1 \in DOMAIN work[s] /\ load \in LoadOf \cup KernelOf
  BY <1>1, Dequeued DEF IInv
<1>3. load.chunk \in Chunk /\ load.at \in PoolSlot BY <1>1, <1>2 DEF LoadOf, KernelOf
<1>4. HostTypeOK' /\ PoolTypeOK' /\ PoolOK' /\ Acquiring' /\ Served' /\ Loaded' /\ Guarded'
  BY <1>1, <1>2, StreamMoves
<1>5. content \in [PoolSlot -> {None} \cup Chunk] /\ merges \in Seq(Path)
  BY DEF IInv, DeviceTypeOK
<1>6. DeviceTypeOK'
  <2>1. content' \in [PoolSlot -> {None} \cup Chunk] BY <1>1, <1>3, <1>5
  <2> QED BY <1>1, <1>2, <1>5, <2>1 DEF DeviceTypeOK, MovesUp
<1>7. slotOf[load.chunk] = load.at
  <2>1. LoadOK(s, 1) BY <1>2 DEF IInv, Loaded
  <2> QED BY <1>1, <1>2, <2>1 DEF LoadOK
<1>8. resident' = resident /\ slotOf' = slotOf BY <1>1 DEF pool
<1> HIDE DEF load
<1>9. Filled'
  <2> SUFFICES ASSUME NEW k \in Range(resident) PROVE content'[slotOf[k]] = k \/ OnItsWayTo(k)'
    BY <1>8 DEF Filled
  <2>1. slotOf[k] \in PoolSlot /\ (slotOf[k] = slotOf[load.chunk] => k = load.chunk)
    <3>1. load.chunk \in Range(resident) BY <1>3, <1>7, Numbers DEF IInv, PoolOK
    <3> QED BY <3>1 DEF IInv, PoolOK
  <2>2. CASE k = load.chunk BY <1>1, <1>3, <1>5, <1>7, <2>2
  <2>3. CASE k # load.chunk
    <3>1. content'[slotOf[k]] = content[slotOf[k]] BY <1>1, <1>5, <1>7, <2>1, <2>3
    <3>2. content[slotOf[k]] = k \/ OnItsWayTo(k) BY DEF IInv, Filled
    <3>3. ASSUME NEW r \in Worker, NEW i \in DOMAIN work[r],
                 work[r][i].op = "load", work[r][i].chunk = k
          PROVE  OnItsWayTo(k)'
      <4>1. work[r] \in Seq(LoadOf \cup KernelOf) BY DEF IInv, DeviceTypeOK
      <4>2. r # s \/ i > 1
        <5>1. i \in Nat /\ i >= 1 BY <4>1
        <5>2. r = s => i # 1 BY <1>2, <2>3, <3>3
        <5> QED BY <5>1, <5>2
      <4>3. i - Shift(r, s) \in DOMAIN work'[r] /\ work'[r][i - Shift(r, s)] = work[r][i]
        BY <1>2, <4>2 DEF MovesUp
      <4> QED BY <3>3, <4>3 DEF OnItsWayTo
    <3> QED BY <3>1, <3>2, <3>3 DEF OnItsWayTo
  <2> QED BY <2>2, <2>3
<1> QED BY <1>4, <1>6, <1>9 DEF IInv

\* A kernel that runs changes nothing in the pool.
LEMMA RunKernelInv == ASSUME IInv, NEW s \in Worker, RunKernel(s) PROVE IInv'
<1>1. /\ work[s] # <<>> /\ Head(work[s]).op = "kernel"
      /\ work' = [work EXCEPT ![s] = Tail(@)]
      /\ UNCHANGED <<host, pool, merges, content>>
  BY DEF RunKernel
<1>2. MovesUp(s) /\ Head(work[s]) = work[s][1] /\ 1 \in DOMAIN work[s]
  BY <1>1, Dequeued DEF IInv
<1>3. HostTypeOK' /\ PoolTypeOK' /\ PoolOK' /\ Acquiring' /\ Served' /\ Loaded' /\ Guarded'
  BY <1>1, <1>2, StreamMoves
<1>4. DeviceTypeOK' BY <1>1, <1>2 DEF IInv, DeviceTypeOK, MovesUp
<1>5. Filled'
  <2>1. ASSUME NEW k, NEW r \in Worker, NEW i \in DOMAIN work[r],
               work[r][i].op = "load", work[r][i].chunk = k
        PROVE  OnItsWayTo(k)'
    <3>1. work[r] \in Seq(LoadOf \cup KernelOf) BY DEF IInv, DeviceTypeOK
    <3>2. r # s \/ i > 1
      <4>1. i \in Nat /\ i >= 1 BY <3>1
      <4>2. r = s => i # 1 BY <1>1, <1>2, <2>1
      <4> QED BY <4>1, <4>2
    <3>3. i - Shift(r, s) \in DOMAIN work'[r] /\ work'[r][i - Shift(r, s)] = work[r][i]
      BY <1>2, <3>2 DEF MovesUp
    <3> QED BY <2>1, <3>3 DEF OnItsWayTo
  <2>2. \A k : OnItsWayTo(k) => OnItsWayTo(k)' BY <2>1 DEF OnItsWayTo
  <2>3. resident' = resident /\ slotOf' = slotOf /\ content' = content BY <1>1 DEF pool
  <2> QED BY <2>2, <2>3 DEF IInv, Filled
<1> QED BY <1>3, <1>4, <1>5 DEF IInv

\* A merge runs behind its kernel: no kernel loses the merge that guards its chunks.
LEMMA RunMergeInv == ASSUME IInv, RunMerge PROVE IInv'
<1>1. /\ merges # <<>> /\ merges' = Tail(merges) /\ UNCHANGED <<host, pool, work, content>>
      /\ \A s \in Worker : \A i \in DOMAIN work[s] :
           work[s][i].op = "kernel" => work[s][i].path # Head(merges)
  BY DEF RunMerge
<1>2. merges \in Seq(Path) /\ DeviceTypeOK BY DEF IInv, DeviceTypeOK
<1>3. /\ Tail(merges) \in Seq(Path) /\ Head(merges) = merges[1]
      /\ Len(merges) \in Nat /\ Len(merges) > 0 /\ Len(Tail(merges)) = Len(merges) - 1
      /\ DOMAIN Tail(merges) = 1 .. Len(merges) - 1
      /\ \A i \in 1 .. Len(merges) - 1 : Tail(merges)[i] = merges[i + 1]
  BY <1>1, <1>2, Dropped
<1> USE DEF host, pool
<1>4. HostTypeOK' BY <1>1 DEF IInv, HostTypeOK
<1>5. PoolTypeOK' /\ PoolOK' BY <1>1 DEF IInv, PoolTypeOK, PoolOK
<1>6. DeviceTypeOK' BY <1>1, <1>2, <1>3 DEF DeviceTypeOK
<1>7. Acquiring' BY <1>1 DEF IInv, Acquiring, HasAssigned
<1>8. Served' BY <1>1 DEF IInv, Served, KernelServed, HasAssigned
<1>9. Loaded' BY <1>1 DEF IInv, Loaded, LoadOK
<1>10. Filled' BY <1>1 DEF IInv, Filled, OnItsWayTo
<1>11. Guarded'
  <2> SUFFICES ASSUME pc \notin {"oom", "end"}, NEW s \in Worker, NEW i \in DOMAIN work[s]
               PROVE  /\ KernelGuarded(work[s][i])'
                      /\ work[s][i].op = "load" => LoadWanted(s, i)'
    BY <1>1 DEF Guarded
  <2>1. KernelGuarded(work[s][i]) /\ (work[s][i].op = "load" => LoadWanted(s, i))
    BY DEF IInv, Guarded
  <2>2. work[s][i].op = "load" => LoadWanted(s, i)' BY <1>1, <2>1 DEF LoadWanted, TheWorker
  <2>3. ASSUME work[s][i].op = "kernel", NEW n \in DOMAIN merges,
               merges[n] = work[s][i].path, UsedAfter(work[s][i].path, n)
        PROVE  KernelGuarded(work[s][i])'
    <3>1. n \in 1 .. Len(merges) /\ n # 1 BY <1>1, <1>2, <1>3, <2>3
    <3>2. n - 1 \in DOMAIN merges' /\ merges'[n - 1] = merges[n]
      <4>1. n - 1 \in 1 .. Len(merges) - 1 /\ (n - 1) + 1 = n BY <1>3, <3>1
      <4> QED BY <1>1, <1>3, <4>1
    <3>3. ASSUME NEW k \in Range(ChunksOf(work[s][i].path))
          PROVE  \E j \in n - 1 .. Len(merges') : lastUse'[k] = merges'[j]
      <4>1. PICK j \in n .. Len(merges) : lastUse[k] = merges[j] BY <2>3 DEF UsedAfter
      <4>2. j - 1 \in 1 .. Len(merges) - 1 /\ (j - 1) + 1 = j /\ j - 1 \in n - 1 .. Len(merges) - 1
        BY <1>3, <3>1, <4>1
      <4>3. merges'[j - 1] = merges[j] BY <1>1, <1>3, <4>2
      <4>4. j - 1 \in n - 1 .. Len(merges') BY <1>1, <1>3, <4>2
      <4> QED BY <1>1, <4>1, <4>3, <4>4
    <3>4. UsedAfter(work[s][i].path, n - 1)' BY <1>1, <3>3 DEF UsedAfter
    <3>5. merges'[n - 1] = work'[s][i].path BY <1>1, <2>3, <3>2
    <3> QED BY <1>1, <3>2, <3>5, <3>4 DEF KernelGuarded
  <2>4. KernelGuarded(work[s][i])' BY <1>1, <2>1, <2>3 DEF KernelGuarded
  <2> QED BY <2>2, <2>4
<1> QED BY <1>4, <1>5, <1>6, <1>7, <1>8, <1>9, <1>10, <1>11 DEF IInv

-----------------------------------------------------------------------------
(* The theorems. *)

\* Every step of the host and of the device keeps the invariant.
LEMMA NextInv == ASSUME IInv, [Next]_vars PROVE IInv'
<1>1. CASE PopTask BY <1>1, PopTaskInv
<1>2. CASE Upload BY <1>2, UploadInv
<1>3. CASE Hit BY <1>3, HitInv
<1>4. CASE TakeFree BY <1>4, TakeFreeInv
<1>5. CASE Evict BY <1>5, EvictInv
<1>6. CASE Exhausted \/ RunOut \/ GiveUp \/ Return BY <1>6, StopInv
<1>7. CASE Acquired BY <1>7, AcquiredInv
<1>8. CASE EnqueueKernel BY <1>8, EnqueueKernelInv
<1>9. CASE EnqueueMerge BY <1>9, EnqueueMergeInv
<1>10. CASE Halve BY <1>10, HalveInv
<1>11. CASE Split BY <1>11, SplitInv
<1>12. ASSUME NEW s \in Worker, RunLoad(s) \/ RunKernel(s) PROVE IInv'
  BY <1>12, RunLoadInv, RunKernelInv
<1>13. CASE RunMerge BY <1>13, RunMergeInv
<1>14. CASE UNCHANGED vars
  <2> USE <1>14 DEF vars, host, pool
  <2>1. DeviceTypeOK' /\ PoolOK' /\ Served' /\ Loaded' /\ Filled' BY DeviceAlone
  <2>2. HostTypeOK' /\ PoolTypeOK' BY DEF IInv, HostTypeOK, PoolTypeOK
  <2>3. Acquiring' BY DEF IInv, Acquiring, HasAssigned
  <2>4. Guarded' BY DEF IInv, Guarded, KernelGuarded, UsedAfter, LoadWanted, TheWorker, device
  <2> QED BY <2>1, <2>2, <2>3, <2>4 DEF IInv
<1> QED
  BY <1>1, <1>2, <1>3, <1>4, <1>5, <1>6, <1>7, <1>8, <1>9, <1>10, <1>11, <1>12, <1>13, <1>14
  DEF Next, Finished

\* acquire, release, eviction and recovery keep the books, the slots and the guards
\* of everything enqueued, for every number of streams and slots.
THEOREM Invariant == Spec => []IInv
<1> QED BY InitInv, NextInv, PTL DEF Spec

\* The pool's books balance in every state: each slot is on the free stack or belongs
\* to exactly one resident chunk (DeviceChunkPool).
THEOREM BooksBalance == Spec => []PoolOK
<1>1. IInv => PoolOK BY DEF IInv
<1> QED BY <1>1, Invariant, PTL

\* A top-level subproblem is the tokens of its chunks, one chunk after the other
\* (build_path_state).
LEMMA TopLevelTask ==
  ASSUME NEW p \in Path, Len(p) = 1
  PROVE  /\ Task(p).ids = FlattenSeq([i \in DOMAIN ChunksOf(p) |-> Segment(Root(N).ids, 1, ChunksOf(p)[i])])
         /\ \E T : Task(p).ids \in Seq(T)
<1>1. N \in Nat /\ TRUE \in BOOLEAN /\ 1 \in Nat \ {0} BY Numbers
<1>2. p \in [1 .. 1 -> Chunk] /\ p[1] \in Chunk BY DEF Path
<1>3. ASSUME NEW k \in Nat, k = 0, NEW srt, NEW al
      PROVE  AtPath(N, p, srt, al) = Child(Root(N), p[1], srt, al)
  <2>1. p \in [1 .. k + 1 -> Chunk] /\ k + 1 = 1 BY <1>2, <1>3
  <2>2. PICK none : none = [i \in 1 .. k |-> p[i]] OBVIOUS
  <2>3. /\ none \in [1 .. k -> Chunk]
        /\ AtPath(N, p, srt, al) = Child(AtPath(N, none, srt, al), p[k + 1], srt, al)
    BY <2>1, <2>2, AtPathStep
  <2>4. AtPath(N, none, srt, al) = Root(N) BY <1>3, <2>3, AtPathRoot
  <2> QED BY <2>1, <2>3, <2>4
<1>4. AtPath(N, p, TRUE, 1) = Child(Root(N), p[1], TRUE, 1)
  <2>1. \A srt, al : AtPath(N, p, srt, al) = Child(Root(N), p[1], srt, al) BY <1>3
  <2> QED BY <2>1
<1>5. Task(p) = Child(Root(N), p[1], TRUE, 1) BY <1>4 DEF Task
<1>6. WellFormed(Root(N), N, TRUE) BY <1>1, RootWellFormed
<1>7. WellFormed(Task(p), N, TRUE) BY <1>1, <1>2, <1>5, <1>6, ChildWellFormed
<1>8. Task(p).ids \in Seq(0 .. N - 1) BY <1>1, <1>7, WellFormedIs
<1>9. Task(p).ids =
        FlattenSeq([i \in DOMAIN GatherOrder(p[1], TRUE) |-> Segment(Root(N).ids, 1, GatherOrder(p[1], TRUE)[i])])
  BY <1>5 DEF Child
<1> QED BY <1>8, <1>9 DEF ChunksOf

\* The slots of a kernel at the head of its stream hold its chunks, unless one of them
\* is still being loaded on another stream.
LEMMA HeadFindsItsChunks ==
  ASSUME IInv, NEW s \in Worker, work[s] # <<>>, Head(work[s]).op = "kernel",
         NEW x \in DOMAIN Head(work[s]).where
  PROVE  /\ x \in DOMAIN ChunksOf(Head(work[s]).path)
         /\ ChunksOf(Head(work[s]).path)[x] \in Chunk
         /\ \/ content[Head(work[s]).where[x]] = ChunksOf(Head(work[s]).path)[x]
            \/ \E r \in Worker \ {s} : \E i \in DOMAIN work[r] :
                 /\ work[r][i].op = "load"
                 /\ work[r][i].at = Head(work[s]).where[x]
                 /\ work[r][i].chunk = ChunksOf(Head(work[s]).path)[x]
<1>1. PICK w : w = Head(work[s]) OBVIOUS
<1>2. /\ w \in LoadOf \cup KernelOf /\ w = work[s][1] /\ work[s] \in Seq(LoadOf \cup KernelOf)
      /\ 1 \in DOMAIN work[s]
  <2>1. work[s] \in Seq(LoadOf \cup KernelOf) BY DEF IInv, DeviceTypeOK
  <2>2. Head(work[s]) \in LoadOf \cup KernelOf /\ Head(work[s]) = work[s][1] /\ 1 \in DOMAIN work[s]
    BY <2>1, Dropped
  <2> QED BY <1>1, <2>1, <2>2
<1>3. w.path \in Path /\ w.where \in Seq(PoolSlot) BY <1>1, <1>2 DEF LoadOf, KernelOf
<1>4. KernelServed(w) BY <1>2 DEF IInv, Served
<1>5. PICK k : k = ChunksOf(w.path)[x] OBVIOUS
<1>6. x \in DOMAIN ChunksOf(w.path) /\ slotOf[k] = w.where[x]
  BY <1>1, <1>4, <1>5 DEF KernelServed, HasAssigned
<1>7. k \in Chunk /\ k \in Range(ChunksOf(w.path))
  BY <1>3, <1>5, <1>6, ChunksOfIs DEF Range
<1>8. w.where[x] \in PoolSlot BY <1>1, <1>3
<1>9. k \in Range(resident) BY <1>6, <1>7, <1>8, Numbers DEF IInv, PoolOK
<1>10. content[slotOf[k]] = k \/ OnItsWayTo(k) BY <1>9 DEF IInv, Filled
<1>11. ASSUME NEW r \in Worker, NEW i \in DOMAIN work[r], work[r][i].op = "load", work[r][i].chunk = k
       PROVE  r # s /\ work[r][i].at = w.where[x]
  <2>1. LoadOK(r, i) BY DEF IInv, Loaded
  <2>2. work[r][i].at = w.where[x] BY <1>6, <1>11, <2>1 DEF LoadOK
  <2>3. ASSUME r = s PROVE FALSE
    <3>1. i # 1 BY <1>1, <1>2, <1>11, <2>3
    <3>2. i \in DOMAIN work[s] /\ 1 < i BY <1>2, <2>3, <3>1
    <3>3. work[s][i].chunk \notin Range(ChunksOf(work[s][1].path))
      BY <1>1, <1>2, <1>11, <2>1, <2>3, <3>2 DEF LoadOK
    <3> QED BY <1>2, <1>7, <1>11, <2>3, <3>3
  <2> QED BY <2>2, <2>3
<1>12. \/ content[w.where[x]] = k
       \/ \E r \in Worker \ {s} : \E i \in DOMAIN work[r] :
            work[r][i].op = "load" /\ work[r][i].at = w.where[x] /\ work[r][i].chunk = k
  BY <1>6, <1>10, <1>11 DEF OnItsWayTo
<1> QED BY <1>1, <1>5, <1>6, <1>7, <1>12

\* When the slots hold the chunks of a top-level subproblem, the block map leads to
\* its tokens and to no other row.
LEMMA RowsAreItsTokens ==
  ASSUME NEW p \in Path, Len(p) = 1, NEW where \in Seq(PoolSlot),
         Len(where) = Len(ChunksOf(p)),
         \A x \in DOMAIN where : content[where[x]] = ChunksOf(p)[x]
  PROVE  RowsRead(p, where) = Task(p).ids
<1> DEFINE rows == FlattenSeq([i \in DOMAIN where |->
                     IF content[where[i]] = None THEN <<>>
                     ELSE Segment(Root(N).ids, 1, content[where[i]])])
           ids == Task(p).ids
<1>1. ChunksOf(p) \in Seq(Chunk) BY ChunksOfIs
<1>2. DOMAIN where = DOMAIN ChunksOf(p) BY <1>1
<1>3. \A i \in DOMAIN where : content[where[i]] # None /\ content[where[i]] = ChunksOf(p)[i]
  <2> SUFFICES ASSUME NEW i \in DOMAIN where
               PROVE  content[where[i]] # None /\ content[where[i]] = ChunksOf(p)[i]
    OBVIOUS
  <2>1. ChunksOf(p)[i] \in Chunk BY <1>1, <1>2
  <2> QED BY <2>1, Numbers
<1>4. [i \in DOMAIN where |->
         IF content[where[i]] = None THEN <<>> ELSE Segment(Root(N).ids, 1, content[where[i]])]
      = [i \in DOMAIN ChunksOf(p) |-> Segment(Root(N).ids, 1, ChunksOf(p)[i])]
  BY <1>2, <1>3
<1>5. rows = ids BY <1>4, TopLevelTask
<1>6. PICK T : ids \in Seq(T) BY TopLevelTask
<1>7. RowsRead(p, where) = SubSeq(rows, 1, Min({Len(rows), Len(ids)})) BY DEF RowsRead
<1> HIDE DEF rows, ids
<1>8. Min({Len(ids), Len(ids)}) = Len(ids)
  <2>1. Len(ids) \in Nat BY <1>6
  <2>2. \E m \in {Len(ids), Len(ids)} : \A y \in {Len(ids), Len(ids)} : m <= y BY <2>1
  <2> QED BY <2>2 DEF Min
<1>9. SubSeq(ids, 1, Len(ids)) = ids BY <1>6
<1> QED BY <1>5, <1>7, <1>8, <1>9 DEF ids

\* A kernel about to read finds the rows of its own tokens, for every length, number
\* of streams and number of slots, through every hit, eviction and recovery, except
\* for a refined subproblem and a chunk still loading on another stream (acquire,
\* last_event).
THEOREM OwnRowsServed == Spec => []ServedOwnRows
<1>1. IInv => ServedOwnRows
  <2> SUFFICES ASSUME IInv, NEW s \in Worker, work[s] # <<>>, Head(work[s]).op = "kernel",
                      ~ Len(Head(work[s]).path) > 1,
                      ~ \E r \in Worker \ {s} : \E i \in DOMAIN work[r] :
                          /\ work[r][i].op = "load"
                          /\ \E x \in DOMAIN Head(work[s]).where :
                               /\ work[r][i].at = Head(work[s]).where[x]
                               /\ work[r][i].chunk = ChunksOf(Head(work[s]).path)[x]
               PROVE  RowsRead(Head(work[s]).path, Head(work[s]).where) = Task(Head(work[s]).path).ids
    BY DEF ServedOwnRows
  <2>1. PICK w : w = Head(work[s]) OBVIOUS
  <2>2. w \in LoadOf \cup KernelOf /\ KernelServed(w)
    <3>1. work[s] \in Seq(LoadOf \cup KernelOf) BY DEF IInv, DeviceTypeOK
    <3>2. Head(work[s]) \in LoadOf \cup KernelOf /\ Head(work[s]) = work[s][1] /\ 1 \in DOMAIN work[s]
      BY <3>1, Dropped
    <3> QED BY <2>1, <3>2 DEF IInv, Served
  <2>3. w.path \in Path /\ w.where \in Seq(PoolSlot) BY <2>1, <2>2 DEF LoadOf, KernelOf
  <2>4. Len(w.path) = 1
    <3>1. PICK n : n = Len(w.path) OBVIOUS
    <3>2. n \in Nat /\ n # 0 BY <2>3, <3>1 DEF Path
    <3>3. ~ n > 1 BY <2>1, <3>1
    <3>4. n = 1 BY <3>2, <3>3
    <3> QED BY <3>1, <3>4
  <2>5. Len(w.where) = Len(ChunksOf(w.path)) BY <2>1, <2>2 DEF KernelServed
  <2>6. \A x \in DOMAIN w.where : content[w.where[x]] = ChunksOf(w.path)[x]
    BY <2>1, HeadFindsItsChunks
  <2> QED BY <2>1, <2>3, <2>4, <2>5, <2>6, RowsAreItsTokens
<1> QED BY <1>1, Invariant, PTL

=============================================================================
