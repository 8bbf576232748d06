--------------------------- MODULE LegacyBackward ---------------------------
(***************************************************************************)
(* streamed_backward_phase (streamed_fwd_bwd.py), the backward behind       *)
(* stream_cqsa_autograd.  A pool of threads prepares the inputs of paths,   *)
(* the calling thread launches what is prepared on free slots, one stream   *)
(* to a slot, and adds what has come back to the global gradients.  Out of  *)
(* memory at a launch, the path goes back to the head of the queue and one  *)
(* slot fewer is used.                                                      *)
(*                                                                          *)
(* There are two schedulers.  "event" polls slots, preparations and merges  *)
(* in turn; "round" fills the slots, waits for all of them and merges.      *)
(* A path is its index in processed_paths; what is computed is left out.    *)
(***************************************************************************)
EXTENDS Integers, SequencesExt

CONSTANTS
  NumPaths,     \* len(processed_paths)
  Empty,        \* the paths without tokens
  MaxParallel,  \* max_parallel_subseq_bwd
  MaxRounds,    \* max_rounds, 0 for None
  Schedules,    \* the schedule_modes to consider
  Eager,        \* eager_prepare_all
  None

ASSUME LegacyParameters ==
  /\ NumPaths \in Nat \ {0} /\ MaxParallel \in Nat \ {0} /\ MaxRounds \in Nat
  /\ Empty \subseteq 0 .. NumPaths - 1
  /\ Schedules \subseteq {"event", "round"}
  /\ Eager \in BOOLEAN
  /\ None \notin 0 .. NumPaths - 1

Path == 0 .. NumPaths - 1

\* max_parallel_current at the start.
InitialParallel == Min({MaxParallel, NumPaths})

Slot == 0 .. InitialParallel - 1

VARIABLES
  schedule,   \* schedule_mode
  pc,         \* what the calling thread does next
  k,          \* max_parallel_current
  target,     \* target_paths
  submitted,  \* prep_submit_idx
  preparing,  \* prep_pending: the paths handed to the pool, and
  prepared,   \* those of them it has finished
  ready,      \* prep_ready
  inflight,   \* inflight[s]: the path launched on slot s
  landed,     \* the slots whose ev_d2h_end has come
  merging,    \* pending_merge
  added,      \* added[p]: how often p's gradients were added
  skipped,    \* paths_skipped
  launched,   \* in a round: the number of slots filled
  oomInRound, \* oom_in_round
  outcome     \* how the call ended

control == <<schedule, pc, oomInRound, outcome, launched>>
preps   == <<submitted, preparing, prepared, ready>>
slots   == <<inflight, landed>>
sums    == <<merging, added, skipped>>
vars    == <<control, k, target, preps, slots, sums>>

RoundBased(j) == IF MaxRounds = 0 THEN NumPaths ELSE Min({NumPaths, MaxRounds * j})

Init ==
  /\ schedule \in Schedules
  /\ pc = "submit"
  /\ k = InitialParallel
  /\ target = RoundBased(InitialParallel)
  /\ submitted = 0 /\ preparing = {} /\ prepared = {} /\ ready = <<>>
  /\ inflight = [s \in Slot |-> None] /\ landed = {}
  /\ merging = <<>> /\ added = [p \in Path |-> 0] /\ skipped = {}
  /\ launched = 0 /\ oomInRound = FALSE
  /\ outcome = "running"

Done == Cardinality({p \in Path : added[p] > 0})

Active == {s \in 0 .. k - 1 : inflight[s] # None}

-----------------------------------------------------------------------------
(* Preparation. *)

PrefetchLimit == IF Eager THEN target ELSE Max({2, k + 2})

\* _submit_more_prepared, after `taken` entries of ready are gone and `busy`
\* slots are in use.
SubmitMore(now, queue, busy) ==
  LET room == Max({0, PrefetchLimit - Cardinality(now) - Len(queue) - busy})
      next == Max({submitted, Min({target, submitted + room})})
  IN  /\ submitted' = next
      /\ preparing' = now \cup (submitted .. next - 1)

\* The pool's threads finish in any order.
Prepare(p) ==
  /\ p \in preparing \ prepared
  /\ prepared' = prepared \cup {p}
  /\ UNCHANGED <<control, k, target, submitted, preparing, ready, slots, sums>>

\* _harvest_prepared: everything that is finished, in any order.
Harvested(order) ==
  /\ order \in SetToSeqs(prepared)
  /\ prepared' = {}

-----------------------------------------------------------------------------
(* Launching, and what comes back. *)

Land(s) ==
  /\ inflight[s] # None /\ s \notin landed
  /\ landed' = landed \cup {s}
  /\ UNCHANGED <<control, k, target, preps, inflight, sums>>

Collect(from) ==
  /\ inflight' = [s \in Slot |-> IF s \in from THEN None ELSE inflight[s]]
  /\ landed' = landed \ from

\* slip: the failed path is not put back
Dropped(p) == Tail(ready)

Requeued(p) == ready

\* _set_target_paths
TargetFor(j) == Max({Done, submitted, RoundBased(j)})

\* _pop_ready_prepared passes over what lies beyond the target.
InReach == {i \in DOMAIN ready : ready[i] < target}

Rest == IF InReach = {} THEN <<>> ELSE SubSeq(ready, Min(InReach) + 1, Len(ready))

Popped(p) == InReach # {} /\ p = ready[Min(InReach)]

Skip(p) ==
  /\ p \in Empty
  /\ skipped' = skipped \cup {p}
  /\ ready' = Rest
  /\ UNCHANGED <<k, target, prepared, slots, merging, added>>

Launch(p, s) ==
  /\ p \notin Empty
  /\ inflight' = [inflight EXCEPT ![s] = p]
  /\ ready' = Rest
  /\ UNCHANGED <<k, target, prepared, landed, sums>>

\* Memory may run out at any launch.
Downscale(p) ==
  /\ p \notin Empty
  /\ k > 1
  /\ k' = k - 1
  /\ target' = TargetFor(k - 1)
  /\ ready' = Requeued(p)
  /\ UNCHANGED <<submitted, preparing, prepared, inflight, sums>>

RunOut(p) ==
  /\ p \notin Empty
  /\ k = 1
  /\ outcome' = "oom"
  /\ pc' = "end"
  /\ UNCHANGED <<schedule, oomInRound, launched, k, target, preps, slots, sums>>

FirstSubmit ==
  /\ pc = "submit"
  /\ SubmitMore(preparing, ready, 0)
  /\ pc' = IF schedule = "event" THEN "collect" ELSE "round"
  /\ UNCHANGED <<schedule, oomInRound, outcome, launched, k, target, prepared, ready,
                 slots, sums>>

-----------------------------------------------------------------------------
(* The event scheduler. *)

\* No work is left that the loop looks at.
Idle ==
  /\ Active = {} /\ merging = <<>> /\ preparing = {} /\ ready = <<>>
  /\ submitted >= target

EventEnd ==
  /\ pc = "collect" /\ Idle
  /\ outcome' = "returned"
  /\ pc' = "end"
  /\ UNCHANGED <<schedule, oomInRound, launched, k, target, preps, slots, sums>>

EventCollect ==
  /\ pc = "collect" /\ ~ Idle
  /\ LET back == Active \cap landed
     IN  /\ Collect(back)
         /\ \E order \in SetToSeqs(back) :
              /\ \A i, j \in DOMAIN order : i < j => order[i] < order[j]
              /\ merging' = merging \o [i \in DOMAIN order |-> inflight[order[i]]]
  /\ pc' = "harvest"
  /\ UNCHANGED <<schedule, oomInRound, outcome, launched, k, target, preps, added, skipped>>

EventHarvest ==
  /\ pc = "harvest"
  /\ \E order \in SetToSeqs(prepared) :
       /\ Harvested(order)
       /\ ready' = ready \o order
       /\ SubmitMore(preparing \ prepared, ready \o order, Cardinality(Active))
  /\ pc' = "launch"
  /\ UNCHANGED <<schedule, oomInRound, outcome, launched, k, target, slots, sums>>

FreeSlots == {s \in 0 .. k - 1 : inflight[s] = None}

EventLaunch ==
  /\ pc = "launch" /\ FreeSlots # {}
  /\ \E p \in Path :
       /\ Popped(p)
       /\ \/ /\ Skip(p) /\ SubmitMore(preparing, Rest, Cardinality(Active))
             /\ UNCHANGED control
          \/ /\ Launch(p, Min(FreeSlots))
             /\ SubmitMore(preparing, Rest, Cardinality(Active) + 1)
             /\ UNCHANGED control
          \/ /\ Downscale(p)
             /\ landed' = {s \in Slot : inflight[s] # None}    \* torch.cuda.synchronize
             /\ pc' = "merge"
             /\ UNCHANGED <<schedule, oomInRound, outcome, launched>>
          \/ RunOut(p)

EventLaunched ==
  /\ pc = "launch"
  /\ FreeSlots = {} \/ InReach = {}
  /\ ready' = IF FreeSlots = {} THEN ready ELSE <<>>
  /\ pc' = "merge"
  /\ UNCHANGED <<schedule, oomInRound, outcome, launched, k, target, submitted, preparing,
                 prepared, slots, sums>>

EventMerge ==
  /\ pc = "merge"
  /\ IF merging = <<>> THEN UNCHANGED <<merging, added>>
     ELSE /\ added' = [added EXCEPT ![Head(merging)] = @ + 1]
          /\ merging' = Tail(merging)
  /\ pc' = "collect"
  /\ UNCHANGED <<schedule, oomInRound, outcome, launched, k, target, preps, slots, skipped>>

-----------------------------------------------------------------------------
(* The round scheduler. *)

RoundStart ==
  /\ pc = "round"
  /\ launched' = 0 /\ oomInRound' = FALSE
  /\ IF Done + Cardinality(skipped) < target
       THEN /\ pc' = "fill"
            /\ SubmitMore(preparing, ready, 0)
            /\ UNCHANGED outcome
       ELSE /\ pc' = "end" /\ outcome' = "returned"
            /\ UNCHANGED <<submitted, preparing>>
  /\ UNCHANGED <<schedule, k, target, prepared, ready, slots, sums>>

\* slip: fill every slot, whether or not paths are left for them
AllFilled == launched = k

NothingLeft == preparing = {} /\ ready = <<>> /\ submitted >= target

Filled == launched = k \/ NothingLeft

\* Nothing is ready: what the pool has finished is taken over.
RoundHarvest ==
  /\ pc = "fill" /\ launched < k
  /\ ready = <<>>
  /\ \E order \in SetToSeqs(prepared) :
       /\ Harvested(order)
       /\ ready' = order
       /\ SubmitMore(preparing \ prepared, order, Cardinality(Active))
  /\ UNCHANGED <<control, k, target, slots, sums>>

RoundLaunch ==
  /\ pc = "fill" /\ launched < k
  /\ \E p \in Path :
       /\ Popped(p)
       /\ \/ /\ Skip(p) /\ SubmitMore(preparing, Rest, Cardinality(Active))
             /\ UNCHANGED control
          \/ /\ Launch(p, launched)
             /\ IF launched + 1 = k
                  THEN UNCHANGED <<submitted, preparing>>
                  ELSE SubmitMore(preparing, Rest, Cardinality(Active) + 1)
             /\ launched' = launched + 1
             /\ UNCHANGED <<schedule, pc, oomInRound, outcome>>
          \/ /\ Downscale(p)
             /\ oomInRound' = TRUE
             /\ pc' = "wait"
             /\ UNCHANGED <<schedule, outcome, launched, landed>>
          \/ RunOut(p)

RoundFilled ==
  /\ pc = "fill" /\ Filled
  /\ pc' = "wait"
  /\ UNCHANGED <<schedule, oomInRound, outcome, launched, k, target, preps, slots, sums>>

\* slip: a round that launched nothing is the last
EmptyEnds == launched = 0

\* A round that launched nothing, and not for want of memory, is the last.
LastRound == launched = 0 /\ ~ oomInRound

RoundEnd ==
  /\ pc = "wait"
  /\ LET filled == 0 .. launched - 1
     IN  /\ filled \subseteq landed
         /\ Collect(filled)
         /\ added' = [p \in Path |->
                        added[p] + Cardinality({s \in filled : inflight[s] = p})]
  /\ IF LastRound THEN pc' = "end" /\ outcome' = "returned"
                  ELSE pc' = "round" /\ UNCHANGED outcome
  /\ UNCHANGED <<schedule, oomInRound, launched, k, target, preps, merging, skipped>>

-----------------------------------------------------------------------------

MainNext ==
  \/ FirstSubmit
  \/ EventEnd \/ EventCollect \/ EventHarvest \/ EventLaunch \/ EventLaunched \/ EventMerge
  \/ RoundStart \/ RoundHarvest \/ RoundLaunch \/ RoundFilled \/ RoundEnd

Finished == pc = "end" /\ UNCHANGED vars

Next ==
  \/ MainNext
  \/ \E p \in Path : Prepare(p)
  \/ \E s \in Slot : Land(s)
  \/ Finished

\* Calling thread, pool and streams all go on as long as there is work.
Spec ==
  /\ Init /\ [][Next]_vars
  /\ WF_vars(MainNext)
  /\ \A p \in Path : WF_vars(Prepare(p))
  /\ \A s \in Slot : WF_vars(Land(s))

-----------------------------------------------------------------------------

\* The path a slot is left with when k falls below it: the event loop looks at
\* the first k slots only.
Stranded == {inflight[s] : s \in {t \in k .. InitialParallel - 1 : inflight[t] # None}}

\* Requeueing, downscaling and the target that moves with it: a path handed to
\* the pool is in exactly one place until its gradients are added, once.
Conservation ==
  \A p \in 0 .. submitted - 1 :
    (IF p \in preparing THEN 1 ELSE 0) + Cardinality({i \in DOMAIN ready : ready[i] = p})
      + Cardinality({s \in Slot : inflight[s] = p})
      + Cardinality({i \in DOMAIN merging : merging[i] = p})
      + added[p] + (IF p \in skipped THEN 1 ELSE 0) = 1

\* What a call returns: the gradients of every path up to the target, except
\* those the event scheduler has left in a slot it gave up.
CompleteUnlessStranded ==
  outcome = "returned" =>
    /\ \A p \in 0 .. target - 1 : added[p] = 1 \/ p \in Empty \/ p \in Stranded
    /\ schedule = "round" => Stranded = {}
    /\ MaxRounds = 0 => target = NumPaths

\* Both loops end: no poll waits for what can no longer come.
Terminates == <>(pc = "end")

=============================================================================
