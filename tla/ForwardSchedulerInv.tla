------------------------ MODULE ForwardSchedulerInv ------------------------
(***************************************************************************)
(* The inductive invariant behind ForwardScheduler's safety properties.    *)
(* It has two halves.  The ledger says that the subproblems still to       *)
(* complete and those whose merge was issued cover the call and share no   *)
(* pair.  The pipeline says, for every slot, how far the one subproblem    *)
(* that owns it has come, and that what lies in its buffers is its own.    *)
(***************************************************************************)
EXTENDS ForwardScheduler

\* The subproblem being run has a slot of its own from its gather on.
InHand == pc \in {"copy", "kernel", "merge", "oom", "end"} /\ cur # NoTask

Owner(s) == IF InHand /\ s = TheSlot THEN cur ELSE slotDone[s]

-----------------------------------------------------------------------------
(* The ledger. *)

InMerges(t) == \E i \in DOMAIN merges[MergeStream] : merges[MergeStream][i].task = t

Issued == {t \in Task : acc[t] > 0 \/ InMerges(t)}

Held == {t \in Task : t = cur}

\* The ledger is kept until the call fails for good.
Accounted == ~ dirty /\ outcome \in {"running", "returned"}

Apart(t, u) == <<t, u>> \notin Kin

LedgerDisjoint ==
  /\ Unrelated(pending)
  /\ \A i \in DOMAIN pending : \A u \in Issued \cup Held : Apart(pending[i], u)
  /\ \A t \in Held, u \in Issued : Apart(t, u)
  /\ \A t, u \in Issued : t # u => Apart(t, u)

MergedOnce ==
  /\ \A t \in Task : acc[t] <= 1
  /\ \A t \in Task : InMerges(t) => acc[t] = 0
  /\ \A i, j \in DOMAIN merges[MergeStream] :
       merges[MergeStream][i].task = merges[MergeStream][j].task => i = j

LedgerCovers ==
  \A p \in Pairs :
    \/ \E i \in DOMAIN pending : p \in Keep[pending[i]]
    \/ \E t \in Issued \cup Held : p \in Keep[t]

\* Slots only remember subproblems whose merge was issued.
SlotsIssued == \A s \in Slot : slotDone[s] # NoTask => slotDone[s] \in Issued

\* No merge of the accumulator is based on a stale copy of it.
SnapshotFresh == snapshot[MergeStream] # <<>> => snapshot[MergeStream] = <<acc>>

Ledger ==
  Accounted => /\ LedgerDisjoint /\ MergedOnce /\ LedgerCovers
               /\ SlotsIssued /\ SnapshotFresh

-----------------------------------------------------------------------------
(* The pipeline. *)

CopyOf(t)   == [op |-> "copy", task |-> t]
KernelOf(t) == [op |-> "kernel", task |-> t]

Staged(s, t) == HostResident => staging[s] = t
Loaded(s, t) == ids[s] = t /\ input[s] = t

\* t's copy was enqueued on s.
Copying(s, t) ==
  \/ work[s] = <<CopyOf(t)>> /\ Staged(s, t)
  \/ work[s] = <<>> /\ Loaded(s, t)

\* t's kernel was enqueued on s.
Computing(s, t) ==
  \/ work[s] = <<CopyOf(t), KernelOf(t)>> /\ output[t] = NoTask /\ Staged(s, t)
  \/ work[s] = <<KernelOf(t)>> /\ output[t] = NoTask /\ Loaded(s, t)
  \/ work[s] = <<>> /\ output[t] = t /\ ids[s] = t

SlotInHand(s, t) ==
  /\ pc = "copy" => work[s] = <<>> /\ Staged(s, t)
  /\ pc = "kernel" => Copying(s, t)
  /\ pc = "merge" => Computing(s, t)
  /\ pc \in {"oom", "end"} => work[s] = <<>> \/ Copying(s, t) \/ Computing(s, t)

SlotLeft(s) ==
  IF slotDone[s] = NoTask THEN work[s] = <<>> ELSE Computing(s, slotDone[s])

Pipeline == \A s \in Slot : IF InHand /\ s = TheSlot THEN SlotInHand(s, cur) ELSE SlotLeft(s)

OwnersDiffer ==
  \A r, s \in Slot : Owner(r) # NoTask /\ Owner(r) = Owner(s) => r = s

OwnOutput == \A t \in Task : output[t] \in {NoTask, t}

\* A queued merge belongs to the subproblem that last used its slot, and that
\* slot is not in hand.
MergeQueue ==
  /\ \A m \in Stream : m # MergeStream => merges[m] = <<>> /\ snapshot[m] = <<>>
  /\ ~ AccOnGpu => merges[MergeStream] = <<>>
  /\ \A i \in DOMAIN merges[MergeStream] :
       LET e == merges[MergeStream][i]
       IN  slotDone[e.slot] = e.task /\ (InHand => e.slot # TheSlot)
  /\ snapshot[MergeStream] # <<>> =>
       /\ merges[MergeStream] # <<>>
       /\ output[Head(merges[MergeStream]).task] # NoTask

-----------------------------------------------------------------------------

\* What the host holds in hand, and how a call can have ended.
Control ==
  /\ pc \in {"setup", "pop"} => cur = NoTask
  /\ outcome = "running" <=> pc # "end"
  /\ dirty => pc \in {"oom", "end"} /\ outcome # "returned"
  /\ outcome = "returned" => pending = <<>> /\ cur = NoTask /\ Synchronized

\* What the streams do, whatever becomes of the call.
Flow == Pipeline /\ OwnersDiffer /\ OwnOutput /\ MergeQueue /\ garbled = {}

\* The inductive invariant of the scheduling loop of stream_cqsa_forward: the
\* ledger balances, the pipelines carry only their owner's data, and nothing
\* foreign was merged.
IInv == TypeOK /\ Control /\ Ledger /\ Flow

\* Memory ran out where it may: what recovery answers is a failure of the
\* subproblem in hand on the streams there are.
FailedHere == pc = "oom" => MayRunOut

\* Beyond the streams that are left no slot is waited for: slot_done shrinks
\* with them.
SlotsInUse == \A s \in Slot : slotDone[s] # NoTask => s < streams

\* While there are streams to give up, everything there is of the call, what
\* the merge stream is about to write included, is of the depth it started at.
TopLevelOnly ==
  streams > 1 =>
    /\ \A i \in DOMAIN pending : Depth[pending[i]] = Itr
    /\ cur # NoTask => Depth[cur] = Itr
    /\ \A i \in DOMAIN merges[MergeStream] : Depth[merges[MergeStream][i].task] = Itr
    /\ \A t \in Task : acc[t] > 0 => Depth[t] = Itr
    /\ snapshot[MergeStream] # <<>> =>
         \A t \in Task : snapshot[MergeStream][1][t] > 0 => Depth[t] = Itr

=============================================================================
