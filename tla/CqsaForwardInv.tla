--------------------------- MODULE CqsaForwardInv ---------------------------
(***************************************************************************)
(* The inductive invariant behind CqsaForward's safety properties. The     *)
(* current stream's queue carries, call by call, a sum that is zeroed,     *)
(* added to and divided in that order; a side stream has the work of at    *)
(* most one path, because the host waits for it before it forks; and a     *)
(* block somebody is still to read holds what it was given for, unless the *)
(* histories say why not.                                                  *)
(***************************************************************************)
EXTENDS CqsaForward

ProduceOp(n)         == [op |-> "produce", call |-> n]
ZeroOp(n)            == [op |-> "zero", call |-> n]
AwaitOp(n, p)        == [op |-> "await", call |-> n, path |-> p]
AccumulateOp(n, p, b) == [op |-> "accumulate", call |-> n, path |-> p, block |-> b]
DivideOp(n)          == [op |-> "divide", call |-> n]
LocalOp(n, p, b)     == [op |-> "local", call |-> n, path |-> p, block |-> b]
RecordOp(n, p)       == [op |-> "record", call |-> n, path |-> p]

CurrentOp ==
  [op : {"produce", "zero", "divide"}, call : CallIds]
    \cup [op : {"await"}, call : CallIds, path : Live]
    \cup [op : {"accumulate"}, call : CallIds, path : Live, block : Blocks]

SideOp ==
  [op : {"local"}, call : CallIds, path : Live, block : Blocks]
    \cup [op : {"record"}, call : CallIds, path : Live]

Contents == [call : Nat, path : Nat, whole : BOOLEAN]
Staged == [path : Live, block : Blocks]
Whole(n, p) == [call |-> n, path |-> p, whole |-> TRUE]

-----------------------------------------------------------------------------
(* What the variables range over. *)

HostShape ==
  /\ host \in [at : {"idle", "fork", "join"}, call : 0 .. Calls,
               path : 0 .. NumPaths, profile : BOOLEAN]
  /\ streams \in Seq(Side) /\ lastUsed \in Nat
  /\ staged \in Seq(Staged)
  /\ host.at = "idle" => staged = <<>>
  /\ host.at # "idle" => host.call \in CallIds /\ streams # <<>>
  /\ block \in [Blocks -> [owner : Side \cup {Current}, free : BOOLEAN]]

DeviceShape ==
  /\ queue \in [Side \cup {Current} -> Seq(CurrentOp \cup SideOp)]
  /\ queue[Current] \in Seq(CurrentOp)
  /\ recorded \subseteq CallIds \X Live
  /\ holds \in [Blocks -> Contents]
  /\ produced \subseteq CallIds /\ late \subseteq CallIds
  /\ recycled \subseteq [old : CallIds, new : CallIds]
  /\ sum \in [CallIds -> Seq(Contents)]
  /\ result \in [CallIds -> Seq(Contents) \cup {Pending}]

-----------------------------------------------------------------------------
(* The side streams. *)

\* Stream s has the whole of a path's work before it, or only its event.
Doing(s, n, p, b) == queue[s] = <<LocalOp(n, p, b), RecordOp(n, p)>>
Finishing(s, n, p) == queue[s] = <<RecordOp(n, p)>>

Busy(s, n, p) == RecordOp(n, p) \in Range(queue[s])

\* The host has given path p of call n to its stream.
Forked(n, p) == n < host.call \/ (n = host.call /\ (host.at = "fork" => p < host.path))

SideStreams ==
  /\ \A s \in Side :
       \/ queue[s] = <<>>
       \/ \E n \in CallIds, p \in Live :
            /\ Forked(n, p) /\ <<n, p>> \notin recorded
            /\ Finishing(s, n, p) \/ \E b \in Blocks : Doing(s, n, p, b) /\ block[b].owner = s
  /\ \A s, t \in Side, n \in CallIds, p \in Live : Busy(s, n, p) /\ Busy(t, n, p) => s = t
  /\ \A n \in CallIds, p \in Live : <<n, p>> \in recorded => Forked(n, p)

-----------------------------------------------------------------------------
(* The current stream. *)

Rank(o) ==
  CASE o.op = "produce" -> 0 [] o.op = "zero" -> 1 [] o.op = "await" -> 2
    [] o.op = "accumulate" -> 3 [] OTHER -> 4

\* o may be run before u: call by call, and within a call in the order of its steps.
MayPrecede(o, u) ==
  \/ o.call < u.call
  \/ /\ o.call = u.call /\ Rank(o) <= Rank(u)
     /\ Rank(o) = Rank(u) => Rank(o) \in {2, 3}
     /\ Rank(o) = 3 /\ Rank(u) = 3 => o.path # u.path

Ordered(q) == \A i, j \in DOMAIN q : i < j => MayPrecede(q[i], q[j])

\* What of the call in hand cannot have been enqueued yet.
NotYet(o) ==
  /\ host.at = "fork" => o.op \in {"produce", "zero"}
  /\ host.at = "join" => o.op # "divide"

CurrentStream ==
  /\ Ordered(queue[Current])
  /\ \A o \in Range(queue[Current]) :
       o.call < host.call \/ (o.call = host.call /\ NotYet(o))
  /\ \A n \in CallIds, p \in Live, b \in Blocks :
       AccumulateOp(n, p, b) \in Range(queue[Current]) =>
         <<n, p>> \in recorded \/ AwaitOp(n, p) \in Range(queue[Current])

-----------------------------------------------------------------------------
(* The blocks. *)

\* staged_results holds a path only once, in a block of its own, and all of
\* the live paths so far.
StagedOnce ==
  /\ \A b \in Blocks : block[b].owner = Current => block[b].free
  /\ \A i \in DOMAIN staged : ~ block[staged[i].block].free
  /\ \A i, j \in DOMAIN staged :
       i # j => staged[i].block # staged[j].block /\ staged[i].path # staged[j].path
  /\ host.at = "fork" =>
       {staged[i].path : i \in DOMAIN staged} = {p \in Live : p < host.path}

Keeps(n, p, b) == n = host.call /\ [path |-> p, block |-> b] \in Range(staged)
Reads(n, p, b) == AccumulateOp(n, p, b) \in Range(queue[Current])

\* Nothing in the histories excuses call n.
Sound(n) == n \notin late /\ ~ \E r \in recycled : r.old = n /\ r.new > n

\* A block that is kept or still to be read is written by its own path, or by a
\* later call.
Exclusive ==
  \A s \in Side, m, n \in CallIds, p, q \in Live, b \in Blocks :
    Doing(s, m, q, b) =>
      /\ Keeps(n, p, b) => n = m /\ p = q
      /\ Reads(n, p, b) => (n = m /\ p = q) \/ n < m

\* ... and once its own path has written it, it holds that path.
Written ==
  \A n \in CallIds, p \in Live, b \in Blocks :
    (Keeps(n, p, b) \/ Reads(n, p, b)) /\ Sound(n) =>
      holds[b] = Whole(n, p) \/ \E s \in Side : Doing(s, n, p, b)

-----------------------------------------------------------------------------
(* The sums. *)

Due(n) == {p \in Live : \E b \in Blocks : Reads(n, p, b)}

\* Call n has enqueued its accumulations, and no exception has cut it short.
Committed(n) == DivideOp(n) \in Range(queue[Current]) \/ (host.at = "join" /\ host.call = n)

Ledger ==
  \A n \in CallIds : Committed(n) =>
    IF ZeroOp(n) \in Range(queue[Current])
    THEN Due(n) = Live
    ELSE Sound(n) => /\ Range(sum[n]) = {Whole(n, p) : p \in Live \ Due(n)}
                     /\ Len(sum[n]) = Cardinality(Live \ Due(n))

Opened ==
  host.at = "fork" => ZeroOp(host.call) \in Range(queue[Current]) \/ sum[host.call] = <<>>

-----------------------------------------------------------------------------

IInv ==
  /\ HostShape /\ DeviceShape
  /\ SideStreams /\ CurrentStream
  /\ StagedOnce /\ Exclusive /\ Written
  /\ Ledger /\ Opened
  /\ WrongOnlyIfLateOrRecycled

-----------------------------------------------------------------------------

\* A block that is written too early is never written for the call that reads it:
\* staged_results keeps the blocks of the call in hand, so only a call that begins
\* after it has returned can be given one of them.
OnlyLaterCallsOverwrite == \A r \in recycled : r.old < r.new

\* A call that returned a profile is over, the current stream has only later calls'
\* accumulations to run, and a block that was written too early was given either to
\* a call that had begun by then, or against one that had not.
Settled ==
  /\ profiled \subseteq CallIds
  /\ \A m \in profiled : m < host.call \/ (m = host.call /\ host.at = "idle")
  /\ \A m \in profiled, n \in CallIds, p \in Live, b \in Blocks : Reads(n, p, b) => m < n
  /\ \A r \in recycled : r.new <= host.call
  /\ \A m \in profiled, r \in recycled : r.new <= m \/ m < r.old

=============================================================================
