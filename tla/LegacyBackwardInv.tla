-------------------------- MODULE LegacyBackwardInv --------------------------
(* The inductive invariant of LegacyBackward: where every path is, and how  *)
(* far a round has come.                                                    *)
EXTENDS LegacyBackward

TypeOK ==
  /\ schedule \in {"event", "round"}
  /\ pc \in {"submit", "collect", "harvest", "launch", "merge", "round", "fill", "wait", "end"}
  /\ k \in 1 .. InitialParallel
  /\ target \in 0 .. NumPaths
  /\ submitted \in 0 .. target
  /\ preparing \subseteq Path /\ prepared \subseteq preparing
  /\ ready \in Seq(Path)
  /\ inflight \in [Slot -> Path \cup {None}]
  /\ merging \in Seq(Path)
  /\ added \in [Path -> {0, 1}]
  /\ skipped \subseteq Path \cap Empty
  /\ launched \in Nat

-----------------------------------------------------------------------------

\* No path is twice in a queue or in two slots.
NoneTwice ==
  /\ IsInjective(ready) /\ IsInjective(merging)
  /\ \A s, t \in Slot : inflight[s] = inflight[t] => s = t \/ inflight[s] = None

\* The paths at each of the places a path goes through.
Holding ==
  [none      |-> submitted .. NumPaths - 1,
   preparing |-> preparing,
   ready     |-> Range(ready),
   inflight  |-> {inflight[s] : s \in Slot} \ {None},
   merging   |-> Range(merging),
   added     |-> {p \in Path : added[p] = 1},
   skipped   |-> skipped]

Place == {"none", "preparing", "ready", "inflight", "merging", "added", "skipped"}

\* Every path is at exactly one place.
OnePlaceEach(holding) ==
  \A p \in Path :
    \E x \in Place : p \in holding[x] /\ \A y \in Place : p \in holding[y] => y = x

\* In a round the slots are filled in order, and a round that launched nothing
\* although memory did not run out had nothing left to launch.
Rounds ==
  /\ pc \in {"collect", "harvest", "launch", "merge"} => schedule = "event"
  /\ pc \in {"round", "fill", "wait"} => schedule = "round"
  /\ schedule = "round" => merging = <<>>
  /\ pc \in {"submit", "round"} => \A s \in Slot : inflight[s] = None
  /\ pc \in {"fill", "wait"} =>
       launched <= k /\ \A s \in Slot : inflight[s] # None <=> s < launched
  /\ pc = "wait" /\ LastRound => NothingLeft

IInv ==
  /\ TypeOK
  /\ NoneTwice
  /\ OnePlaceEach(Holding)
  /\ Rounds
  /\ pc # "end" => outcome = "running"
  /\ MaxRounds = 0 => target = NumPaths
  /\ CompleteUnlessStranded

=============================================================================
