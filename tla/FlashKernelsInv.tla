-------------------------- MODULE FlashKernelsInv --------------------------
(***************************************************************************)
(* Why no warp of FlashKernels reads what is not there: the discipline     *)
(* with which the code of a kernel uses shared memory, place by place, and *)
(* the inductive invariant that follows from it when several warps run     *)
(* that code at their own pace.                                            *)
(***************************************************************************)
EXTENDS FlashKernels

-----------------------------------------------------------------------------
(* One place, along the code.                                              *)

\* What a place may be given.
TileSet == [name : {"nothing", "Q", "K", "V", "O", "dO", "P", "dS", "dK", "dV"}, at : Int]

\* What is known of a place between two instructions:
\*   tile    the tile written to it last, `copied` from global memory or put there;
\*   use     what was done with it since a barrier of all warps: nothing ("idle"),
\*           "read", or "written", which a copy stays until it was waited for;
\*   age     of a copy still in flight, how many commits there were since; or -1;
\*   depth   how many groups of copies are outstanding.
PlaceStates ==
  {a \in [tile : TileSet, copied : BOOLEAN, use : {"idle", "read", "written"},
          age : -1 .. 2, depth : 0 .. 2] :
     /\ a.age <= a.depth
     /\ a.age >= 0 => a.use = "written" /\ a.copied}

Fresh == [tile |-> Nothing, copied |-> FALSE, use |-> "idle", age |-> -1, depth |-> 0]

Writes(l, p, ins) == ins.op \in {"load", "put"} /\ p \in Places(l, ins.buf)
Reads(l, p, ins) == ins.op \in {"use", "userows", "fetch"} /\ p \in Places(l, ins.buf)

\* What is known after an instruction.
After(l, p, ins, a) ==
  [tile   |-> IF Writes(l, p, ins) THEN ins.tile ELSE a.tile,
   copied |-> IF Writes(l, p, ins) THEN ins.op = "load" ELSE a.copied,
   use    |-> IF Writes(l, p, ins) THEN "written"
              ELSE IF Reads(l, p, ins) THEN "read"
              ELSE IF ins.op = "sync" /\ a.age < 0 THEN "idle"
              ELSE a.use,
   age    |-> IF Writes(l, p, ins) THEN IF ins.op = "load" THEN 0 ELSE -1
              ELSE IF ins.op = "commit" /\ a.age >= 0 THEN a.age + 1
              ELSE IF ins.op = "wait" /\ a.age > ins.n THEN -1
              ELSE a.age,
   depth  |-> IF ins.op = "commit" THEN a.depth + 1
              ELSE IF ins.op = "wait" /\ a.depth > ins.n THEN ins.n
              ELSE a.depth]

\* The discipline: a barrier between any use of a place and the next write, and
\* between a write, or the end of a copy, and the next read; no read but of the
\* tile that is meant; no third group of copies.
Allowed(l, p, ins, a) ==
  /\ ins.op \in {"load", "put", "use", "userows", "fetch"} => ins.buf \in Buffers
  /\ Writes(l, p, ins) => a.use = "idle" /\ ins.tile \in TileSet
  /\ Reads(l, p, ins) => a.use # "written" /\ ins.tile = a.tile
  /\ ins.op = "commit" => a.depth < 2
  /\ ins.op = "wait" => ins.n \in Nat

\* What is known of place p after each prefix of the code s.
Known(l, p, s) ==
  LET known[k \in 0 .. Len(s)] == IF k = 0 THEN Fresh ELSE After(l, p, s[k], known[k - 1])
  IN  known

Disciplined(l, p, s) == \A k \in 1 .. Len(s) : Allowed(l, p, s[k], Known(l, p, s)[k - 1])

-----------------------------------------------------------------------------
(* Several warps that run the code.                                        *)

\* What warp w knows of place p.
View(w, p) == Known(launch, p, code[w])[pc[w] - 1]

NoSync(s, from, to) == \A k \in from .. to : s[k].op # "sync"

\* Between two barriers the warps are in the same part of the code s; a warp that
\* is one barrier ahead is held there. One warp is at i, the other at k, after m and
\* n barriers.
Between(s, i, m, k, n) ==
  /\ m = n /\ i <= k => NoSync(s, i, k - 1)
  /\ m < n => /\ n = m + 1 /\ i < k
              /\ NoSync(s, i, k - 2) /\ s[k - 1].op = "sync"

InStep == \A v, w \in Warps : Between(code[v], pc[v], barrier[v], pc[w], barrier[w])

Covered(l, copies, p) == \E load \in copies : p \in Places(l, load.buf)

\* The copies to place p that a warp has issued and committed are those that a tells of.
CopiesKnown(l, p, a, issued, committed) ==
  LET outstanding == Len(committed)
  IN  /\ a.depth = outstanding
      /\ a.age = 0 <=> Covered(l, issued, p)
      /\ \A g \in 1 .. outstanding : a.age = outstanding - g + 1 <=> Covered(l, committed[g], p)
      /\ \A load \in issued \cup UNION Range(committed) :
           p \in Places(l, load.buf) => load.tile = a.tile

\* What a cell holds: one warp, which knows a, makes the copies that reach it, and
\* another, which knows b, computes what else is put there. The one that is ahead
\* (they are at i and j) knows which of the two came last.
Held(a, b, i, j) ==
  IF ~ (IF i >= j THEN a.copied ELSE b.copied) THEN b.tile
  ELSE IF a.age >= 0 THEN InFlight
  ELSE a.tile

Contents(p, c, r) == Held(View(c, p), View(r, p), pc[c], pc[r])

RaceInv ==
  /\ launch \in Launches
  /\ code = [w \in Warps |-> Code(launch, w)]
  /\ pc \in [Warps -> Nat] /\ barrier \in [Warps -> Nat]
  /\ \A w \in Warps : pc[w] \in 1 .. Len(code[w]) + 1 /\ barrier[w] < pc[w]
  /\ InStep
  /\ DOMAIN open = Warps /\ DOMAIN groups = Warps
  /\ \A w \in Warps : /\ open[w] \subseteq Range(code[w])
                      /\ groups[w] \in Seq(SUBSET Range(code[w]))
                      /\ \A p \in AllPlaces : CopiesKnown(launch, p, View(w, p), open[w], groups[w])
  /\ smem = [p \in AllPlaces |-> [x \in Cells |-> Contents(p, x[1], x[2])]]

=============================================================================
