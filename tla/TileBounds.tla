----------------------------- MODULE TileBounds -----------------------------
(***************************************************************************)
(* Which blocks of keys a block of queries visits in the forward kernels   *)
(* (flash_fwd_kernel.h), and which blocks of queries a block of keys       *)
(* visits in the backward kernel (flash_bwd_kernel.h).                     *)
(*                                                                         *)
(* A shape x gives the tile (M, N), the lengths (sq, sk), the kind of mask *)
(* (mode: "full", "causal" or "local") with its window (left, right), and  *)
(* whether the lengths are known to be whole tiles (even: Is_even_MN).     *)
(***************************************************************************)
EXTENDS Integers

\* What the launch templates call a kernel with: of the two sides of a tile one
\* divides the other, only a local window has a right side, and the lengths are
\* known to be whole tiles only where there is no local window.
ValidShape(x) ==
  /\ {x.M, x.N, x.sq, x.sk} \subseteq Nat \ {0}
  /\ x.M % x.N = 0 \/ x.N % x.M = 0
  /\ x.mode \in {"full", "causal", "local"} /\ x.even \in BOOLEAN
  /\ {x.left, x.right} \subseteq Nat
  /\ x.mode # "local" => x.right = 0
  /\ x.even => x.mode # "local" /\ x.sq % x.M = 0 /\ x.sk % x.N = 0

\* Integer division of C++, which truncates.
CDiv(a, b) == IF a >= 0 THEN a \div b ELSE - ((- a) \div b)

\* cute::ceil_div
CeilDiv(a, b) == CDiv(a + b - 1, b)

Lesser(a, b) == IF a < b THEN a ELSE b
Greater(a, b) == IF a < b THEN b ELSE a

-----------------------------------------------------------------------------
(* Forward: the block m of queries visits NBlockMin .. NBlockMax - 1.      *)

NBlockMin(x, m) ==
  IF x.mode # "local" THEN 0
  ELSE Greater(0, CDiv(m * x.M + x.sk - x.sq - x.left, x.N))

NBlockMax(x, m) ==
  LET all == CeilDiv(x.sk, x.N)
  IN  IF x.mode = "full" THEN all
      ELSE Lesser(all, CeilDiv((m + 1) * x.M + x.sk - x.sq + x.right, x.N))

\* slip: lengths that end inside a tile need no extra masking step
StepsForEvenLengths(x) == IF x.mode = "full" THEN 1 ELSE CeilDiv(x.M, x.N)

\* n_masking_steps: the iterations that mask the scores, from the last block down.
MaskingSteps(x) ==
  CASE x.mode = "full"               -> 1
    [] x.mode = "causal" /\ x.even   -> CeilDiv(x.M, x.N)
    [] OTHER                         -> CeilDiv(x.M, x.N) + 1

-----------------------------------------------------------------------------
(* Split-KV: the blocks of keys are divided over num CTAs.                 *)

BlocksPerSplit(x, num) == (CeilDiv(x.sk, x.N) + num - 1) \div num

SplitMin(x, m, idx, num) == Greater(idx * BlocksPerSplit(x, num), NBlockMin(x, m))

SplitMax(x, m, idx, num) == Lesser((idx + 1) * BlocksPerSplit(x, num), NBlockMax(x, m))

-----------------------------------------------------------------------------
(* Backward: the block n of keys visits MBlockMin .. MBlockMax - 1.        *)

MBlockMax(x, n) ==
  LET all == CeilDiv(x.sq, x.M)
  IN  IF x.mode # "local" THEN all
      ELSE Lesser(all, CeilDiv((n + 1) * x.N + x.sq - x.sk + x.left, x.M))

MBlockMin(x, n) ==
  IF x.mode = "full" THEN 0
  ELSE Greater(0, CDiv(n * x.N + x.sq - x.sk - x.right, x.M))

-----------------------------------------------------------------------------
(* The pairs themselves. Rows and columns count from 0; a causal mask is   *)
(* aligned to the last row and column (mask.h).                            *)

\* What Mask::apply_mask<Is_causal, Is_even_MN> leaves of the pair <<i, j>>.
Unmasked(x, i, j) ==
  CASE x.mode = "full"   -> x.even \/ j < x.sk
    [] x.mode = "causal" -> j < Lesser(x.sk, i + 1 + x.sk - x.sq + x.right)
    [] x.mode = "local"  -> /\ j < Lesser(x.sk, i + 1 + x.sk - x.sq + x.right)
                            /\ j >= Greater(0, i + x.sk - x.sq - x.left)

\* What apply_mask<false> leaves in the second loop: of the masks only the window.
UnmaskedLater(x, i, j) == x.mode = "local" => Unmasked(x, i, j)

\* Attention's own definition of the pairs a mask keeps.
Attends(x, i, j) ==
  /\ i \in 0 .. x.sq - 1
  /\ j \in 0 .. x.sk - 1
  /\ x.mode # "full" => j - i <= x.sk - x.sq + x.right
  /\ x.mode = "local" => j - i >= x.sk - x.sq - x.left

=============================================================================
