------------------------ MODULE AttentionStatistics ------------------------
(***************************************************************************)
(* The statistics of one row of the attention, from the tiles of a kernel  *)
(* to the result of a call. A kernel keeps a running maximum, a sum and an *)
(* unnormalised output over its tiles (softmax.h). What becomes of the     *)
(* rows of several kernels depends on the mode:                            *)
(*   stable   StableAccumulator merges them one at a time, with recovery,  *)
(*   split    combine_attn_seqk_parallel combines the splits at once,      *)
(*   fused    cqsa_accum_out_lse_index adds them unshifted.                *)
(* V is taken to be the unit vectors (the output is linear in V): the      *)
(* output of a row is the weight of each key in it.                        *)
(***************************************************************************)
EXTENDS LogFractions, Sequences

CONSTANTS
  N,          \* the keys of the row, in the order in which kernels take them
  Scores,     \* the exponentials of the scores; Zero is a masked pair
  MaxParts,   \* the most kernel rows a call makes
  MaxFloat,   \* exp of the largest score that is representable
  MinDen,     \* what a denominator is clamped to: 1e-12 (fused), 1e-30 (stable)
  SplitKernels  \* whether the build has split kernels (CQSA_KERNEL_SET=full)

ASSUME StatisticsAssumption ==
  /\ N \in Nat \ {0} /\ MaxParts \in Nat \ {0} /\ Zero \in Scores
  /\ ~ Less(One, MinDen) /\ ~ Less(MaxFloat, One)
  /\ SplitKernels \in BOOLEAN

VARIABLES
  mode,    \* how the rows are put together
  score,   \* the score of each key
  at,      \* "kernel", "merge", "failed", "done" or "stopped"
  first,   \* the first key of the kernel's part
  next,    \* the first key the kernel has not seen
  row,     \* its registers: row_max, row_sum and acc_o
  parts,   \* the rows of the splits: [out, lse]
  accum,   \* the accumulator: [acc, l, m]
  new,     \* the values _merge is about to commit
  step,    \* how many of its three writes it has made
  dirty,   \* the accumulator's flag
  result   \* [out, lse] of the call

vars == <<mode, score, at, first, next, row, parts, accum, new, step, dirty, result>>

Keys == 1 .. N
Nothing == [k \in Keys |-> Zero]

\* acc_o is cleared, the statistics are registers without a value.
Fresh == [begun |-> FALSE, max |-> NaN, sum |-> NaN, out |-> Nothing]
Empty == [acc |-> Nothing, l |-> Zero, m |-> Zero]

Init ==
  /\ mode \in {"stable", "split", "fused"}
  /\ score \in [Keys -> Scores]
  /\ at = "kernel" /\ first = 1 /\ next = 1
  /\ row = Fresh /\ parts = <<>>
  /\ accum = Empty /\ new = Empty /\ step = 0 /\ dirty = FALSE
  /\ result = [out |-> Nothing, lse |-> Zero]

-----------------------------------------------------------------------------
(* The kernel.                                                             *)

\* slip: the maximum is used as it is
RawMax(max) == max

\* Scaling by exp(-inf - -inf) is avoided: a maximum of -inf counts as 0.
SafeMax(max) == IF max = Zero THEN One ELSE max

\* softmax_rescale_o, with Check_inf as the masked kernels have it.
Rescaled(tile) ==
  LET max == IF row.begun THEN Larger(row.max, Largest(score, tile)) ELSE Largest(score, tile)
      p == [k \in tile |-> Over(score[k], SafeMax(max))]
      scale == IF row.begun THEN Over(row.max, SafeMax(max)) ELSE One
  IN  [begun |-> TRUE,
       max |-> max,
       sum |-> Plus(IF row.begun THEN Times(row.sum, scale) ELSE Zero, Total(p, tile)),
       out |-> [k \in Keys |-> Plus(Times(row.out[k], scale), IF k \in tile THEN p[k] ELSE Zero)]]

Tile ==
  /\ at = "kernel"
  /\ \E last \in next .. N :
       /\ row' = Rescaled(next .. last)
       /\ next' = last + 1
  /\ UNCHANGED <<mode, score, at, first, parts, accum, new, step, dirty, result>>

\* slip: the first tile is skipped like any other
MaySkipFirst(tile) == \A k \in tile : score[k] = Zero

\* Only the second loop leaves out tiles that are masked wholly.
MaySkip(tile) == row.begun /\ \A k \in tile : score[k] = Zero

SkipTile ==
  /\ at = "kernel"
  /\ \E last \in next .. N : MaySkip(next .. last) /\ next' = last + 1
  /\ UNCHANGED <<mode, score, at, first, row, parts, accum, new, step, dirty, result>>

\* The kernel's log-sum-exp of a row without keys.
NoKeys == IF mode = "split" THEN Zero ELSE Inf

\* normalize_softmax_lse, and the early exit of a kernel that has no tile.
Normalized ==
  IF next = first \/ row.sum \in {Zero, NaN}
  THEN [out |-> row.out, lse |-> NoKeys]
  ELSE [out |-> [k \in Keys |-> Over(row.out[k], row.sum)], lse |-> Times(row.max, row.sum)]

-----------------------------------------------------------------------------
(* StableAccumulator.                                                      *)

LogIsFinite(x) == x[1] # 0 /\ x[2] # 0

\* slip: +inf, the kernel's sign for no keys, is taken for a maximum
RawValid(part) == part.lse # Zero

Valid(part) == LogIsFinite(part.lse)

\* _merge up to the commit.
Merged(part) ==
  LET local == IF Valid(part) THEN part.lse ELSE Zero
      m == Larger(accum.m, local)
      oldScale == IF LogIsFinite(accum.m) THEN Over(accum.m, m) ELSE Zero
      newScale == IF Valid(part) THEN Over(local, m) ELSE Zero
  IN  [m |-> m,
       l |-> Plus(Times(accum.l, oldScale), newScale),
       acc |-> [k \in Keys |-> Plus(Times(accum.acc[k], oldScale),
                                    IF Valid(part) THEN Times(part.out[k], newScale) ELSE Zero)]]

\* local_stats_flash returns the fp32 buffer, which only the kernel that is not
\* split writes (cqs_out_acc_ptr). Where there are split kernels the heuristic may
\* choose them, and the buffer holds what it was allocated with, say zeros.
Returned ==
  {Normalized} \cup IF SplitKernels THEN {[Normalized EXCEPT !.out = Nothing]} ELSE {}

MergeLse ==
  /\ at = "kernel" /\ mode = "stable" /\ (row.begun \/ next = first)
  /\ \E part \in Returned : new' = Merged(part)
  /\ at' = "merge" /\ step' = 0
  /\ UNCHANGED <<mode, score, first, next, row, parts, accum, dirty, result>>

\* The three index_copy_ of the commit, in order; then the next subproblem.
Commit ==
  /\ at = "merge"
  /\ accum' = CASE step = 0 -> [accum EXCEPT !.acc = new.acc]
                [] step = 1 -> [accum EXCEPT !.l = new.l]
                [] step = 2 -> [accum EXCEPT !.m = new.m]
  /\ step' = (step + 1) % 3
  /\ IF step = 2
     THEN at' = "kernel" /\ first' = next /\ row' = Fresh
     ELSE UNCHANGED <<at, first, row>>
  /\ UNCHANGED <<mode, score, next, parts, new, dirty, result>>

\* slip: the try does not cover the second write
CoveredLate == step = 2

\* The try of the commit covers the second and the third write.
Covered == step \in {1, 2}

\* Memory runs out before a write; a write that raises has written nothing.
MergeFails ==
  /\ at = "merge"
  /\ dirty' = (dirty \/ Covered)
  /\ at' = "failed"
  /\ UNCHANGED <<mode, score, first, next, row, parts, accum, new, step, result>>

\* The caller is interrupted after the first write, before the try.
Interrupted ==
  /\ at = "merge" /\ step = 1
  /\ at' = "stopped"
  /\ UNCHANGED <<mode, score, first, next, row, parts, accum, new, step, dirty, result>>

\* The recovery runs the subproblem again, or its children, unless the merge is torn.
Recover ==
  /\ at = "failed"
  /\ IF dirty
     THEN at' = "stopped" /\ UNCHANGED <<next, row, step>>
     ELSE at' = "kernel" /\ next' = first /\ row' = Fresh /\ step' = 0
  /\ UNCHANGED <<mode, score, first, parts, accum, new, dirty, result>>

Clamped(x) == Larger(x, MinDen)

\* output() and lse().
StableResult ==
  /\ at = "kernel" /\ mode = "stable" /\ first = N + 1
  /\ result' = [out |-> [k \in Keys |-> Over(accum.acc[k], Clamped(accum.l))],
                lse |-> IF LogIsFinite(accum.m) THEN Times(accum.m, Clamped(accum.l)) ELSE Zero]
  /\ at' = "done"
  /\ UNCHANGED <<mode, score, first, next, row, parts, accum, new, step, dirty>>

-----------------------------------------------------------------------------
(* Splits: every split writes its row, a second kernel combines them.      *)

WriteSplit ==
  /\ at = "kernel" /\ mode = "split" /\ (row.begun \/ next = first) /\ Len(parts) < MaxParts
  /\ parts' = Append(parts, Normalized)
  /\ first' = next /\ row' = Fresh
  /\ UNCHANGED <<mode, score, at, next, accum, new, step, dirty, result>>

LogSum(sum, max) == IF sum \in {Zero, NaN} THEN Inf ELSE Times(sum, max)

\* combine_attn_seqk_parallel
Combine ==
  /\ at = "kernel" /\ mode = "split" /\ first = N + 1 /\ parts # <<>>
  /\ LET lse == [i \in DOMAIN parts |-> parts[i].lse]
         max == SafeMax(Largest(lse, DOMAIN parts))
         sum == Total([i \in DOMAIN parts |-> Over(lse[i], max)], DOMAIN parts)
         logSum == LogSum(sum, max)
     IN  result' = [lse |-> logSum,
                    out |-> [k \in Keys |->
                       Total([i \in DOMAIN parts |-> Times(Over(lse[i], logSum), parts[i].out[k])],
                             DOMAIN parts)]]
  /\ at' = "done"
  /\ UNCHANGED <<mode, score, first, next, row, parts, accum, new, step, dirty>>

-----------------------------------------------------------------------------
(* The fused operator: sums without a maximum. accum.l is global_den.      *)

\* A float that is too large is infinite.
Rounded(x) == IF Less(MaxFloat, x) THEN Inf ELSE x

Counts(den) == LogIsFinite(den)

\* cqsa_accum_out_lse_index: a row whose weight is zero or infinite is left out.
AccumulateFused ==
  /\ at = "kernel" /\ mode = "fused" /\ (row.begun \/ next = first)
  /\ LET part == Normalized
         den == Rounded(part.lse)
     IN  accum' = IF Counts(den)
                  THEN [accum EXCEPT
                          !.acc = [k \in Keys |-> Rounded(Plus(@[k], Times(part.out[k], den)))],
                          !.l = Rounded(Plus(@, den))]
                  ELSE accum
  /\ first' = next /\ row' = Fresh
  /\ UNCHANGED <<mode, score, at, next, parts, new, step, dirty, result>>

\* The end of mha_fwd_cqsa_impl.
Divide ==
  /\ at = "kernel" /\ mode = "fused" /\ first = N + 1
  /\ result' = [lse |-> accum.l,
                out |-> [k \in Keys |->
                   IF accum.l = Zero THEN Zero ELSE Over(accum.acc[k], Clamped(accum.l))]]
  /\ at' = "done"
  /\ UNCHANGED <<mode, score, first, next, row, parts, accum, new, step, dirty>>

Next ==
  \/ Tile \/ SkipTile
  \/ MergeLse \/ Commit \/ MergeFails \/ Interrupted \/ Recover \/ StableResult
  \/ WriteSplit \/ Combine
  \/ AccumulateFused \/ Divide

Spec == Init /\ [][Next]_vars

-----------------------------------------------------------------------------

Numbers(x) == \A k \in Keys : x[k] \in Nat \X Nat

TypeOK ==
  /\ at \in {"kernel", "merge", "failed", "done", "stopped"}
  /\ first \in 1 .. N + 1 /\ next \in first .. N + 1 /\ step \in 0 .. 2
  /\ Numbers(row.out) /\ Numbers(accum.acc) /\ Numbers(result.out)
  /\ (at = "kernel" => (row.begun <=> first < next)) /\ Len(parts) <= MaxParts

\* Whatever tiles a kernel takes and leaves out, its statistics are those of the
\* keys it has seen: with the maximum put back, the sum is the sum of their
\* weights and the output is each one's weight. Rows and tiles without any key
\* leave zeros, never a NaN that a later tile would spread.
OnlineRowExact ==
  row.begun =>
    LET seen == first .. next - 1
        max == SafeMax(row.max)
    IN  /\ row.max = Largest(score, seen)
        /\ Times(row.sum, max) = Total(score, seen)
        /\ \A k \in Keys : Times(row.out[k], max) = IF k \in seen THEN score[k] ELSE Zero

\* The invariant StableAccumulator states: before a merge, and again whenever a
\* subproblem is about to run, also after a failure, exp(m) * acc and exp(m) * l
\* are the numerator and the denominator of exactly the parts merged so far. The
\* shift keeps l at 1 or more as soon as there is a key, so the clamp of l can
\* only meet rows that are empty.
AccumulatorExact ==
  mode = "stable" /\ at = "kernel" =>
    LET merged == 1 .. first - 1
    IN  /\ Times(accum.m, accum.l) = Total(score, merged)
        /\ \A k \in Keys : Times(accum.m, accum.acc[k]) = IF k \in merged THEN score[k] ELSE Zero
        /\ accum.l = Zero \/ ~ Less(accum.l, One)

\* The result of a call does not depend on how its keys were divided, merged and
\* retried: the output is the softmax over all keys, zero for a row without keys.
\* The unshifted sums of the fused operator promise it only when the sum of the
\* weights is a float and is not clamped.
OutputExact ==
  LET total == Total(score, Keys)
      inRange == mode = "fused" /\ total # Zero => ~ Less(total, MinDen) /\ ~ Less(MaxFloat, total)
  IN  at = "done" /\ inRange =>
        /\ result.lse = IF total = Zero /\ mode = "split" THEN Inf ELSE total
        /\ \A k \in Keys : result.out[k] = IF total = Zero THEN Zero ELSE Over(score[k], total)

=============================================================================
