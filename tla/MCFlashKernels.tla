--------------------------- MODULE MCFlashKernels ---------------------------
(* FlashKernels with two warps on every shape of a few small lengths.      *)
EXTENDS FlashKernelsInv

TwoWarps == {0, 1}

Shape(tile, sq, sk, mode, even, window) ==
  [M |-> tile[1], N |-> tile[2], sq |-> sq, sk |-> sk, mode |-> mode, even |-> even,
   left |-> IF mode = "local" THEN window[1] ELSE 0,
   right |-> IF mode = "local" THEN window[2] ELSE 0]

\* Is_even_MN may be true only when the lengths are whole tiles, and is not
\* compiled for a local window.
Shapes(tile, lengths, modes) ==
  {x \in {Shape(tile, sq, sk, mode, even, window) :
            sq \in lengths, sk \in lengths, mode \in modes,
            even \in BOOLEAN, window \in {<<0, 1>>, <<2, 0>>}} :
     x.even => x.mode # "local" /\ x.sq % x.M = 0 /\ x.sk % x.N = 0}

\* Every mask, on tiles of one block of keys to one of queries, two to one, and
\* one to two; lengths that are whole tiles and lengths that are not.
MaskShapes ==
  Shapes(<<2, 2>>, {3, 6}, {"full", "causal", "local"})
  \cup Shapes(<<4, 2>>, {5, 8}, {"full", "causal"})
  \cup Shapes(<<2, 4>>, {5, 8}, {"full", "causal"})
  \cup Shapes(<<4, 4>>, {5, 8}, {"causal"})

\* Enough iterations for every buffer to be filled again.
PipelineShapes == {x \in Shapes(<<2, 2>>, {6}, {"full", "causal"}) : x.even}

With(x, kernel, block, traits, idx, num, bits) ==
  [M |-> x.M, N |-> x.N, sq |-> x.sq, sk |-> x.sk, mode |-> x.mode, even |-> x.even,
   left |-> x.left, right |-> x.right, kernel |-> kernel, block |-> block, traits |-> traits,
   idx |-> idx, num |-> num, bits |-> bits]

NoBits == <<>>

\* The group bits of a subsequence: one group that has the first half, and one
\* that has all but the middle.
TwoGroups(x) ==
  [i \in 0 .. x.sq - 1 |-> (IF i < x.sq \div 2 THEN {"g"} ELSE {})
                           \cup (IF i # x.sq \div 2 THEN {"h"} ELSE {})]
OneGroup(x) == [i \in 0 .. x.sq - 1 |-> IF i < x.sq - 2 THEN {"g"} ELSE {}]
ApartGroups(x) == [i \in 0 .. x.sq - 1 |-> IF i < 2 THEN {"g"} ELSE {"h"}]

Masks(x) == {NoBits} \cup IF x.sq = x.sk /\ x.mode # "local"
                          THEN {TwoGroups(x), OneGroup(x), ApartGroups(x)} ELSE {}

FwdLaunches(shapes, traits) ==
  UNION {{With(x, "fwd", m, t, 0, 1, bits) :
            m \in 0 .. (x.sq - 1) \div x.M, t \in traits, bits \in Masks(x)} : x \in shapes}

SplitLaunches(shapes, nums) ==
  UNION {{With(x, "split", m, "plain", idx, num, bits) :
            m \in 0 .. (x.sq - 1) \div x.M, idx \in 0 .. num - 1, bits \in Masks(x)} :
         x \in shapes, num \in nums}

BwdLaunches(shapes, traits) ==
  UNION {{With(x, "bwd", n, t, 0, 1, bits) :
            n \in 0 .. (x.sk - 1) \div x.N, t \in traits, bits \in Masks(x)} : x \in shapes}

SomeLaunches ==
  FwdLaunches(MaskShapes, {"plain"})
  \cup FwdLaunches(PipelineShapes, {"qregs", "share"})
  \cup SplitLaunches(Shapes(<<2, 2>>, {3, 6}, {"full", "causal"}), {1, 2, 3})
  \cup BwdLaunches(MaskShapes, {"double"})
  \cup BwdLaunches(PipelineShapes, {"single", "double_vregs", "single_vregs"})

=============================================================================
