------------------------ MODULE RefinementTree_proofs ------------------------
(* The decomposition loses no pair and doubles none, neither do the tiles  *)
(* that apply its masks, and the second implementation of it computes the  *)
(* same: theorems of RefinementTree, TileMask and FusedPaths, for every    *)
(* perfect difference set, number of tokens, alignment, depth, path, size  *)
(* of blocks and shape of tiles. At the end, the bounds within which       *)
(* recovery refines: theorems of RecoveryLoop and EscalationLadder, for    *)
(* every budget, cap and number of rungs.                                  *)
EXTENDS TileMask, FusedPaths, EscalationLadder, QuorumDecomposition_proofs

-----------------------------------------------------------------------------
(* The type invariant. *)

\* The subproblem at hand is one build_path_state could have made.
LEMMA TreeTypeIs ==
  TreeTypeOK <=> /\ n \in Lengths /\ sorted \in BOOLEAN /\ align \in Aligns
             /\ WellFormed(task, n, sorted)
<1>1. n \in Lengths => n \in Nat BY LengthsAreNat
<1> QED BY <1>1, WellFormedIs DEF TreeTypeOK

\* The whole call is well-formed.
LEMMA TreeInitType == TreeInit => TreeTypeOK
<1> SUFFICES ASSUME TreeInit PROVE TreeTypeOK OBVIOUS
<1>1. /\ n \in Lengths /\ sorted \in BOOLEAN /\ align \in Aligns /\ task = Root(n) /\ n \in Nat
  BY LengthsAreNat DEF TreeInit
<1>2. WellFormed(Root(n), n, sorted) BY <1>1, RootWellFormed
<1> QED BY <1>1, <1>2, TreeTypeIs

\* A child of a well-formed subproblem is well-formed (refine_task).
LEMMA TreeNextType == TreeTypeOK /\ [TreeNext]_treeVars => TreeTypeOK'
<1> SUFFICES ASSUME TreeTypeOK, [TreeNext]_treeVars PROVE TreeTypeOK' OBVIOUS
<1>1. CASE TreeNext
  <2>1. /\ n' = n /\ sorted' = sorted /\ align' = align
        /\ task' \in Range(Children(task, sorted, align))
    BY <1>1 DEF TreeNext, Refine
  <2>2. /\ n \in Nat /\ sorted \in BOOLEAN /\ align \in Nat \ {0} /\ align \in Aligns
        /\ n \in Lengths /\ WellFormed(task, n, sorted)
    BY TreeTypeIs, LengthsAreNat
  <2>3. PICK m \in Nat : \E own \in [1 .. m -> Chunk] : OwnedBy(task, sorted, align, m, own)
    BY <2>2, ChildrenAre
  <2>4. PICK own \in [1 .. m -> Chunk] :
          Children(task, sorted, align) = [i \in 1 .. m |-> Child(task, own[i], sorted, align)]
    BY <2>3 DEF OwnedBy
  <2>5. PICK i \in 1 .. m : task' = Child(task, own[i], sorted, align) BY <2>1, <2>4 DEF Range
  <2>6. own[i] \in Chunk OBVIOUS
  <2>7. WellFormed(Child(task, own[i], sorted, align), n, sorted) BY <2>2, <2>6, ChildWellFormed
  <2>8. PICK kid : kid = Child(task, own[i], sorted, align) OBVIOUS
  <2>9. /\ n' \in Lengths /\ sorted' \in BOOLEAN /\ align' \in Aligns
        /\ WellFormed(task', n', sorted')
    BY <2>1, <2>2, <2>5, <2>7
  <2>10. n' \in Nat BY <2>1, <2>2
  <2> QED BY <2>9, <2>10, WellFormedIs DEF TreeTypeOK
<1>2. CASE UNCHANGED treeVars BY <1>2 DEF treeVars, TreeTypeOK
<1> QED BY <1>1, <1>2

\* Every subproblem that recovery can reach holds distinct tokens of the call, in
\* increasing order when the gather is sorted (build_path_state's condition for
\* a local lower-triangular mask to be the causal one), and its bits are those of
\* tokens it holds.
THEOREM TreeTypeCorrect == TreeSpec => []TreeTypeOK
BY TreeInitType, TreeNextType, PTL DEF TreeSpec

-----------------------------------------------------------------------------
(* The children partition the pairs of their parent. *)

\* One step down: what OneChild says of every pair, for the children of the task at hand.
LEMMA PartitionHolds == TreeTypeOK => ChildrenPartition
<1> SUFFICES ASSUME TreeTypeOK PROVE ChildrenPartition OBVIOUS
<1>1. /\ n \in Nat /\ sorted \in BOOLEAN /\ align \in Nat \ {0} /\ WellFormed(task, n, sorted)
  BY TreeTypeIs, LengthsAreNat
<1>2. PICK m \in Nat : \E own \in [1 .. m -> Chunk] : OwnedBy(task, sorted, align, m, own)
  BY <1>1, ChildrenAre
<1>3. PICK own \in [1 .. m -> Chunk] :
        /\ Children(task, sorted, align) = [i \in 1 .. m |-> Child(task, own[i], sorted, align)]
        /\ \A i, j \in 1 .. m : own[i] = own[j] => i = j
        /\ \A o \in Chunk : (\E i \in 1 .. m : own[i] = o) <=> Child(task, o, sorted, align).ids # <<>>
  BY <1>2 DEF OwnedBy
<1> DEFINE K(o) == Kept(Child(task, o, sorted, align), FALSE)
           kids == Children(task, sorted, align)
           kept == [i \in DOMAIN kids |-> Kept(kids[i], FALSE)]
<1>4. DOMAIN kids = 1 .. m /\ \A i \in 1 .. m : kept[i] = K(own[i]) BY <1>3
<1>5. \A p : /\ \A o \in Chunk : p \in K(o) => p \in Kept(task, FALSE)
             /\ p \in Kept(task, FALSE) =>
                  \E o \in Chunk : p \in K(o) /\ \A q \in Chunk : p \in K(q) => q = o
  <2> SUFFICES ASSUME NEW p
               PROVE  /\ \A o \in Chunk : p \in K(o) => p \in Kept(task, FALSE)
                      /\ p \in Kept(task, FALSE) =>
                           \E o \in Chunk : p \in K(o) /\ \A q \in Chunk : p \in K(q) => q = o
    OBVIOUS
  <2>1. KeptOnce(task, sorted, align, FALSE, p) BY <1>1, OneChild
  <2> QED BY <2>1 DEF KeptOnce
<1>6. ASSUME NEW o \in Chunk, NEW p \in K(o) PROVE \E i \in 1 .. m : own[i] = o
  <2>1. p[1] \in Range(Child(task, o, sorted, align).ids) BY <1>6 DEF Kept
  <2>2. Child(task, o, sorted, align).ids # <<>> BY <2>1 DEF Range
  <2> QED BY <2>2, <1>3
<1> HIDE DEF K, kids
<1>7. \A i \in 1 .. m : own[i] \in Chunk OBVIOUS
<1>8. UNION Range(kept) = Kept(task, FALSE)
  <2>1. \A p : p \in UNION Range(kept) <=> \E i \in 1 .. m : p \in K(own[i])
    <3>1. DOMAIN kept = 1 .. m BY <1>4
    <3> HIDE DEF kept
    <3> QED BY <3>1, <1>4 DEF Range
  <2>2. \A p : (\E i \in 1 .. m : p \in K(own[i])) <=> p \in Kept(task, FALSE)
    BY <1>5, <1>6, <1>7
  <2> QED BY <2>1, <2>2
<1>9. \A i, j \in 1 .. m : i # j => kept[i] \cap kept[j] = {}
  <2> SUFFICES ASSUME NEW i \in 1 .. m, NEW j \in 1 .. m, i # j, NEW p, p \in kept[i], p \in kept[j]
               PROVE  FALSE
    OBVIOUS
  <2>1. p \in K(own[i]) /\ p \in K(own[j]) /\ own[i] \in Chunk /\ own[j] \in Chunk BY <1>4
  <2>2. own[i] = own[j] BY <2>1, <1>5
  <2> QED BY <2>2, <1>3
<1>10. /\ UNION Range(kept) = Kept(task, FALSE)
       /\ \A i, j \in DOMAIN kids : i # j => kept[i] \cap kept[j] = {}
  BY <1>4, <1>8, <1>9
<1> QED BY <1>10 DEF ChildrenPartition, kids

\* refine_task replaces a subproblem by children that keep its pairs and no
\* other, no two of them the same one, whatever the chunk layout, the gather order
\* and the depth, and with any perfect difference set.
THEOREM Partition == TreeSpec => []ChildrenPartition
<1>1. TreeTypeOK => ChildrenPartition BY PartitionHolds
<1> QED BY <1>1, TreeTypeCorrect, PTL

-----------------------------------------------------------------------------
(* The leaves of a uniform decomposition. *)

\* All the way down: what LeavesCoverOnce says, for the call at hand.
LEMMA CoverageHolds == TreeTypeOK => PairCoverage
<1> SUFFICES ASSUME TreeTypeOK PROVE PairCoverage OBVIOUS
<1>1. n \in Nat /\ sorted \in BOOLEAN /\ align \in Nat \ {0} BY TreeTypeIs, LengthsAreNat
<1>2. ASSUME NEW itr \in 0 .. MaxDepth(n), NEW causal \in BOOLEAN
      PROVE  LeavesCover(n, itr, sorted, align, causal)
  <2>1. itr \in Nat OBVIOUS
  <2> QED BY <1>1, <2>1, LeavesCoverOnce
<1> QED BY <1>2 DEF PairCoverage, LeavesCover

\* check_pair_coverage for every perfect difference set, number of tokens,
\* alignment, gather order and depth: every target pair is kept by exactly one of
\* the subproblems that build_tasks returns, and none keeps another pair.
THEOREM Coverage == TreeSpec => []PairCoverage
<1>1. TreeTypeOK => PairCoverage BY CoverageHolds
<1> QED BY <1>1, TreeTypeCorrect, PTL

-----------------------------------------------------------------------------
(* Progress of refinement. *)

\* Down to the deepest level, a subproblem holds a token for every chunk of it.
Filled ==
  align = 1 =>
    \A deepest, left \in Nat :
      deepest = MaxDepth(n) /\ deepest = Len(task.path) + left => Power(left) <= Len(task.ids)

\* The whole call is that long.
LEMMA InitFilled == TreeInit => Filled
<1> SUFFICES ASSUME TreeInit, NEW deepest \in Nat, NEW left \in Nat,
                    deepest = MaxDepth(n), deepest = Len(task.path) + left
             PROVE  Power(left) <= Len(task.ids)
  BY DEF Filled
<1>1. n \in Nat \ {0} /\ task = Root(n) BY LengthsAreNat DEF TreeInit
<1>2. task.path = <<>> /\ task.ids = [i \in 1 .. n |-> i - 1] BY <1>1 DEF Root
<1>3. Len(task.path) = 0 BY <1>2
<1>4. Len(task.ids) = n
  <2>1. PICK ids : ids = [i \in 1 .. n |-> i - 1] OBVIOUS
  <2>2. ids \in Seq(Int) /\ DOMAIN ids = 1 .. n
    <3>1. ids \in [1 .. n -> Int] BY <2>1
    <3> QED BY <3>1, <1>1, SeqDef
  <2>3. Len(ids) \in Nat /\ DOMAIN ids = 1 .. Len(ids) BY <2>2, LenProperties
  <2>4. Len(ids) = n BY <2>2, <2>3, <1>1
  <2> QED BY <2>1, <2>4, <1>2
<1>5. left = deepest BY <1>3
<1>6. Power(deepest) <= n BY <1>1, MaxDepthIs
<1> QED BY <1>4, <1>5, <1>6

\* A subproblem that may be refined, and a child of it: c times the child's share
\* of the tokens is no more than the parent's.
LEMMA ShareOfChild ==
  ASSUME TreeTypeOK, Filled, align = 1, Len(task.path) < MaxDepth(n), NEW o \in Chunk
  PROVE  \E left \in Nat :
           /\ MaxDepth(n) = Len(task.path) + left + 1
           /\ Power(left) \in Nat \ {0} /\ c * Power(left) <= Len(task.ids)
<1>1. n \in Nat \ {0} /\ task.path \in Seq(Chunk) BY LengthsAreNat DEF TreeTypeOK
<1>2. PICK deepest \in Nat, len \in Nat : deepest = MaxDepth(n) /\ len = Len(task.path)
  BY <1>1, MaxDepthIs, LenProperties
<1>3. PICK left \in Nat : deepest = len + left + 1
  <2>1. deepest - len - 1 \in Nat /\ deepest = len + (deepest - len - 1) + 1 BY <1>2
  <2> QED BY <2>1
<1>4. left + 1 \in Nat /\ deepest = len + (left + 1) BY <1>3
<1>5. Power(left + 1) <= Len(task.ids) BY <1>2, <1>4 DEF Filled
<1>6. Power(left + 1) = c * Power(left) BY PowerSteps
<1>7. Power(left) \in Nat \ {0} BY PowerIsNat
<1> QED BY <1>2, <1>3, <1>5, <1>6, <1>7

\* chunk_layout fills the chunks from the front, a block for each before it gives
\* one of them a second.
LEMMA EarlyChunksFilled ==
  ASSUME NEW len \in Nat, NEW al \in Nat \ {0}, NEW k \in Chunk, k < len \div al
  PROVE  ChunkSize(len, al)[k] \in Nat \ {0}
<1> c \in Nat \ {0} /\ Chunk = 0 .. c - 1 BY ChunksAre
<1>1. PICK b \in Nat, tail \in Nat : b = len \div al /\ tail = len % al /\ len = al * b + tail
  <2>1. len \div al \in Nat /\ len % al \in 0 .. al - 1 /\ len = al * (len \div al) + (len % al)
    BY Division
  <2> QED BY <2>1
<1>2. PICK q \in Nat, r \in 0 .. c - 1 : q = b \div c /\ r = b % c /\ b = c * q + r
  <2>1. b \div c \in Nat /\ b % c \in 0 .. c - 1 /\ b = c * (b \div c) + (b % c) BY Division
  <2> QED BY <2>1
<1>3. k < b BY <1>1
<1>4. q = 0 => k < r BY <1>2, <1>3
<1>5. CASE al = 1
  <2>1. b = len
    <3>1. len % al \in 0 .. al - 1 BY Division
    <3> QED BY <1>1, <1>5, <3>1
  <2>2. ChunkSize(len, al)[k] = q + (IF k < r THEN 1 ELSE 0)
    BY <1>2, <1>5, <2>1 DEF ChunkSize, EvenSize
  <2> QED BY <1>4, <2>2
<1>6. CASE al # 1
  <2>1. ~ (al <= 1) BY <1>6
  <2>2. PICK whole \in Nat : whole = q * al /\ (q # 0 => whole # 0)
    <3>1. q * al \in Nat OBVIOUS
    <3>2. ASSUME q # 0 PROVE q * al # 0
      <4>1. PICK e \in Nat : q = e + 1
        <5>1. q - 1 \in Nat /\ q = (q - 1) + 1 BY <3>2
        <5> QED BY <5>1
      <4>2. q * al = e * al + al /\ e * al \in Nat BY <4>1
      <4> QED BY <4>2
    <3> QED BY <3>1, <3>2
  <2>3. AlignedSize(len, al, k) = IF k = c - 1 THEN whole + (IF k < r THEN al ELSE 0) + tail
                                  ELSE whole + (IF k < r THEN al ELSE 0)
    BY <1>1, <1>2, <2>2 DEF AlignedSize
  <2>4. ChunkSize(len, al)[k] = AlignedSize(len, al, k) BY <2>1 DEF ChunkSize
  <2> QED BY <1>4, <2>2, <2>3, <2>4
<1> QED BY <1>5, <1>6

\* Among more chunks than a quorum has, one is not gathered.
LEMMA QuorumMisses ==
  ASSUME NEW blocks \in Nat, blocks > Len(interest_set), NEW o \in Chunk
  PROVE  \E k \in Chunk : k < blocks /\ ~ Gathers(o, k)
<1> c \in Nat \ {0} /\ Chunk = 0 .. c - 1 BY ChunksAre
<1> SUFFICES ASSUME \A k \in Chunk : k < blocks => Gathers(o, k) PROVE FALSE
  OBVIOUS
<1>1. PICK l \in Nat : l = Len(interest_set) /\ DOMAIN interest_set = 1 .. l
  <2>1. interest_set \in Seq(Nat) BY PerfectDifferenceSet DEF PerfectDifferenceSet
  <2> QED BY <2>1, LenProperties
<1>2. blocks < c
  <2> SUFFICES ASSUME c <= blocks PROVE FALSE OBVIOUS
  <2>1. \A k \in Chunk : Gathers(o, k) OBVIOUS
  <2> QED BY <2>1, Ungathered
<1>3. PICK f : f = [i \in 1 .. l |-> (o + interest_set[i]) % c] OBVIOUS
<1>4. PICK G : G = Range(f) OBVIOUS
<1>5. f \in Surjection(1 .. l, G)
  <2>1. f \in [1 .. l -> G] BY <1>3, <1>4 DEF Range
  <2>2. \A v \in G : \E i \in 1 .. l : f[i] = v BY <1>3, <1>4 DEF Range
  <2> QED BY <2>1, <2>2 DEF Surjection
<1>6. IsFiniteSet(1 .. l) /\ Cardinality(1 .. l) = l
  <2>1. 1 \in Int /\ l \in Int OBVIOUS
  <2>2. IsFiniteSet(1 .. l) /\ Cardinality(1 .. l) = IF 1 > l THEN 0 ELSE l - 1 + 1
    BY <2>1, FS_Interval
  <2> QED BY <2>2
<1>7. IsFiniteSet(0 .. l) /\ Cardinality(0 .. l) = l + 1
  <2>1. 0 \in Int /\ l \in Int OBVIOUS
  <2>2. IsFiniteSet(0 .. l) /\ Cardinality(0 .. l) = IF 0 > l THEN 0 ELSE l - 0 + 1
    BY <2>1, FS_Interval
  <2> QED BY <2>2
<1>8. IsFiniteSet(G) /\ Cardinality(G) <= l BY <1>5, <1>6, FS_Surjection
<1>9. ASSUME NEW k \in 0 .. l PROVE k \in G
  <2>1. k \in Chunk /\ k < blocks BY <1>1, <1>2
  <2>2. PICK d \in Offsets : k = (o + d) % c BY <2>1 DEF Gathers
  <2>3. PICK i \in 1 .. l : d = interest_set[i] BY <1>1 DEF Offsets, Range
  <2>4. f[i] = k BY <1>3, <2>2, <2>3
  <2> QED BY <1>5, <2>4 DEF Surjection
<1>10. Cardinality(0 .. l) <= Cardinality(G)
  <2>1. 0 .. l \in SUBSET G BY <1>9
  <2> QED BY <1>8, <2>1, FS_Subset
<1>11. Cardinality(G) \in Nat BY <1>8, FS_CardinalityType
<1> QED BY <1>7, <1>8, <1>10, <1>11

\* A child has only tokens of its parent, each once, and when the parent has more
\* whole blocks than a quorum has chunks it leaves some of them out.
LEMMA ChildIsPart ==
  ASSUME NEW len \in Nat, NEW srt \in BOOLEAN, NEW t, WellFormed(t, len, srt),
         NEW al \in Nat \ {0}, NEW o \in Chunk
  PROVE  /\ Len(Child(t, o, srt, al).ids) <= Len(t.ids)
         /\ Len(t.ids) \div al > Len(interest_set) => Len(Child(t, o, srt, al).ids) < Len(t.ids)
<1>1. PICK T \in SUBSET Nat : T = 0 .. len - 1 BY TokensAre
<1>2. PICK ids \in Seq(T) : ids = t.ids /\ Pairwise(ids, Apart) BY <1>1 DEF WellFormed
<1>3. PICK kid \in Seq(T) :
        /\ kid = Child(t, o, srt, al).ids
        /\ \A a : a \in Range(kid) <=> \E k \in Chunk : Gathers(o, k) /\ a \in Range(Segment(ids, al, k))
        /\ Pairwise(kid, Apart)
  <2>1. /\ Child(t, o, srt, al).ids \in Seq(T)
        /\ \A a : a \in Range(Child(t, o, srt, al).ids) <=>
                    \E k \in Chunk : Gathers(o, k) /\ a \in Range(Segment(t.ids, al, k))
        /\ Pairwise(Child(t, o, srt, al).ids, Apart)
    BY <1>2, ChildIds
  <2> QED BY <1>2, <2>1
<1>4. PICK all \in Nat, few \in Nat : all = Len(ids) /\ few = Len(kid) BY LenProperties
<1>5. /\ IsFiniteSet(Range(ids)) /\ Cardinality(Range(ids)) = all
      /\ IsFiniteSet(Range(kid)) /\ Cardinality(Range(kid)) = few
  BY <1>2, <1>3, <1>4, DifferentCount
<1>6. \A k \in Chunk : Range(Segment(ids, al, k)) \subseteq Range(ids) BY SegmentsCover
<1>7. Range(kid) \in SUBSET Range(ids) BY <1>3, <1>6
<1>8. few <= all BY <1>5, <1>7, FS_Subset
<1>9. ASSUME all \div al > Len(interest_set) PROVE few < all
  <2>1. all \div al \in Nat BY Division
  <2>2. PICK k \in Chunk : k < all \div al /\ ~ Gathers(o, k) BY <1>9, <2>1, QuorumMisses
  <2>3. PICK a : a \in Range(Segment(ids, al, k))
    <3>1. PICK seg \in Seq(T) : seg = Segment(ids, al, k) BY SegmentIs
    <3>2. Len(Segment(ids, al, k)) = ChunkSize(all, al)[k] BY <1>4, SegmentLength
    <3>3. ChunkSize(all, al)[k] \in Nat \ {0} BY <2>2, EarlyChunksFilled
    <3>4. 1 \in DOMAIN seg
      <4>1. DOMAIN seg = 1 .. Len(seg) BY LenProperties
      <4> QED BY <3>1, <3>2, <3>3, <4>1
    <3>5. seg[1] \in Range(seg) BY <3>4 DEF Range
    <3> QED BY <3>1, <3>5
  <2>4. a \in Range(ids) BY <1>6, <2>3
  <2>5. a \notin Range(kid)
    <3> SUFFICES ASSUME a \in Range(kid) PROVE FALSE OBVIOUS
    <3>1. PICK j \in Chunk : Gathers(o, j) /\ a \in Range(Segment(ids, al, j)) BY <1>3
    <3>2. j = k BY <1>2, <2>3, <3>1, SegmentsApart
    <3> QED BY <2>2, <3>1, <3>2
  <2>6. Range(kid) # Range(ids) BY <2>4, <2>5
  <2>7. few # all BY <1>5, <1>7, <2>6, FS_Subset
  <2> QED BY <1>8, <2>7
<1> QED BY <1>2, <1>3, <1>4, <1>8, <1>9

\* refine_task as a recovery step: no child is larger, and down to the depth cap,
\* or as long as there are blocks enough, every child is smaller.
LEMMA ShrinksHold == TreeTypeOK /\ Filled => RefinementShrinks
<1> SUFFICES ASSUME TreeTypeOK, Filled, NEW kid \in Range(Children(task, sorted, align))
             PROVE  /\ Len(kid.ids) <= Len(task.ids)
                    /\ align = 1 /\ Len(task.path) < MaxDepth(n) => Len(kid.ids) < Len(task.ids)
                    /\ Len(task.ids) \div align > Len(interest_set) => Len(kid.ids) < Len(task.ids)
  BY DEF RefinementShrinks
<1>1. /\ n \in Nat /\ sorted \in BOOLEAN /\ align \in Nat \ {0} /\ WellFormed(task, n, sorted)
  BY TreeTypeIs, LengthsAreNat
<1>2. PICK m \in Nat : \E own \in [1 .. m -> Chunk] : OwnedBy(task, sorted, align, m, own)
  BY <1>1, ChildrenAre
<1>3. PICK own \in [1 .. m -> Chunk] :
        Children(task, sorted, align) = [i \in 1 .. m |-> Child(task, own[i], sorted, align)]
  BY <1>2 DEF OwnedBy
<1>4. PICK o \in Chunk : kid = Child(task, o, sorted, align)
  <2>1. PICK i \in 1 .. m : kid = Child(task, own[i], sorted, align) BY <1>3 DEF Range
  <2> QED BY <2>1
<1>5. /\ Len(kid.ids) <= Len(task.ids)
      /\ Len(task.ids) \div align > Len(interest_set) => Len(kid.ids) < Len(task.ids)
  BY <1>1, <1>4, ChildIsPart
<1>6. ASSUME align = 1, Len(task.path) < MaxDepth(n) PROVE Len(kid.ids) < Len(task.ids)
  <2>1. PICK left \in Nat : Power(left) \in Nat \ {0} /\ c * Power(left) <= Len(task.ids)
    BY ShareOfChild, <1>4, <1>6
  <2>2. PICK p \in Nat \ {0} : c * p <= Len(task.ids) BY <2>1
  <2> QED BY <1>1, <1>4, <1>6, <2>2, ChildShrinks
<1> QED BY <1>5, <1>6

\* A child holds a token for every chunk of the levels that are left.
LEMMA NextFilled == TreeTypeOK /\ Filled /\ [TreeNext]_treeVars => Filled'
<1> SUFFICES ASSUME TreeTypeOK, Filled, [TreeNext]_treeVars PROVE Filled' OBVIOUS
<1>1. CASE TreeNext
  <2> SUFFICES ASSUME align' = 1, NEW deepest \in Nat, NEW left \in Nat,
                      deepest = MaxDepth(n'), deepest = Len(task'.path) + left
               PROVE  Power(left) <= Len(task'.ids)
    BY DEF Filled
  <2>1. /\ n' = n /\ sorted' = sorted /\ align' = align /\ Len(task.path) < MaxDepth(n)
        /\ task' \in Range(Children(task, sorted, align))
    BY <1>1 DEF TreeNext, Refine
  <2>2. /\ n \in Nat /\ sorted \in BOOLEAN /\ align \in Nat \ {0} /\ WellFormed(task, n, sorted)
    BY TreeTypeIs, LengthsAreNat
  <2>3. PICK m \in Nat : \E own \in [1 .. m -> Chunk] : OwnedBy(task, sorted, align, m, own)
    BY <2>2, ChildrenAre
  <2>4. PICK own \in [1 .. m -> Chunk] :
          Children(task, sorted, align) = [i \in 1 .. m |-> Child(task, own[i], sorted, align)]
    BY <2>3 DEF OwnedBy
  <2>5. PICK o \in Chunk : task' = Child(task, o, sorted, align)
    <3>1. PICK i \in 1 .. m : task' = Child(task, own[i], sorted, align) BY <2>1, <2>4 DEF Range
    <3> QED BY <3>1
  <2>6. PICK below \in Nat :
          /\ deepest = Len(task.path) + below + 1
          /\ Power(below) \in Nat \ {0} /\ c * Power(below) <= Len(task.ids)
    BY <2>1, <2>5, ShareOfChild
  <2>7. PICK p \in Nat \ {0} : p = Power(below) /\ c * p <= Len(task.ids) BY <2>6
  <2>8. p <= Len(Child(task, o, sorted, align).ids) BY <2>1, <2>2, <2>5, <2>7, ChildShrinks
  <2>9. Len(task'.path) = Len(task.path) + 1 /\ Len(task.path) \in Nat
    <3>1. task'.path = Append(task.path, o) BY <2>5 DEF Child
    <3>2. task.path \in Seq(Chunk) BY DEF TreeTypeOK
    <3> QED BY <3>1, <3>2, AppendProperties, LenProperties
  <2>10. below = left BY <2>6, <2>9
  <2> QED BY <2>5, <2>7, <2>8, <2>10
<1>2. CASE UNCHANGED treeVars BY <1>2 DEF treeVars, Filled
<1> QED BY <1>1, <1>2

\* Splitting a subproblem that ran out of memory gives subproblems that need less,
\* at every depth the cap of max_depth_for lets recovery reach.
THEOREM RefinementProgress == TreeSpec => []RefinementShrinks
<1>1. TreeInit => TreeTypeOK /\ Filled BY TreeInitType, InitFilled
<1>2. (TreeTypeOK /\ Filled) /\ [TreeNext]_treeVars => (TreeTypeOK /\ Filled)' BY TreeNextType, NextFilled
<1>3. TreeTypeOK /\ Filled => RefinementShrinks BY ShrinksHold
<1> QED BY <1>1, <1>2, <1>3, PTL DEF TreeSpec

-----------------------------------------------------------------------------
(* Aligned blocks. *)

\* A sorted gather leaves the tokens of an aligned block consecutive.
RunsInv == sorted => Runs(task.ids, align)

\* The whole call is one run.
LEMMA InitRuns == TreeInit => RunsInv
<1> SUFFICES ASSUME TreeInit PROVE Runs(task.ids, align) BY DEF RunsInv
<1>1. n \in Nat /\ align \in Nat \ {0} /\ task = Root(n) BY LengthsAreNat DEF TreeInit
<1> QED BY <1>1, RootRuns

\* Refinement keeps runs.
LEMMA NextRuns == TreeTypeOK /\ RunsInv /\ [TreeNext]_treeVars => RunsInv'
<1> SUFFICES ASSUME TreeTypeOK, RunsInv, [TreeNext]_treeVars, sorted' PROVE Runs(task'.ids, align') BY DEF RunsInv
<1>1. CASE TreeNext
  <2>1. /\ n' = n /\ sorted' = sorted /\ align' = align
        /\ task' \in Range(Children(task, sorted, align))
    BY <1>1 DEF TreeNext, Refine
  <2>2. /\ n \in Nat /\ sorted = TRUE /\ align \in Nat \ {0} /\ WellFormed(task, n, sorted)
        /\ Runs(task.ids, align)
    BY <2>1, TreeTypeIs, LengthsAreNat DEF RunsInv
  <2>3. PICK m \in Nat : \E own \in [1 .. m -> Chunk] : OwnedBy(task, TRUE, align, m, own)
    BY <2>2, ChildrenAre
  <2>4. PICK own \in [1 .. m -> Chunk] :
          Children(task, TRUE, align) = [i \in 1 .. m |-> Child(task, own[i], TRUE, align)]
    BY <2>3 DEF OwnedBy
  <2>5. PICK i \in 1 .. m : task' = Child(task, own[i], TRUE, align)
    BY <2>1, <2>2, <2>4 DEF Range
  <2>6. own[i] \in Chunk OBVIOUS
  <2>7. PICK T : T \in SUBSET Nat /\ task.ids \in Seq(T)
    <3>1. 0 .. n - 1 \in SUBSET Nat BY <2>2
    <3> QED BY <3>1, <2>2 DEF WellFormed
  <2>8. Runs(Child(task, own[i], TRUE, align).ids, align) BY <2>2, <2>6, <2>7, ChildRuns
  <2> QED BY <2>1, <2>5, <2>8
<1>2. CASE UNCHANGED treeVars BY <1>2 DEF treeVars, RunsInv
<1> QED BY <1>1, <1>2

\* The sequence of runs seen block by block is what segment_block_base tabulates.
LEMMA BasesHold == TreeTypeOK /\ RunsInv => BlockBaseExact
<1> SUFFICES ASSUME TreeTypeOK, RunsInv, sorted, NEW r \in 0 .. Len(task.ids) - 1
             PROVE  task.ids[r + 1] = BlockBase(task, align)[r \div align] + (r % align)
  BY DEF BlockBaseExact
<1>1. align \in Nat \ {0} /\ n \in Nat /\ task.ids \in Seq(0 .. n - 1) /\ Runs(task.ids, align)
  BY LengthsAreNat DEF TreeTypeOK, RunsInv
<1>2. PICK len \in Nat : len = Len(task.ids) /\ DOMAIN task.ids = 1 .. len BY <1>1, LenProperties
<1>3. PICK b \in Nat, i \in 0 .. align - 1 :
        b = r \div align /\ i = r % align /\ r = align * b + i
  <2>1. r \in Nat BY <1>2
  <2>2. r \div align \in Nat /\ r % align \in 0 .. align - 1 /\ r = align * (r \div align) + (r % align)
    BY <2>1, <1>1, Division
  <2> QED BY <2>2
<1>4. task.ids[r + 1] = task.ids[b * align + 1] + i
  <2>1. r + 1 = b * align + i + 1
    <3>1. align * b = b * align BY <1>1
    <3> QED BY <3>1, <1>3
  <2>2. b * align + i + 1 \in DOMAIN task.ids BY <2>1, <1>2
  <2>3. task.ids[b * align + i + 1] = task.ids[b * align + 1] + i BY <2>2, <1>1 DEF Runs
  <2> QED BY <2>1, <2>3
<1>5. b \in 0 .. (len + align - 1) \div align - 1
  <2>1. b < (len + align - 1) \div align
    <3>1. r \in Nat /\ r < len BY <1>2
    <3> QED BY <3>1, <1>1, <1>3, RoundedUp
  <2>2. (len + align - 1) \div align \in Nat
    <3>1. len + align - 1 \in Nat BY <1>1
    <3> QED BY <3>1, <1>1, Division
  <2> QED BY <2>1, <2>2
<1>6. BlockBase(task, align)[b] = task.ids[b * align + 1] BY <1>2, <1>5 DEF BlockBase
<1> QED BY <1>3, <1>4, <1>6

\* segment_block_base: once chunks are aligned, one base row for each block locates
\* every row of every subproblem, at whatever depth.
THEOREM BasesLocateRows == TreeSpec => []BlockBaseExact
<1>1. TreeInit => TreeTypeOK /\ RunsInv BY TreeInitType, InitRuns
<1>2. (TreeTypeOK /\ RunsInv) /\ [TreeNext]_treeVars => (TreeTypeOK /\ RunsInv)' BY TreeNextType, NextRuns
<1>3. TreeTypeOK /\ RunsInv => BlockBaseExact BY BasesHold
<1> QED BY <1>1, <1>2, <1>3, PTL DEF TreeSpec

-----------------------------------------------------------------------------
(* Tiles. *)

\* The blocks a range consults hold all of its positions: the first is rounded
\* down, the last up.
LEMMA SpanCovers ==
  ASSUME NEW t, Len(t.ids) \in Nat, NEW first \in Nat, NEW extent \in Nat
  PROVE  Within(t, first, extent) \subseteq Span(t, first, extent)
<1>1. BlkSize \in Nat \ {0} BY TilesArePositive
<1>2. PICK len \in Nat : len = Len(t.ids) OBVIOUS
<1> SUFFICES ASSUME NEW r \in first .. first + extent - 1, r < len PROVE r \in Span(t, first, extent)
  BY <1>2 DEF Within
<1>3. r \in Nat /\ first <= r /\ r < first + extent OBVIOUS
<1>4. PICK b \in Nat : b = r \div BlkSize /\ BlkSize * b <= r /\ r < BlkSize * b + BlkSize
  <2>1. r \div BlkSize \in Nat /\ r % BlkSize \in 0 .. BlkSize - 1 /\ r = BlkSize * (r \div BlkSize) + (r % BlkSize)
    BY <1>1, <1>3, Division
  <2> QED BY <2>1, <1>1
<1>5. r \in Block(t, b)
  <2>1. b * BlkSize = BlkSize * b /\ (b + 1) * BlkSize = BlkSize * b + BlkSize BY <1>1
  <2>2. r \in b * BlkSize .. (b + 1) * BlkSize - 1 BY <2>1, <1>1, <1>3, <1>4
  <2> QED BY <2>2, <1>2 DEF Block
<1>6. first \div BlkSize <= b /\ first \div BlkSize \in Nat BY <1>1, <1>3, <1>4, QuotientsAscend, Division
<1>7. PICK last \in Nat : last = (first + extent + BlkSize - 1) \div BlkSize /\ b < last
  <2>1. first + extent \in Nat OBVIOUS
  <2>2. b < (first + extent + BlkSize - 1) \div BlkSize BY <2>1, <1>1, <1>3, <1>4, RoundedUp
  <2>3. first + extent + BlkSize - 1 \in Nat BY <1>1
  <2>4. (first + extent + BlkSize - 1) \div BlkSize \in Nat BY <2>3, <1>1, Division
  <2> QED BY <2>2, <2>4
<1>8. PICK all \in Nat : all = NumBlocks(t) /\ b < all
  <2>1. b < (len + BlkSize - 1) \div BlkSize BY <1>1, <1>3, <1>4, RoundedUp
  <2>2. len + BlkSize - 1 \in Nat BY <1>1
  <2>3. (len + BlkSize - 1) \div BlkSize \in Nat BY <2>2, <1>1, Division
  <2> QED BY <2>1, <2>3, <1>2 DEF NumBlocks
<1>9. b \in first \div BlkSize .. (IF last > all THEN all ELSE last) - 1 BY <1>6, <1>7, <1>8
<1> QED BY <1>5, <1>7, <1>8, <1>9 DEF Span

\* Of a tile, the pairs that reach the softmax are those the mask keeps.
ScoredExactly(t, row, rows, col, cols) ==
  Scored(t, row, rows, col, cols) = {p \in InTile(t, row, rows, col, cols) : ~ ShouldMask(t, p)}

\* A tile is judged by its summaries as its pairs are one by one.
LEMMA TileExact ==
  ASSUME NEW t, Len(t.ids) \in Nat, NEW row \in Nat, NEW rows \in Nat, NEW col \in Nat, NEW cols \in Nat
  PROVE  ScoredExactly(t, row, rows, col, cols)
<1>1. Within(t, row, rows) \subseteq Span(t, row, rows) BY SpanCovers
<1>2. Within(t, col, cols) \subseteq Span(t, col, cols) BY SpanCovers
<1>3. ASSUME NEW p \in InTile(t, row, rows, col, cols)
      PROVE  p[1] \in Span(t, row, rows) /\ p[2] \in Span(t, col, cols)
  <2>1. p[1] \in Within(t, row, rows) /\ p[2] \in Within(t, col, cols) BY <1>3 DEF InTile
  <2> QED BY <2>1, <1>1, <1>2
<1>4. ASSUME TileMasked(t, row, rows, col, cols), NEW p \in InTile(t, row, rows, col, cols)
      PROVE  ShouldMask(t, p)
  <2>1. PICK g : g \in RangeAnd(t, row, rows) /\ g \in RangeAnd(t, col, cols) BY <1>4 DEF TileMasked
  <2>2. g \in t.groups /\ t.ids[p[1] + 1] \in g BY <2>1, <1>3 DEF RangeAnd
  <2>3. t.ids[p[2] + 1] \in g BY <2>1, <1>3 DEF RangeAnd
  <2> QED BY <2>2, <2>3 DEF ShouldMask, Masked
<1>5. ASSUME TileClear(t, row, rows, col, cols), NEW p \in InTile(t, row, rows, col, cols), ShouldMask(t, p)
      PROVE  FALSE
  <2>1. PICK g \in t.groups : t.ids[p[1] + 1] \in g /\ t.ids[p[2] + 1] \in g
    BY <1>5 DEF ShouldMask, Masked
  <2>2. g \in RangeOr(t, row, rows) BY <2>1, <1>3 DEF RangeOr
  <2>3. g \in RangeOr(t, col, cols) BY <2>1, <1>3 DEF RangeOr
  <2> QED BY <1>5, <2>2, <2>3 DEF TileClear
<1>6. CASE TileMasked(t, row, rows, col, cols)
  <2>1. Scored(t, row, rows, col, cols) = {} BY <1>6 DEF Scored
  <2> QED BY <2>1, <1>4, <1>6 DEF ScoredExactly
<1>7. CASE ~ TileMasked(t, row, rows, col, cols) /\ TileClear(t, row, rows, col, cols)
  <2>1. Scored(t, row, rows, col, cols) = InTile(t, row, rows, col, cols) BY <1>7 DEF Scored
  <2> QED BY <2>1, <1>5, <1>7 DEF ScoredExactly
<1>8. CASE ~ TileMasked(t, row, rows, col, cols) /\ ~ TileClear(t, row, rows, col, cols)
  BY <1>8 DEF Scored, ScoredExactly
<1> QED BY <1>6, <1>7, <1>8

\* "It can only ever fail to skip, never skip wrongly" (flash_bwd_kernel.h): of every
\* tile of any shape, anywhere on the blocks, exactly the pairs the mask keeps are
\* scored, for every size of blocks.
THEOREM TilesExact == TreeSpec => []TilesKeepExactly
<1>1. ASSUME TreeTypeOK PROVE TilesKeepExactly
  <2>1. Len(task.ids) \in Nat
    <3>1. PICK ids \in Seq(0 .. n - 1) : ids = task.ids BY <1>1 DEF TreeTypeOK
    <3> QED BY <3>1, LenProperties
  <2>2. ASSUME NEW shape \in Tiles,
               NEW i \in 0 .. (Len(task.ids) - 1) \div shape[1],
               NEW j \in 0 .. (Len(task.ids) - 1) \div shape[2]
        PROVE  Scored(task, i * shape[1], shape[1], j * shape[2], shape[2]) =
                 {p \in InTile(task, i * shape[1], shape[1], j * shape[2], shape[2]) : ~ ShouldMask(task, p)}
    <3>1. PICK rows \in Nat, cols \in Nat : rows = shape[1] /\ cols = shape[2]
      <4>1. shape \in (Nat \ {0}) \X (Nat \ {0}) BY TilesArePositive
      <4> QED BY <4>1
    <3>2. i \in Nat /\ j \in Nat OBVIOUS
    <3>3. PICK row \in Nat, col \in Nat : row = i * rows /\ col = j * cols BY <3>2, Wholes
    <3>4. PICK t : t = task /\ Len(t.ids) \in Nat BY <2>1
    <3>5. ScoredExactly(t, row, rows, col, cols) BY <3>4, TileExact
    <3> QED BY <3>1, <3>3, <3>4, <3>5 DEF ScoredExactly
  <2> QED BY <2>2 DEF TilesKeepExactly
<1> QED BY <1>1, TreeTypeCorrect, PTL

-----------------------------------------------------------------------------
(* The second implementation of the decomposition (FusedPaths). *)

\* What compute_chunk_layout_front lays out is what chunk_layout does without
\* alignment: one adds the sizes up, the other multiplies.
LEMMA FrontIs ==
  ASSUME NEW len \in Nat, NEW k \in Chunk
  PROVE  FrontChunk(len, k) = [i \in 1 .. ChunkSize(len, 1)[k] |-> ChunkStart(len, 1)[k] + i]
<1>1. c \in Nat /\ c > 1 /\ Chunk = 0 .. c - 1 BY ChunksAre
<1>2. PICK q \in Nat, r \in Nat : q = len \div c /\ r = len % c
  <2>1. c \in Nat \ {0} BY <1>1
  <2>2. len \div c \in Nat /\ len % c \in 0 .. c - 1 BY <2>1, Division
  <2> QED BY <2>2
<1>3. PICK start, size : start = ChunkStart(len, 1) /\ size = ChunkSize(len, 1) OBVIOUS
<1>4. Layout(len, start, size) BY <1>3, LayoutIs
<1>5. /\ start \in [Chunk -> Nat] /\ start[0] = 0
      /\ \A j \in Chunk : j # 0 => start[j] = start[j - 1] + size[j - 1]
  BY <1>4 DEF Layout
<1>6. \A j \in Chunk : size[j] = q + (IF j < r THEN 1 ELSE 0)
  BY <1>2, <1>3 DEF ChunkSize, EvenSize
<1> DEFINE At(j) == j * q + (IF j < r THEN j ELSE r)
           Right == {j \in Nat : j \in Chunk => start[j] = At(j)}
<1>7. 0 \in Right BY <1>5
<1>8. ASSUME NEW j \in Nat, j < c - 1, j \in Right PROVE j + 1 \in Right
  <2>1. j \in Chunk /\ j + 1 \in Chunk /\ j + 1 # 0 /\ (j + 1) - 1 = j BY <1>1, <1>8
  <2>2. start[j + 1] = start[j] + size[j] BY <1>5, <2>1
  <2>3. start[j] = At(j) BY <1>8, <2>1
  <2>4. size[j] = q + (IF j < r THEN 1 ELSE 0) BY <1>6, <2>1
  <2>5. (j + 1) * q = j * q + q /\ j * q \in Nat OBVIOUS
  <2>6. start[j + 1] = At(j + 1)
    <3>1. CASE j < r /\ j + 1 < r BY <2>2, <2>3, <2>4, <2>5, <3>1
    <3>2. CASE j < r /\ ~ (j + 1 < r)
      <4>1. r = j + 1 BY <3>2
      <4> QED BY <2>2, <2>3, <2>4, <2>5, <3>2, <4>1
    <3>3. CASE ~ (j < r) BY <2>2, <2>3, <2>4, <2>5, <3>3
    <3> QED BY <3>1, <3>2, <3>3
  <2> QED BY <2>6
<1>9. start[k] = At(k)
  <2> HIDE DEF At
  <2>1. c - 1 \in Nat BY <1>1
  <2> HIDE DEF Right
  <2>2. \A j \in 0 .. c - 1 : j \in Right BY <1>7, <1>8, <2>1, UpTo
  <2>3. k \in Right BY <1>1, <2>2
  <2> QED BY <2>3 DEF Right
<1>10. FrontChunk(len, k) = [i \in 1 .. q + (IF k < r THEN 1 ELSE 0) |-> At(k) + i]
  BY <1>2 DEF FrontChunk
<1> HIDE DEF At
<1> QED BY <1>3, <1>6, <1>9, <1>10

\* The sequence s read through f.
Along(s, f) == [i \in DOMAIN s |-> f[s[i]]]

ReadFrom(T, f) == {f[x] : x \in T}

\* A sequence read is a sequence, and as long.
LEMMA AlongIs ==
  ASSUME NEW T, NEW f, NEW s \in Seq(T)
  PROVE  /\ Along(s, f) \in Seq(ReadFrom(T, f)) /\ Len(Along(s, f)) = Len(s)
         /\ DOMAIN s = 1 .. Len(s) /\ DOMAIN Along(s, f) = 1 .. Len(s)
<1>1. PICK l \in Nat : l = Len(s) /\ DOMAIN s = 1 .. l BY LenProperties
<1>2. \A i \in 1 .. l : s[i] \in T BY <1>1, ElementOfSeq
<1>3. PICK a : a = Along(s, f) OBVIOUS
<1>4. a \in [1 .. l -> ReadFrom(T, f)] BY <1>1, <1>2, <1>3 DEF Along, ReadFrom
<1>5. a \in Seq(ReadFrom(T, f)) /\ DOMAIN a = 1 .. l BY <1>4, SeqDef
<1>6. Len(a) = l BY <1>5, LenProperties
<1> QED BY <1>1, <1>3, <1>5, <1>6

AlongJoins(s1, s2, f) == Along(s1 \o s2, f) = Along(s1, f) \o Along(s2, f)

\* Reading two sequences joined is joining the two read.
LEMMA JoinAlong ==
  ASSUME NEW T, NEW f, NEW s1 \in Seq(T), NEW s2 \in Seq(T)
  PROVE  AlongJoins(s1, s2, f)
<1>1. PICK l1 \in Nat, l2 \in Nat :
        /\ l1 = Len(s1) /\ l2 = Len(s2) /\ DOMAIN s1 = 1 .. l1 /\ DOMAIN s2 = 1 .. l2
  BY LenProperties
<1>3. PICK s : s = s1 \o s2 OBVIOUS
<1>4. /\ s \in Seq(T) /\ DOMAIN s = 1 .. l1 + l2
      /\ \A i \in 1 .. l1 + l2 : s[i] = IF i <= l1 THEN s1[i] ELSE s2[i - l1]
  <2>1. s \in Seq(T) /\ Len(s) = l1 + l2 BY <1>1, <1>3, ConcatProperties
  <2>2. DOMAIN s = 1 .. l1 + l2 BY <2>1, LenProperties
  <2>3. \A i \in 1 .. l1 + l2 : s[i] = IF i <= l1 THEN s1[i] ELSE s2[i - l1]
    BY <1>1, <1>3, ConcatProperties
  <2> QED BY <2>1, <2>2, <2>3
<1>5. PICK a1, a2 : a1 = Along(s1, f) /\ a2 = Along(s2, f) OBVIOUS
<1>6. /\ \A i \in 1 .. l1 : a1[i] = f[s1[i]]
      /\ \A i \in 1 .. l2 : a2[i] = f[s2[i]]
  BY <1>1, <1>5 DEF Along
<1>7. /\ a1 \in Seq(ReadFrom(T, f)) /\ a2 \in Seq(ReadFrom(T, f))
      /\ Len(a1) = l1 /\ Len(a2) = l2
  BY <1>1, <1>5, AlongIs
<1>8. PICK a : a = a1 \o a2 OBVIOUS
<1>9. /\ DOMAIN a = 1 .. l1 + l2 /\ a = [i \in 1 .. l1 + l2 |-> a[i]]
      /\ \A i \in 1 .. l1 + l2 : a[i] = IF i <= l1 THEN a1[i] ELSE a2[i - l1]
  <2>1. a \in Seq(ReadFrom(T, f)) /\ Len(a) = l1 + l2 BY <1>7, <1>8, ConcatProperties
  <2>2. DOMAIN a = 1 .. l1 + l2 BY <2>1, LenProperties
  <2>3. \A i \in 1 .. l1 + l2 : a[i] = IF i <= l1 THEN a1[i] ELSE a2[i - l1]
    BY <1>7, <1>8, ConcatProperties
  <2>4. a = [i \in 1 .. l1 + l2 |-> a[i]] BY <2>1, <2>2
  <2> QED BY <2>2, <2>3, <2>4
<1>10. Along(s, f) = [i \in 1 .. l1 + l2 |-> f[s[i]]] BY <1>4 DEF Along
<1>11. \A i \in 1 .. l1 + l2 : a[i] = f[s[i]]
  <2> SUFFICES ASSUME NEW i \in 1 .. l1 + l2 PROVE a[i] = f[s[i]] OBVIOUS
  <2>1. CASE i <= l1
    <3>1. i \in 1 .. l1 BY <2>1
    <3> QED BY <3>1, <2>1, <1>4, <1>6, <1>9
  <2>2. CASE ~ (i <= l1)
    <3>1. i - l1 \in 1 .. l2 BY <2>2
    <3>2. s[i] = s2[i - l1] /\ a[i] = a2[i - l1] BY <2>2, <1>4, <1>9
    <3> QED BY <3>1, <3>2, <1>6
  <2> QED BY <2>1, <2>2
<1>12. Along(s, f) = a BY <1>9, <1>10, <1>11
<1> QED BY <1>3, <1>5, <1>8, <1>12 DEF AlongJoins

FlattensAlong(segs, m, f) ==
  FlattenSeq([j \in 1 .. m |-> Along(segs[j], f)]) = Along(FlattenSeq(segs), f)

\* Reading a flattened sequence is flattening its parts read.
LEMMA FlattenAlong ==
  ASSUME NEW T, NEW f, NEW m \in Nat \ {0}, NEW segs \in [1 .. m -> Seq(T)]
  PROVE  FlattensAlong(segs, m, f)
<1>1. \A j \in 1 .. m : segs[j] \in Seq(T) OBVIOUS
<1>2. \A j \in 1 .. m : Along(segs[j], f) \in Seq(ReadFrom(T, f))
  <2> SUFFICES ASSUME NEW j \in 1 .. m PROVE Along(segs[j], f) \in Seq(ReadFrom(T, f)) OBVIOUS
  <2>1. segs[j] \in Seq(T) BY <1>1
  <2> QED BY <2>1, AlongIs
<1>3. PICK imgs \in [1 .. m -> Seq(ReadFrom(T, f))] : imgs = [j \in 1 .. m |-> Along(segs[j], f)]
  <2>1. [j \in 1 .. m |-> Along(segs[j], f)] \in [1 .. m -> Seq(ReadFrom(T, f))] BY <1>2
  <2> QED BY <2>1
<1>4. \A j \in 1 .. m : imgs[j] = Along(segs[j], f) BY <1>3
<1>5. PICK a : Joins(a, segs, m, T) /\ FlattenSeq(segs) = a[m] BY FlattenByParts
<1>6. PICK b : Joins(b, imgs, m, ReadFrom(T, f)) /\ FlattenSeq(imgs) = b[m] BY FlattenByParts
<1>7. /\ \A k \in 1 .. m : a[k] \in Seq(T)
      /\ a[1] = segs[1]
      /\ \A k \in 1 .. m : k # 1 => a[k] = a[k - 1] \o segs[k]
      /\ b[1] = imgs[1]
      /\ \A k \in 1 .. m : k # 1 => b[k] = b[k - 1] \o imgs[k]
  BY <1>5, <1>6 DEF Joins
<1> DEFINE Good == {k \in Nat : k < m => b[k + 1] = Along(a[k + 1], f)}
<1>8. 0 \in Good
  <2>1. 0 + 1 = 1 /\ 1 \in 1 .. m OBVIOUS
  <2> QED BY <2>1, <1>4, <1>7
<1>9. ASSUME NEW k \in Nat, k < m - 1, k \in Good PROVE k + 1 \in Good
  <2>1. /\ k + 2 \in 1 .. m /\ k + 2 # 1 /\ (k + 2) - 1 = k + 1 /\ (k + 1) + 1 = k + 2
        /\ k + 1 \in 1 .. m /\ k < m
    BY <1>9
  <2>2. a[k + 2] = a[k + 1] \o segs[k + 2] /\ b[k + 2] = b[k + 1] \o imgs[k + 2] BY <1>7, <2>1
  <2>3. b[k + 1] = Along(a[k + 1], f) BY <1>9, <2>1
  <2>4. imgs[k + 2] = Along(segs[k + 2], f) BY <1>4, <2>1
  <2>5. PICK s1 \in Seq(T), s2 \in Seq(T) : s1 = a[k + 1] /\ s2 = segs[k + 2] BY <1>7, <2>1
  <2>6. AlongJoins(s1, s2, f) BY JoinAlong
  <2>7. b[k + 2] = Along(a[k + 2], f) BY <2>2, <2>3, <2>4, <2>5, <2>6 DEF AlongJoins
  <2> QED BY <2>1, <2>7
<1>10. b[m] = Along(a[m], f)
  <2>1. m - 1 \in Nat /\ m - 1 < m /\ (m - 1) + 1 = m OBVIOUS
  <2> HIDE DEF Good
  <2>2. \A k \in 0 .. m - 1 : k \in Good BY <1>8, <1>9, <2>1, UpTo
  <2>3. m - 1 \in Good BY <2>1, <2>2
  <2> QED BY <2>1, <2>3 DEF Good
<1> QED BY <1>3, <1>5, <1>6, <1>10 DEF FlattensAlong

\* Read through the tokens, the positions of a chunk are the segment of it.
LEMMA FrontSegment ==
  ASSUME NEW T, NEW ids \in Seq(T), NEW k \in Chunk
  PROVE  /\ FrontChunk(Len(ids), k) \in Seq(1 .. Len(ids))
         /\ Along(FrontChunk(Len(ids), k), ids) = Segment(ids, 1, k)
         /\ \A x \in Int : x \in Range(FrontChunk(Len(ids), k)) <=> InChunk(Len(ids), 1, x, k)
<1>1. Len(ids) \in Nat /\ DOMAIN ids = 1 .. Len(ids) BY LenProperties
<1>2. PICK first \in Nat, size \in Nat :
        first = ChunkStart(Len(ids), 1)[k] /\ size = ChunkSize(Len(ids), 1)[k]
  <2>1. PICK start, sizes : /\ start = ChunkStart(Len(ids), 1) /\ sizes = ChunkSize(Len(ids), 1)
                            /\ Layout(Len(ids), start, sizes)
    BY <1>1, LayoutIs
  <2>2. start[k] \in Nat /\ sizes[k] \in Nat BY <2>1 DEF Layout
  <2> QED BY <2>1, <2>2
<1>3. \A x \in Int : InChunk(Len(ids), 1, x, k) <=> first < x /\ x <= first + size
  BY <1>2 DEF InChunk
<1>4. \A x \in Int : first < x /\ x <= first + size => x \in 1 .. Len(ids) BY <1>1, <1>3, OneChunk
<1>5. PICK front : front = FrontChunk(Len(ids), k) /\ front = [i \in 1 .. size |-> first + i]
  BY <1>1, <1>2, FrontIs
<1>6. \A i \in 1 .. size : first + i \in 1 .. Len(ids)
  <2> SUFFICES ASSUME NEW i \in 1 .. size PROVE first + i \in 1 .. Len(ids) OBVIOUS
  <2>1. first + i \in Int /\ first < first + i /\ first + i <= first + size OBVIOUS
  <2> QED BY <2>1, <1>4
<1>7. front \in Seq(1 .. Len(ids))
  <2>1. front \in [1 .. size -> 1 .. Len(ids)] BY <1>5, <1>6
  <2> QED BY <2>1, SeqDef
<1>8. \A x \in Int : x \in Range(front) <=> InChunk(Len(ids), 1, x, k)
  <2> SUFFICES ASSUME NEW x \in Int PROVE x \in Range(front) <=> first < x /\ x <= first + size
    BY <1>3
  <2>1. ASSUME x \in Range(front) PROVE first < x /\ x <= first + size
    <3>1. PICK i \in 1 .. size : x = first + i BY <1>5, <2>1 DEF Range
    <3> QED BY <3>1
  <2>2. ASSUME first < x, x <= first + size PROVE x \in Range(front)
    <3>1. x - first \in 1 .. size /\ first + (x - first) = x BY <2>2
    <3>2. x - first \in DOMAIN front /\ front[x - first] = x BY <3>1, <1>5
    <3> QED BY <3>2 DEF Range
  <2> QED BY <2>1, <2>2
<1>9. PICK seg : seg = SubSeq(ids, first + 1, first + size) /\ seg = Segment(ids, 1, k)
  BY <1>2 DEF Segment
<1>10. /\ seg = [i \in 1 .. size |-> seg[i]]
       /\ \A i \in 1 .. size : seg[i] = ids[first + i]
  <2>1. first + 1 \in Int /\ first + size \in Int OBVIOUS
  <2>2. \A i \in first + 1 .. first + size : ids[i] \in T
    <3> SUFFICES ASSUME NEW i \in first + 1 .. first + size PROVE ids[i] \in T OBVIOUS
    <3>1. i \in Int /\ first < i /\ i <= first + size OBVIOUS
    <3>2. i \in 1 .. Len(ids) BY <3>1, <1>4
    <3> QED BY <3>2, ElementOfSeq
  <2>3. /\ SubSeq(ids, first + 1, first + size) \in Seq(T)
        /\ Len(SubSeq(ids, first + 1, first + size)) =
             IF first + 1 <= first + size THEN (first + size) - (first + 1) + 1 ELSE 0
        /\ \A i \in 1 .. (first + size) - (first + 1) + 1 :
             SubSeq(ids, first + 1, first + size)[i] = ids[(first + 1) + i - 1]
    BY <2>1, <2>2, SubSeqProperties
  <2>4. Len(seg) = size
    <3>1. Len(seg) = IF first + 1 <= first + size THEN (first + size) - (first + 1) + 1 ELSE 0
      BY <2>3, <1>9
    <3>2. (first + size) - (first + 1) + 1 = size OBVIOUS
    <3>3. ~ (first + 1 <= first + size) => size = 0 OBVIOUS
    <3> QED BY <3>1, <3>2, <3>3
  <2>5. seg \in Seq(T) /\ DOMAIN seg = 1 .. size BY <2>3, <2>4, <1>9, LenProperties
  <2>6. seg = [i \in 1 .. size |-> seg[i]] BY <2>5
  <2>7. ASSUME NEW i \in 1 .. size PROVE seg[i] = ids[first + i]
    <3>1. i \in 1 .. (first + size) - (first + 1) + 1 /\ (first + 1) + i - 1 = first + i OBVIOUS
    <3>2. seg[i] = ids[(first + 1) + i - 1] BY <3>1, <2>3, <1>9
    <3> QED BY <3>1, <3>2
  <2> QED BY <2>6, <2>7
<1>11. Along(front, ids) = seg
  <2>1. Along(front, ids) = [i \in 1 .. size |-> ids[first + i]] BY <1>5 DEF Along
  <2> QED BY <2>1, <1>10
<1> QED BY <1>5, <1>7, <1>8, <1>9, <1>11

\* The label of a position is the chunk the position lies in.
LEMMA LabelIs ==
  ASSUME NEW T, NEW ids \in Seq(T), NEW x \in 1 .. Len(ids)
  PROVE  LabelOf(Len(ids), x) \in Chunk /\ InChunk(Len(ids), 1, x, LabelOf(Len(ids), x))
<1>1. Len(ids) \in Nat /\ x \in Int BY LenProperties
<1>2. PICK k \in Chunk : InChunk(Len(ids), 1, x, k) BY <1>1, OneChunk
<1>3. \A j \in Chunk : x \in Range(FrontChunk(Len(ids), j)) <=> InChunk(Len(ids), 1, x, j)
  BY <1>1, FrontSegment
<1>4. /\ LabelOf(Len(ids), x) \in Chunk
      /\ x \in Range(FrontChunk(Len(ids), LabelOf(Len(ids), x)))
  BY <1>2, <1>3 DEF LabelOf
<1> QED BY <1>3, <1>4

\* A position is labelled with the chunk whose segment has its token.
LEMMA LabelSegment ==
  ASSUME NEW T, NEW ids \in Seq(T), Pairwise(ids, Apart), NEW x \in 1 .. Len(ids), NEW k \in Chunk
  PROVE  LabelOf(Len(ids), x) = k <=> ids[x] \in Range(Segment(ids, 1, k))
<1>1. Len(ids) \in Nat /\ DOMAIN ids = 1 .. Len(ids) BY LenProperties
<1>2. PICK j \in Chunk : j = LabelOf(Len(ids), x) /\ InChunk(Len(ids), 1, x, j) BY LabelIs
<1>3. ids[x] \in Range(Segment(ids, 1, j))
  <2>1. PICK al \in Nat \ {0} : al = 1 OBVIOUS
  <2>2. PICK first \in Nat : Placed(Segment(ids, al, j), ids, al, j, first) BY SegmentIs
  <2>3. PICK seg : seg = Segment(ids, 1, j) /\ Placed(seg, ids, 1, j, first) BY <2>1, <2>2
  <2>4. x - first \in DOMAIN seg BY <2>3, <1>1, <1>2 DEF Placed
  <2>5. seg[x - first] = ids[first + (x - first)] BY <2>3, <2>4 DEF Placed
  <2>6. first + (x - first) = x OBVIOUS
  <2> QED BY <2>3, <2>4, <2>5, <2>6 DEF Range
<1>4. ids[x] \in Range(Segment(ids, 1, k)) => j = k BY <1>3, SegmentsApart
<1> QED BY <1>2, <1>3, <1>4

\* What an owner gathers, in the order it does: the quorum of both implementations.
LEMMA FusedQuorumIs ==
  ASSUME NEW o \in Chunk
  PROVE  \E m \in Nat \ {0} :
           /\ DOMAIN interest_set = 1 .. m
           /\ FusedQuorum(o) \in [1 .. m -> Chunk]
           /\ GatherOrder(o, FALSE) = FusedQuorum(o)
           /\ \A k : k \in Range(FusedQuorum(o)) <=> Gathers(o, k)
<1>1. GatherOrder(o, FALSE) = FusedQuorum(o) BY DEF GatherOrder, QuorumChunks, FusedQuorum
<1>2. PICK m \in Nat \ {0} :
        /\ FusedQuorum(o) \in [1 .. m -> Chunk]
        /\ \A k : (\E i \in 1 .. m : FusedQuorum(o)[i] = k) <=> Gathers(o, k)
  <2>1. PICK srt \in BOOLEAN : srt = FALSE OBVIOUS
  <2>2. \E m \in Nat \ {0} :
          /\ GatherOrder(o, srt) \in [1 .. m -> Chunk]
          /\ \A k : (\E i \in 1 .. m : GatherOrder(o, srt)[i] = k) <=> Gathers(o, k)
    BY GatherOrderIs
  <2> QED BY <2>1, <2>2, <1>1
<1>3. DOMAIN FusedQuorum(o) = DOMAIN interest_set BY DEF FusedQuorum
<1>4. \A k : k \in Range(FusedQuorum(o)) <=> Gathers(o, k) BY <1>2 DEF Range
<1> QED BY <1>1, <1>2, <1>3, <1>4

\* The operator gathers positions and reads the tokens at them; the reference
\* gathers the tokens.
LEMMA GatheredIs ==
  ASSUME NEW T, NEW t, t.ids \in Seq(T), NEW o \in Chunk
  PROVE  /\ Gathered(Len(t.ids), o) \in Seq(1 .. Len(t.ids))
         /\ Child(t, o, FALSE, 1).ids = Along(Gathered(Len(t.ids), o), t.ids)
<1>1. PICK m \in Nat \ {0}, order \in {FusedQuorum(o)} :
        /\ order = FusedQuorum(o)
        /\ DOMAIN interest_set = 1 .. m /\ order \in [1 .. m -> Chunk]
        /\ GatherOrder(o, FALSE) = order
  BY FusedQuorumIs
<1>2. PICK ids \in Seq(T) : ids = t.ids OBVIOUS
<1>3. PICK fronts : fronts = [j \in 1 .. m |-> FrontChunk(Len(ids), order[j])] OBVIOUS
<1>4. \A j \in 1 .. m : /\ fronts[j] \in Seq(1 .. Len(ids))
                        /\ Along(fronts[j], ids) = Segment(ids, 1, order[j])
  <2> SUFFICES ASSUME NEW j \in 1 .. m
               PROVE  /\ fronts[j] \in Seq(1 .. Len(ids))
                      /\ Along(fronts[j], ids) = Segment(ids, 1, order[j])
    OBVIOUS
  <2>1. PICK k \in Chunk : k = order[j] BY <1>1
  <2>2. FrontChunk(Len(ids), k) \in Seq(1 .. Len(ids)) /\ Along(FrontChunk(Len(ids), k), ids) = Segment(ids, 1, k)
    BY FrontSegment
  <2> QED BY <2>1, <2>2, <1>3
<1>5. PICK S : S = 1 .. Len(ids) OBVIOUS
<1>6. fronts \in [1 .. m -> Seq(S)] BY <1>3, <1>4, <1>5
<1>7. /\ FlattenSeq([j \in 1 .. m |-> Along(fronts[j], ids)]) = Along(FlattenSeq(fronts), ids)
      /\ FlattenSeq(fronts) \in Seq(S)
  <2>1. FlattensAlong(fronts, m, ids) BY <1>6, FlattenAlong
  <2>2. FlattenSeq(fronts) \in Seq(S) BY <1>6, FlattenRange
  <2> QED BY <2>1, <2>2 DEF FlattensAlong
<1>8. Gathered(Len(ids), o) = FlattenSeq(fronts) BY <1>1, <1>3 DEF Gathered
<1>9. [j \in 1 .. m |-> Along(fronts[j], ids)] = [j \in DOMAIN order |-> Segment(ids, 1, order[j])]
  BY <1>1, <1>4
<1>10. Child(t, o, FALSE, 1).ids = FlattenSeq([j \in DOMAIN order |-> Segment(ids, 1, order[j])])
  BY <1>1, <1>2 DEF Child
<1> QED BY <1>2, <1>5, <1>7, <1>8, <1>9, <1>10

-----------------------------------------------------------------------------
(* The walk of the fused operator and the one of the reference. *)

\* Positions i and j have the same label at some level, that of a gathered chunk
\* which is not the owner's.
SameRun(w, i, j) ==
  \E h \in 1 .. Len(w.labels), k \in Chunk :
    /\ Gathers(w.owners[h], k) /\ k # w.owners[h]
    /\ w.labels[h][i] = k /\ w.labels[h][j] = k

\* w, a state of the fused walk, stands for the subproblem t: the same tokens in
\* the same order, and the labels tell what the groups tell.
Stands(w, t) ==
  /\ w.ids = t.ids
  /\ w.labels \in Seq(Seq(Chunk)) /\ w.owners \in Seq(Chunk) /\ Len(w.labels) = Len(w.owners)
  /\ \A h \in 1 .. Len(w.labels) : Len(w.labels[h]) = Len(w.ids)
  /\ \A i, j \in 1 .. Len(w.ids) : Masked(t, w.ids[i], w.ids[j]) <=> SameRun(w, i, j)

\* The labels of all levels after one more: the earlier ones gathered, and the new.
Relabelled(labels, gather, fresh) ==
  Append([h \in DOMAIN labels |-> Reordered(labels[h], gather)], fresh)

Regathered(res, labels, gather, fresh) ==
  /\ res \in Seq(Seq(Chunk)) /\ Len(res) = Len(labels) + 1
  /\ \A h \in 1 .. Len(labels) : Len(res[h]) = Len(gather)
  /\ \A h \in 1 .. Len(labels), i \in 1 .. Len(gather) : res[h][i] = labels[h][gather[i]]
  /\ res[Len(labels) + 1] = fresh

\* Every earlier level has as many labels as there are tokens left, each its own.
LEMMA RelabelledIs ==
  ASSUME NEW labels \in Seq(Seq(Chunk)), NEW len \in Nat, NEW S, S = 1 .. len, NEW gather \in Seq(S),
         \A h \in 1 .. Len(labels) : Len(labels[h]) = len,
         NEW fresh \in Seq(Chunk)
  PROVE  Regathered(Relabelled(labels, gather, fresh), labels, gather, fresh)
<1>0. PICK res : res = Relabelled(labels, gather, fresh) OBVIOUS
<1>1. PICK d \in Nat : d = Len(labels) /\ DOMAIN labels = 1 .. d BY LenProperties
<1>2. PICK l \in Nat : l = Len(gather) /\ DOMAIN gather = 1 .. l BY LenProperties
<1>3. \A i \in 1 .. l : gather[i] \in S BY <1>2, ElementOfSeq
<1>4. ASSUME NEW h \in 1 .. d
      PROVE  /\ Reordered(labels[h], gather) \in Seq(Chunk)
             /\ Len(Reordered(labels[h], gather)) = l
             /\ \A i \in 1 .. l : Reordered(labels[h], gather)[i] = labels[h][gather[i]]
  <2>1. labels[h] \in Seq(Chunk) BY <1>1, ElementOfSeq
  <2>2. Len(labels[h]) = len BY <1>1
  <2>3. \A x \in 1 .. len : labels[h][x] \in Chunk BY <2>1, <2>2, ElementOfSeq
  <2>4. PICK s : s = Reordered(labels[h], gather) OBVIOUS
  <2>5. s = [i \in 1 .. l |-> labels[h][gather[i]]] BY <2>4, <1>2 DEF Reordered
  <2>6. s \in [1 .. l -> Chunk] BY <2>5, <2>3, <1>3
  <2>7. s \in Seq(Chunk) /\ DOMAIN s = 1 .. l BY <2>6, SeqDef
  <2>8. Len(s) = l BY <2>7, LenProperties
  <2> QED BY <2>4, <2>5, <2>7, <2>8
<1>5. PICK old : old = [h \in 1 .. d |-> Reordered(labels[h], gather)] OBVIOUS
<1>6. \A h \in 1 .. d : old[h] = Reordered(labels[h], gather) BY <1>5
<1>7. old \in Seq(Seq(Chunk)) /\ Len(old) = d
  <2>1. old \in [1 .. d -> Seq(Chunk)] BY <1>4, <1>5
  <2>2. old \in Seq(Seq(Chunk)) /\ DOMAIN old = 1 .. d BY <2>1, SeqDef
  <2> QED BY <2>2, LenProperties
<1>8. res = Append(old, fresh) BY <1>0, <1>1, <1>5 DEF Relabelled
<1>9. /\ res \in Seq(Seq(Chunk)) /\ Len(res) = d + 1
      /\ \A h \in 1 .. d : res[h] = old[h]
      /\ res[d + 1] = fresh
  BY <1>7, <1>8, AppendProperties
<1>10. \A h \in 1 .. d : Len(res[h]) = l /\ \A i \in 1 .. l : res[h][i] = labels[h][gather[i]]
  <2> SUFFICES ASSUME NEW h \in 1 .. d
               PROVE  Len(res[h]) = l /\ \A i \in 1 .. l : res[h][i] = labels[h][gather[i]]
    OBVIOUS
  <2>1. res[h] = Reordered(labels[h], gather) BY <1>6, <1>9
  <2> QED BY <2>1, <1>4
<1> QED BY <1>0, <1>1, <1>2, <1>9, <1>10 DEF Regathered

\* A level of the fused walk does what build_path_state does.
LEMMA StandsStep ==
  ASSUME NEW len \in Nat, NEW t, WellFormed(t, len, FALSE), NEW w, Stands(w, t), NEW o \in Chunk
  PROVE  Stands(FusedStep(w, o), Child(t, o, FALSE, 1))
<1>1. PICK T \in SUBSET Nat : T = 0 .. len - 1 BY TokensAre
<1>2. PICK ids \in Seq(T) : ids = t.ids /\ ids = w.ids /\ Pairwise(ids, Apart)
  BY <1>1 DEF WellFormed, Stands
<1>3. t.ids \in Seq(T) /\ Pairwise(t.ids, Apart) BY <1>2
<1>4. PICK size \in Nat : size = Len(ids) /\ DOMAIN ids = 1 .. size BY LenProperties
<1>5. PICK kid : kid = Child(t, o, FALSE, 1) OBVIOUS
<1>6. PICK gather \in Seq(1 .. size) : gather = Gathered(size, o) /\ kid.ids = Along(gather, ids)
  BY <1>2, <1>3, <1>4, <1>5, GatheredIs
<1>7. PICK l \in Nat : l = Len(gather) /\ DOMAIN gather = 1 .. l BY LenProperties
<1>8. \A i \in 1 .. l : gather[i] \in 1 .. size BY <1>7, ElementOfSeq
<1>9. kid.ids = [i \in 1 .. l |-> ids[gather[i]]] BY <1>6, <1>7 DEF Along
<1>10. kid.ids \in Seq(T) /\ Len(kid.ids) = l
  <2>1. \A i \in 1 .. l : ids[gather[i]] \in T BY <1>4, <1>8, ElementOfSeq
  <2>2. kid.ids \in [1 .. l -> T] BY <1>9, <2>1
  <2>3. kid.ids \in Seq(T) /\ DOMAIN kid.ids = 1 .. l BY <2>2, SeqDef
  <2> QED BY <2>3, LenProperties
<1>11. CASE size = 0
  <2>1. FusedStep(w, o) = w BY <1>2, <1>4, <1>11 DEF FusedStep
  <2>2. l = 0 BY <1>8, <1>11
  <2>3. kid.ids = <<>> /\ ids = <<>> BY <1>4, <1>10, <1>11, <2>2, EmptySeq
  <2>4. 1 .. Len(w.ids) = {} BY <1>2, <1>4, <1>11
  <2>5. Stands(w, kid) BY <1>2, <2>3, <2>4 DEF Stands
  <2> QED BY <1>5, <2>1, <2>5
<1>12. CASE size # 0
  <2>1. PICK labels \in Seq(Seq(Chunk)), owners \in Seq(Chunk) :
          labels = w.labels /\ owners = w.owners /\ Len(labels) = Len(owners)
    BY DEF Stands
  <2>2. PICK d \in Nat : d = Len(labels) BY LenProperties
  <2>3. \A h \in 1 .. d : Len(labels[h]) = size BY <1>2, <1>4, <2>1, <2>2 DEF Stands
  <2>4. PICK fresh : fresh = [i \in 1 .. l |-> LabelOf(size, gather[i])] OBVIOUS
  <2>5. fresh \in Seq(Chunk) /\ Len(fresh) = l
    <3>1. ASSUME NEW i \in 1 .. l PROVE LabelOf(size, gather[i]) \in Chunk
      <4>1. gather[i] \in 1 .. Len(ids) BY <1>4, <1>8
      <4> QED BY <4>1, <1>4, LabelIs
    <3>2. fresh \in [1 .. l -> Chunk] BY <3>1, <2>4
    <3>3. fresh \in Seq(Chunk) /\ DOMAIN fresh = 1 .. l BY <3>2, SeqDef
    <3> QED BY <3>3, LenProperties
  <2>6. PICK labels2, owners2 : labels2 = Relabelled(labels, gather, fresh) /\ owners2 = Append(owners, o)
    OBVIOUS
  <2>7. PICK v : v = FusedStep(w, o) OBVIOUS
  <2>8. /\ v.ids = kid.ids /\ v.labels = labels2 /\ v.owners = owners2
    <3>1. Len(w.ids) = size /\ Len(w.ids) # 0 BY <1>2, <1>4, <1>12
    <3>2. v = [ids |-> [i \in 1 .. l |-> ids[gather[i]]],
               owners |-> Append(owners, o),
               labels |-> Append([h \in DOMAIN labels |-> Reordered(labels[h], gather)],
                                 [i \in 1 .. l |-> LabelOf(size, gather[i])])]
      BY <3>1, <1>2, <1>6, <1>7, <2>1, <2>7 DEF FusedStep
    <3> QED BY <3>2, <1>9, <2>4, <2>6 DEF Relabelled
  <2>9. /\ labels2 \in Seq(Seq(Chunk)) /\ Len(labels2) = d + 1
        /\ \A h \in 1 .. d : Len(labels2[h]) = l
        /\ \A h \in 1 .. d, i \in 1 .. l : labels2[h][i] = labels[h][gather[i]]
        /\ labels2[d + 1] = fresh
    <3>1. \A h \in 1 .. Len(labels) : Len(labels[h]) = size BY <2>2, <2>3
    <3>2. Regathered(labels2, labels, gather, fresh)
      <4>1. PICK S : S = 1 .. size OBVIOUS
      <4>2. gather \in Seq(S) /\ fresh \in Seq(Chunk) BY <4>1, <2>5
      <4> QED BY <3>1, <4>1, <4>2, <2>6, RelabelledIs
    <3> QED BY <3>2, <1>7, <2>2 DEF Regathered
  <2>10. /\ owners2 \in Seq(Chunk) /\ Len(owners2) = d + 1
         /\ \A h \in 1 .. d : owners2[h] = owners[h]
         /\ owners2[d + 1] = o
    BY <2>1, <2>2, <2>6, AppendProperties
  <2>11. \A h \in 1 .. d + 1 : Len(labels2[h]) = l
    <3> SUFFICES ASSUME NEW h \in 1 .. d + 1 PROVE Len(labels2[h]) = l OBVIOUS
    <3>1. CASE h = d + 1 BY <3>1, <2>5, <2>9
    <3>2. CASE h # d + 1
      <4>1. h \in 1 .. d BY <3>2
      <4> QED BY <4>1, <2>9
    <3> QED BY <3>1, <3>2
  <2>12. ASSUME NEW i \in 1 .. l, NEW j \in 1 .. l
         PROVE  Masked(kid, kid.ids[i], kid.ids[j]) <=> SameRun(v, i, j)
    <3>1. PICK a \in 1 .. size, b \in 1 .. size : a = gather[i] /\ b = gather[j] BY <1>8
    <3>2. kid.ids[i] = ids[a] /\ kid.ids[j] = ids[b] BY <1>9, <3>1
    <3>3. ids[a] \in Range(kid.ids) /\ ids[b] \in Range(kid.ids)
      <4>1. DOMAIN kid.ids = 1 .. l BY <1>9
      <4> QED BY <4>1, <3>2 DEF Range
    <3>4. Masked(kid, ids[a], ids[b]) <=>
            \/ Masked(t, ids[a], ids[b])
            \/ \E k \in Chunk : /\ Gathers(o, k) /\ k # o
                                /\ ids[a] \in Range(Segment(ids, 1, k))
                                /\ ids[b] \in Range(Segment(ids, 1, k))
      <4>1. PICK al \in Nat \ {0} : al = 1 OBVIOUS
      <4>2. PICK srt \in BOOLEAN : srt = FALSE OBVIOUS
      <4>3. PICK x, y : x = ids[a] /\ y = ids[b] OBVIOUS
      <4>4. x \in Range(Child(t, o, srt, al).ids) /\ y \in Range(Child(t, o, srt, al).ids)
        BY <3>3, <4>1, <4>2, <4>3, <1>5
      <4>5. Masked(Child(t, o, srt, al), x, y) <=>
              \/ Masked(t, x, y)
              \/ \E k \in Chunk : /\ Gathers(o, k) /\ k # o
                                  /\ x \in Range(Segment(t.ids, al, k))
                                  /\ y \in Range(Segment(t.ids, al, k))
        BY <1>3, <4>4, ChildMasks
      <4> QED BY <4>1, <4>2, <4>3, <4>5, <1>2, <1>5
    <3>5. Masked(t, ids[a], ids[b]) <=> SameRun(w, a, b) BY <1>2, <1>4 DEF Stands
    <3>6. \A k \in Chunk : /\ fresh[i] = k <=> ids[a] \in Range(Segment(ids, 1, k))
                           /\ fresh[j] = k <=> ids[b] \in Range(Segment(ids, 1, k))
      <4>1. fresh[i] = LabelOf(Len(ids), a) /\ fresh[j] = LabelOf(Len(ids), b) BY <1>4, <2>4, <3>1
      <4>2. a \in 1 .. Len(ids) /\ b \in 1 .. Len(ids) BY <1>4
      <4> QED BY <4>1, <4>2, <1>2, LabelSegment
    <3>7. SameRun(w, a, b) <=>
            \E h \in 1 .. d, k \in Chunk :
              /\ Gathers(owners[h], k) /\ k # owners[h] /\ labels[h][a] = k /\ labels[h][b] = k
      BY <2>1, <2>2 DEF SameRun
    <3>8. SameRun(v, i, j) <=>
            \E h \in 1 .. d + 1, k \in Chunk :
              /\ Gathers(owners2[h], k) /\ k # owners2[h] /\ labels2[h][i] = k /\ labels2[h][j] = k
      BY <2>8, <2>9 DEF SameRun
    <3>9. ASSUME NEW h \in 1 .. d
          PROVE  /\ h \in 1 .. d + 1 /\ owners2[h] = owners[h]
                 /\ labels2[h][i] = labels[h][a] /\ labels2[h][j] = labels[h][b]
      <4>1. h \in 1 .. d + 1 OBVIOUS
      <4>2. owners2[h] = owners[h] BY <2>10
      <4>3. labels2[h][i] = labels[h][gather[i]] /\ labels2[h][j] = labels[h][gather[j]] BY <2>9
      <4> QED BY <4>1, <4>2, <4>3, <3>1
    <3>10. ASSUME SameRun(w, a, b) PROVE SameRun(v, i, j)
      <4>1. PICK h \in 1 .. d, k \in Chunk :
              /\ Gathers(owners[h], k) /\ k # owners[h] /\ labels[h][a] = k /\ labels[h][b] = k
        BY <3>7, <3>10
      <4>2. /\ h \in 1 .. d + 1
            /\ Gathers(owners2[h], k) /\ k # owners2[h] /\ labels2[h][i] = k /\ labels2[h][j] = k
        BY <4>1, <3>9
      <4> QED BY <4>2, <3>8
    <3>11. ASSUME NEW k \in Chunk, Gathers(o, k), k # o, fresh[i] = k, fresh[j] = k PROVE SameRun(v, i, j)
      <4>1. d + 1 \in 1 .. d + 1 OBVIOUS
      <4> QED BY <4>1, <3>8, <3>11, <2>9, <2>10
    <3>12. ASSUME SameRun(v, i, j)
           PROVE  SameRun(w, a, b) \/ \E k \in Chunk : Gathers(o, k) /\ k # o /\ fresh[i] = k /\ fresh[j] = k
      <4>1. PICK h \in 1 .. d + 1, k \in Chunk :
              /\ Gathers(owners2[h], k) /\ k # owners2[h] /\ labels2[h][i] = k /\ labels2[h][j] = k
        BY <3>8, <3>12
      <4>2. CASE h = d + 1 BY <4>1, <4>2, <2>9, <2>10
      <4>3. CASE h # d + 1
        <5>1. h \in 1 .. d BY <4>3
        <5>2. Gathers(owners[h], k) /\ k # owners[h] /\ labels[h][a] = k /\ labels[h][b] = k
          BY <5>1, <4>1, <3>9
        <5> QED BY <5>1, <5>2, <3>7
      <4> QED BY <4>2, <4>3
    <3> QED BY <3>2, <3>4, <3>5, <3>6, <3>10, <3>11, <3>12
  <2>13. Stands(v, kid) BY <1>10, <2>8, <2>9, <2>10, <2>11, <2>12 DEF Stands
  <2> QED BY <1>5, <2>7, <2>13
<1> QED BY <1>11, <1>12

\* The fused walk before its first level.
WholeCall(len) == [ids |-> [i \in 1 .. len |-> i - 1], owners |-> <<>>, labels |-> <<>>]

FusesDown(w, len, path, k) ==
  \A i \in 0 .. k : w[i] = IF i = 0 THEN WholeCall(len) ELSE FusedStep(w[i - 1], path[i])

\* The fused operator walks down level by level.
LEMMA FusedWalks ==
  ASSUME NEW len, NEW k \in Nat, NEW path \in [1 .. k -> Chunk]
  PROVE  \E w : FusesDown(w, len, path, k) /\ FusedWalk(len, path) = w[k]
<1> DEFINE Is(w, j) == w = [i \in 0 .. j |-> IF i = 0 THEN WholeCall(len) ELSE FusedStep(w[i - 1], path[i])]
           Have == {j \in Nat : \E w : Is(w, j)}
<1>1. 0 \in Have
  <2>1. Is([i \in 0 .. 0 |-> WholeCall(len)], 0) OBVIOUS
  <2> HIDE DEF Is
  <2> QED BY <2>1
<1>2. ASSUME NEW j \in Nat, j < k, j \in Have PROVE j + 1 \in Have
  <2>1. PICK w : Is(w, j)
    <3> HIDE DEF Is
    <3> QED BY <1>2
  <2> DEFINE g == [i \in 0 .. j + 1 |-> IF i < j + 1 THEN w[i] ELSE FusedStep(w[j], path[i])]
  <2>2. \A i \in 0 .. j : w[i] = IF i = 0 THEN WholeCall(len) ELSE FusedStep(w[i - 1], path[i])
    BY <2>1
  <2>3. \A i \in 0 .. j + 1 : g[i] = IF i = 0 THEN WholeCall(len) ELSE FusedStep(g[i - 1], path[i])
    <3> SUFFICES ASSUME NEW i \in 0 .. j + 1
                 PROVE  g[i] = IF i = 0 THEN WholeCall(len) ELSE FusedStep(g[i - 1], path[i])
      OBVIOUS
    <3>0. g[i] = IF i < j + 1 THEN w[i] ELSE FusedStep(w[j], path[i]) OBVIOUS
    <3>1. CASE i = j + 1
      <4>1. j \in 0 .. j + 1 /\ j < j + 1 /\ i - 1 = j /\ i # 0 /\ ~ (i < j + 1) BY <3>1
      <4>2. g[j] = w[j] BY <4>1
      <4> HIDE DEF g
      <4> QED BY <3>0, <4>1, <4>2
    <3>2. CASE i # j + 1
      <4>1. i \in 0 .. j /\ i < j + 1 BY <3>2
      <4>2. i # 0 => i - 1 \in 0 .. j + 1 /\ g[i - 1] = w[i - 1] BY <3>2
      <4> HIDE DEF g
      <4> QED BY <2>2, <3>0, <4>1, <4>2
    <3> QED BY <3>1, <3>2
  <2>4. Is(g, j + 1)
    <3>1. g = [i \in 0 .. j + 1 |-> g[i]] OBVIOUS
    <3> HIDE DEF g
    <3>2. g = [i \in 0 .. j + 1 |-> IF i = 0 THEN WholeCall(len) ELSE FusedStep(g[i - 1], path[i])]
      BY <2>3, <3>1
    <3> QED BY <3>2
  <2> HIDE DEF Is
  <2> QED BY <2>4
<1>3. \E w : Is(w, k)
  <2> HIDE DEF Have
  <2>1. \A j \in 0 .. k : j \in Have BY <1>1, <1>2, UpTo
  <2>2. k \in Have BY <2>1
  <2> HIDE DEF Is
  <2> QED BY <2>2 DEF Have
<1>4. Len(path) = k
  <2>1. path \in Seq(Chunk) BY SeqDef
  <2> QED BY <2>1, LenProperties
<1>5. FusedWalk(len, path) = (CHOOSE w : Is(w, k))[k] BY <1>4 DEF FusedWalk, WholeCall
<1>6. PICK w : Is(w, k) /\ FusedWalk(len, path) = w[k]
  <2> HIDE DEF Is
  <2> QED BY <1>3, <1>5
<1>7. FusesDown(w, len, path, k) BY <1>6 DEF FusesDown
<1> HIDE DEF Is
<1> QED BY <1>6, <1>7

\* Both walks start with the whole call.
LEMMA StandsStart ==
  ASSUME NEW len \in Nat
  PROVE  Stands(WholeCall(len), Root(len))
<1>1. PICK w, t : w = WholeCall(len) /\ t = Root(len) OBVIOUS
<1>2. w.ids = t.ids /\ w.owners = <<>> /\ w.labels = <<>> /\ t.groups = {}
  BY <1>1 DEF WholeCall, Root
<1>3. <<>> \in Seq(Seq(Chunk)) /\ <<>> \in Seq(Chunk) /\ Len(<<>>) = 0 BY EmptySeq
<1>4. 1 .. Len(w.labels) = {} BY <1>2, <1>3
<1>5. \A i, j : ~ SameRun(w, i, j) BY <1>4 DEF SameRun
<1>6. \A x, y : ~ Masked(t, x, y) BY <1>2 DEF Masked
<1>7. Stands(w, t) BY <1>2, <1>3, <1>4, <1>5, <1>6 DEF Stands
<1> QED BY <1>1, <1>7

\* At the end of every path the fused operator stands where the reference does.
LEMMA WalksAgree ==
  ASSUME NEW len \in Nat, NEW k \in Nat, NEW path \in [1 .. k -> Chunk]
  PROVE  Stands(FusedWalk(len, path), AtPath(len, path, FALSE, 1))
<1>1. PICK al \in Nat \ {0} : al = 1 OBVIOUS
<1>2. PICK srt \in BOOLEAN : srt = FALSE OBVIOUS
<1>3. PICK v : WalksDown(v, len, path, k, srt, al) /\ AtPath(len, path, srt, al) = v[k]
  BY AtPathWalks
<1>4. PICK w : FusesDown(w, len, path, k) /\ FusedWalk(len, path) = w[k] BY FusedWalks
<1> DEFINE Good == {i \in Nat : i <= k => Stands(w[i], v[i]) /\ WellFormed(v[i], len, srt)}
<1>5. 0 \in Good
  <2>1. 0 \in 0 .. k OBVIOUS
  <2>2. w[0] = WholeCall(len) /\ v[0] = Root(len) BY <2>1, <1>3, <1>4 DEF WalksDown, FusesDown
  <2>3. Stands(w[0], v[0]) BY <2>2, StandsStart
  <2>4. WellFormed(v[0], len, srt) BY <2>2, RootWellFormed
  <2> QED BY <2>3, <2>4
<1>6. ASSUME NEW i \in Nat, i < k, i \in Good PROVE i + 1 \in Good
  <2>1. i + 1 \in 0 .. k /\ i + 1 # 0 /\ (i + 1) - 1 = i /\ i + 1 \in 1 .. k /\ i <= k BY <1>6
  <2>2. PICK o \in Chunk : o = path[i + 1] BY <2>1
  <2>3. PICK x, t : x = w[i] /\ t = v[i] OBVIOUS
  <2>4. w[i + 1] = FusedStep(x, o) BY <2>1, <2>2, <2>3, <1>4 DEF FusesDown
  <2>5. v[i + 1] = Child(t, o, srt, al) BY <2>1, <2>2, <2>3, <1>3 DEF WalksDown
  <2>6. Stands(x, t) /\ WellFormed(t, len, srt) BY <2>1, <2>3, <1>6
  <2>7. Stands(FusedStep(x, o), Child(t, o, FALSE, 1)) BY <2>6, <1>2, StandsStep
  <2>8. WellFormed(Child(t, o, srt, al), len, srt) BY <2>6, ChildWellFormed
  <2>9. Child(t, o, srt, al) = Child(t, o, FALSE, 1) BY <1>1, <1>2
  <2>10. Stands(w[i + 1], v[i + 1]) BY <2>4, <2>5, <2>7, <2>9
  <2>11. WellFormed(v[i + 1], len, srt) BY <2>5, <2>8
  <2> QED BY <2>10, <2>11
<1>7. Stands(w[k], v[k])
  <2> HIDE DEF Good
  <2>1. \A i \in 0 .. k : i \in Good BY <1>5, <1>6, UpTo
  <2>2. k \in Good BY <2>1
  <2> QED BY <2>2 DEF Good
<1> QED BY <1>1, <1>2, <1>3, <1>4, <1>7

\* Equal tokens and labels that tell what the groups tell keep the same pairs.
LEMMA KeptAlike ==
  ASSUME NEW T, NEW t, t.ids \in Seq(T), NEW w, Stands(w, t)
  PROVE  FusedKept(w) = Kept(t, FALSE)
<1>1. PICK ids \in Seq(T) : ids = t.ids /\ ids = w.ids BY DEF Stands
<1>2. PICK size \in Nat : size = Len(ids) /\ DOMAIN ids = 1 .. size BY LenProperties
<1>3. PICK d \in Nat : d = Len(w.labels) /\ DOMAIN w.labels = 1 .. d
  <2>1. w.labels \in Seq(Seq(Chunk)) BY DEF Stands
  <2> QED BY <2>1, LenProperties
<1>4. ASSUME NEW h \in 1 .. d PROVE DOMAIN w.labels[h] = 1 .. size /\ w.owners[h] \in Chunk
  <2>1. /\ w.labels \in Seq(Seq(Chunk)) /\ w.owners \in Seq(Chunk) /\ Len(w.labels) = Len(w.owners)
        /\ Len(w.labels[h]) = size
    BY <1>1, <1>2, <1>3 DEF Stands
  <2>2. w.labels[h] \in Seq(Chunk) BY <1>3, <2>1, ElementOfSeq
  <2>3. DOMAIN w.labels[h] = 1 .. size BY <2>1, <2>2, LenProperties
  <2>4. h \in 1 .. Len(w.owners) BY <1>3, <2>1
  <2>5. w.owners[h] \in Chunk BY <2>1, <2>4, ElementOfSeq
  <2> QED BY <2>3, <2>5
<1>5. PICK groups : groups = FusedGroups(w) OBVIOUS
<1>6. \A g : g \in groups <=> g # {} /\ \E h \in 1 .. d : g \in LevelGroups(w.labels[h], w.owners[h])
  BY <1>3, <1>5 DEF FusedGroups
<1>7. ASSUME NEW i \in 1 .. size, NEW j \in 1 .. size
      PROVE  (\E g \in groups : i \in g /\ j \in g) <=> SameRun(w, i, j)
  <2>1. ASSUME NEW g \in groups, i \in g, j \in g PROVE SameRun(w, i, j)
    <3>0. PICK h \in 1 .. d : g \in LevelGroups(w.labels[h], w.owners[h]) BY <1>6
    <3>1. PICK k : /\ k \in Range(FusedQuorum(w.owners[h])) /\ k # w.owners[h]
                   /\ g = Labelled(w.labels[h], k)
      BY <3>0 DEF LevelGroups
    <3>2. Gathers(w.owners[h], k) /\ k # w.owners[h] /\ k \in Chunk
      <4>1. PICK o \in Chunk : o = w.owners[h] BY <1>4
      <4>2. PICK m \in Nat \ {0} :
              /\ FusedQuorum(o) \in [1 .. m -> Chunk]
              /\ \A l : l \in Range(FusedQuorum(o)) <=> Gathers(o, l)
        BY FusedQuorumIs
      <4>3. k \in Range(FusedQuorum(o)) /\ k # o BY <3>1, <4>1
      <4>4. k \in Chunk BY <4>2, <4>3 DEF Range
      <4> QED BY <4>1, <4>2, <4>3, <4>4
    <3>3. w.labels[h][i] = k /\ w.labels[h][j] = k BY <2>1, <3>1 DEF Labelled
    <3> QED BY <1>3, <3>2, <3>3 DEF SameRun
  <2>2. ASSUME SameRun(w, i, j) PROVE \E g \in groups : i \in g /\ j \in g
    <3>1. PICK h \in 1 .. d, k \in Chunk :
            /\ Gathers(w.owners[h], k) /\ k # w.owners[h]
            /\ w.labels[h][i] = k /\ w.labels[h][j] = k
      BY <1>3, <2>2 DEF SameRun
    <3>2. PICK o \in Chunk : o = w.owners[h] BY <1>4
    <3>3. \A l : l \in Range(FusedQuorum(o)) <=> Gathers(o, l) BY FusedQuorumIs
    <3>4. k \in Range(FusedQuorum(w.owners[h])) /\ k # w.owners[h] BY <3>1, <3>2, <3>3
    <3>5. PICK g : g = Labelled(w.labels[h], k) OBVIOUS
    <3>6. i \in g /\ j \in g BY <1>4, <3>1, <3>5 DEF Labelled
    <3>7. g \in LevelGroups(w.labels[h], w.owners[h]) BY <3>4, <3>5 DEF LevelGroups
    <3>8. g \in groups BY <1>6, <3>6, <3>7
    <3> QED BY <3>6, <3>8
  <2> QED BY <2>1, <2>2
<1>8. \A p : p \in FusedKept(w) <=>
        \E i, j \in 1 .. size : /\ p = <<ids[i], ids[j]>>
                                /\ ~ \E g \in groups : i \in g /\ j \in g
  <2>1. FusedKept(w) =
          {<<ids[q[1]], ids[q[2]]>> :
             q \in {q \in (1 .. size) \X (1 .. size) : ~ \E g \in groups : q[1] \in g /\ q[2] \in g}}
    BY <1>1, <1>2, <1>5 DEF FusedKept
  <2>2. PICK Q : Q = {q \in (1 .. size) \X (1 .. size) : ~ \E g \in groups : q[1] \in g /\ q[2] \in g}
    OBVIOUS
  <2>3. \A p : p \in FusedKept(w) <=> \E q \in Q : p = <<ids[q[1]], ids[q[2]]>> BY <2>1, <2>2
  <2>4. \A i, j : <<i, j>> \in Q <=> /\ i \in 1 .. size /\ j \in 1 .. size
                                    /\ ~ \E g \in groups : i \in g /\ j \in g
    BY <2>2
  <2>5. \A q \in Q : q = <<q[1], q[2]>> BY <2>2
  <2>6. ASSUME NEW p, NEW q \in Q, p = <<ids[q[1]], ids[q[2]]>>
        PROVE  \E i, j \in 1 .. size : p = <<ids[i], ids[j]>> /\ ~ \E g \in groups : i \in g /\ j \in g
    <3>1. PICK i, j : i = q[1] /\ j = q[2] OBVIOUS
    <3>2. <<i, j>> \in Q BY <2>5, <3>1
    <3> QED BY <2>4, <2>6, <3>1, <3>2
  <2>7. ASSUME NEW p, NEW i \in 1 .. size, NEW j \in 1 .. size, p = <<ids[i], ids[j]>>,
               ~ \E g \in groups : i \in g /\ j \in g
        PROVE  \E q \in Q : p = <<ids[q[1]], ids[q[2]]>>
    <3>1. <<i, j>> \in Q BY <2>4, <2>7
    <3> QED BY <2>7, <3>1
  <2> QED BY <2>3, <2>6, <2>7
<1>9. \A i, j \in 1 .. size : Masked(t, ids[i], ids[j]) <=> SameRun(w, i, j)
  BY <1>1, <1>2 DEF Stands
<1>10. \A x : x \in Range(ids) <=> \E i \in 1 .. size : x = ids[i] BY <1>2 DEF Range
<1>11. \A p : p \in Kept(t, FALSE) <=>
         \E i, j \in 1 .. size : p = <<ids[i], ids[j]>> /\ ~ Masked(t, ids[i], ids[j])
  <2>1. Kept(t, FALSE) = {p \in Range(ids) \X Range(ids) : ~ Masked(t, p[1], p[2])}
    BY <1>1 DEF Kept
  <2>2. ASSUME NEW p, p \in Kept(t, FALSE)
        PROVE  \E i, j \in 1 .. size : p = <<ids[i], ids[j]>> /\ ~ Masked(t, ids[i], ids[j])
    <3>1. /\ p = <<p[1], p[2]>> /\ p[1] \in Range(ids) /\ p[2] \in Range(ids)
          /\ ~ Masked(t, p[1], p[2])
      <4>1. p \in Range(ids) \X Range(ids) /\ ~ Masked(t, p[1], p[2]) BY <2>1, <2>2
      <4> QED BY <4>1
    <3>2. PICK i \in 1 .. size : p[1] = ids[i] BY <3>1, <1>10
    <3>3. PICK j \in 1 .. size : p[2] = ids[j] BY <3>1, <1>10
    <3> QED BY <3>1, <3>2, <3>3
  <2>3. ASSUME NEW p, NEW i \in 1 .. size, NEW j \in 1 .. size, p = <<ids[i], ids[j]>>,
               ~ Masked(t, ids[i], ids[j])
        PROVE  p \in Kept(t, FALSE)
    <3>1. ids[i] \in Range(ids) /\ ids[j] \in Range(ids) BY <1>10
    <3>2. p \in Range(ids) \X Range(ids) /\ p[1] = ids[i] /\ p[2] = ids[j] BY <2>3, <3>1
    <3> QED BY <2>1, <2>3, <3>2
  <2> QED BY <2>2, <2>3
<1>12. \A p : p \in FusedKept(w) <=> p \in Kept(t, FALSE)
  <2>1. ASSUME NEW i \in 1 .. size, NEW j \in 1 .. size
        PROVE  Masked(t, ids[i], ids[j]) <=> \E g \in groups : i \in g /\ j \in g
    BY <1>7, <1>9
  <2>2. ASSUME NEW p, p \in FusedKept(w) PROVE p \in Kept(t, FALSE)
    <3>1. PICK i \in 1 .. size, j \in 1 .. size :
            p = <<ids[i], ids[j]>> /\ ~ \E g \in groups : i \in g /\ j \in g
      BY <1>8, <2>2
    <3>2. ~ Masked(t, ids[i], ids[j]) BY <2>1, <3>1
    <3> QED BY <1>11, <3>1, <3>2
  <2>3. ASSUME NEW p, p \in Kept(t, FALSE) PROVE p \in FusedKept(w)
    <3>1. PICK i \in 1 .. size, j \in 1 .. size : p = <<ids[i], ids[j]>> /\ ~ Masked(t, ids[i], ids[j])
      BY <1>11, <2>3
    <3>2. ~ \E g \in groups : i \in g /\ j \in g BY <2>1, <3>1
    <3> QED BY <1>8, <3>1, <3>2
  <2> QED BY <2>2, <2>3
<1> QED BY <1>12, Zenon

-----------------------------------------------------------------------------
(* The two implementations agree. *)

\* The subproblem at hand is the one build_path_state has at the end of its path.
WalkedTo == task = AtPath(n, task.path, sorted, align)

\* The call is at the end of the empty path.
LEMMA InitWalkedTo == TreeInit => WalkedTo
<1> SUFFICES ASSUME TreeInit PROVE WalkedTo OBVIOUS
<1>1. task = Root(n) /\ task.path = <<>> BY DEF TreeInit, Root
<1>2. PICK path : path = <<>> OBVIOUS
<1>3. path \in [1 .. 0 -> Chunk]
  <2>1. path \in Seq(Chunk) /\ Len(path) = 0 BY <1>2, EmptySeq
  <2>2. path \in [1 .. Len(path) -> Chunk] BY <2>1, LenProperties, ElementOfSeq
  <2> QED BY <2>1, <2>2
<1>4. AtPath(n, path, sorted, align) = Root(n) BY <1>3, AtPathRoot
<1> QED BY <1>1, <1>2, <1>4 DEF WalkedTo

\* A path of k owners and one more.
LEMMA PathOneMore ==
  ASSUME NEW path \in Seq(Chunk), NEW o \in Chunk, NEW len, NEW srt, NEW al
  PROVE  AtPath(len, Append(path, o), srt, al) = Child(AtPath(len, path, srt, al), o, srt, al)
<1>1. PICK k \in Nat : k = Len(path) /\ DOMAIN path = 1 .. k BY LenProperties
<1>2. \A i \in 1 .. k : path[i] \in Chunk BY <1>1, ElementOfSeq
<1>3. PICK more : more = Append(path, o) OBVIOUS
<1>4. /\ more \in Seq(Chunk) /\ Len(more) = k + 1
      /\ \A i \in 1 .. k : more[i] = path[i]
      /\ more[k + 1] = o
  BY <1>1, <1>3, AppendProperties
<1>5. more \in [1 .. k + 1 -> Chunk]
  <2>1. DOMAIN more = 1 .. k + 1 BY <1>4, LenProperties
  <2>2. \A i \in 1 .. k + 1 : more[i] \in Chunk BY <1>4, ElementOfSeq
  <2>3. more = [i \in 1 .. k + 1 |-> more[i]] BY <1>4, <2>1
  <2> QED BY <2>2, <2>3
<1>6. [i \in 1 .. k |-> more[i]] = path
  <2>1. path = [i \in 1 .. k |-> path[i]] BY <1>1
  <2> QED BY <2>1, <1>4
<1>7. AtPath(len, more, srt, al) =
        Child(AtPath(len, [i \in 1 .. k |-> more[i]], srt, al), more[k + 1], srt, al)
  BY <1>5, AtPathStep
<1> QED BY <1>3, <1>4, <1>6, <1>7

\* refine_task appends the owner to the path it descends by.
LEMMA NextWalkedTo == TreeTypeOK /\ WalkedTo /\ [TreeNext]_treeVars => WalkedTo'
<1> SUFFICES ASSUME TreeTypeOK, WalkedTo, [TreeNext]_treeVars PROVE WalkedTo' OBVIOUS
<1>1. CASE TreeNext
  <2>1. /\ n' = n /\ sorted' = sorted /\ align' = align
        /\ task' \in Range(Children(task, sorted, align))
    BY <1>1 DEF TreeNext, Refine
  <2>2. /\ n \in Nat /\ sorted \in BOOLEAN /\ align \in Nat \ {0} /\ task.path \in Seq(Chunk)
    BY LengthsAreNat DEF TreeTypeOK
  <2>3. PICK m \in Nat : \E own \in [1 .. m -> Chunk] : OwnedBy(task, sorted, align, m, own)
    BY <2>2, ChildrenAre
  <2>4. PICK own \in [1 .. m -> Chunk] :
          Children(task, sorted, align) = [i \in 1 .. m |-> Child(task, own[i], sorted, align)]
    BY <2>3 DEF OwnedBy
  <2>5. PICK i \in 1 .. m : task' = Child(task, own[i], sorted, align) BY <2>1, <2>4 DEF Range
  <2>6. PICK o \in Chunk : o = own[i] OBVIOUS
  <2>7. PICK path \in Seq(Chunk) : path = task.path BY <2>2
  <2>8. PICK t, len, srt, al : t = task /\ len = n /\ srt = sorted /\ al = align OBVIOUS
  <2>9. AtPath(len, Append(path, o), srt, al) = Child(AtPath(len, path, srt, al), o, srt, al)
    BY PathOneMore
  <2>10. t = AtPath(len, path, srt, al) BY <2>7, <2>8 DEF WalkedTo
  <2>11. task' = Child(t, o, srt, al) /\ task'.path = Append(path, o)
    BY <2>5, <2>6, <2>7, <2>8 DEF Child
  <2>12. n' = len /\ sorted' = srt /\ align' = al BY <2>1, <2>8
  <2>13. task' = AtPath(n', task'.path, sorted', align') BY <2>9, <2>10, <2>11, <2>12
  <2> QED BY <2>13 DEF WalkedTo
<1>2. CASE UNCHANGED treeVars BY <1>2 DEF treeVars, WalkedTo
<1> QED BY <1>1, <1>2

\* Refining a subproblem when memory runs out leads to the subproblems that a
\* uniform decomposition of the call has at the same paths: build_path_state can
\* rebuild any of them from its path alone.
THEOREM TasksByPath == TreeSpec => []WalkedTo
<1>1. TreeInit => TreeTypeOK /\ WalkedTo BY TreeInitType, InitWalkedTo
<1>2. TreeTypeOK /\ WalkedTo /\ [TreeNext]_treeVars => (TreeTypeOK /\ WalkedTo)' BY TreeNextType, NextWalkedTo
<1> QED BY <1>1, <1>2, PTL DEF TreeSpec

\* What the fused operator computes for a path is the reference's subproblem.
LEMMA FusedIs ==
  ASSUME NEW len \in Nat, NEW k \in Nat, NEW path \in [1 .. k -> Chunk]
  PROVE  /\ FusedWalk(len, path).ids = AtPath(len, path, FALSE, 1).ids
         /\ FusedKept(FusedWalk(len, path)) = Kept(AtPath(len, path, FALSE, 1), FALSE)
<1>1. Stands(FusedWalk(len, path), AtPath(len, path, FALSE, 1)) BY WalksAgree
<1>2. WellFormed(AtPath(len, path, FALSE, 1), len, FALSE)
  <2>1. PICK al \in Nat \ {0} : al = 1 OBVIOUS
  <2>2. PICK srt \in BOOLEAN : srt = FALSE OBVIOUS
  <2>3. WellFormed(AtPath(len, path, srt, al), len, srt) BY AtPathWellFormed
  <2> QED BY <2>1, <2>2, <2>3
<1>3. PICK T : T = 0 .. len - 1 OBVIOUS
<1>4. AtPath(len, path, FALSE, 1).ids \in Seq(T) BY <1>2, <1>3 DEF WellFormed
<1>5. FusedKept(FusedWalk(len, path)) = Kept(AtPath(len, path, FALSE, 1), FALSE)
  BY <1>1, <1>4, KeptAlike
<1> QED BY <1>1, <1>5 DEF Stands

\* The fused operator takes any number of levels: however deep, and whatever chunks
\* and paths are empty there, a pair of tokens is kept by exactly one path.
THEOREM FusedCoverOnce ==
  ASSUME NEW len \in Nat, NEW k \in Nat, NEW p \in Target(len, FALSE)
  PROVE  Cardinality({path \in [1 .. k -> Chunk] : p \in FusedKept(FusedWalk(len, path))}) = 1
<1>1. PICK al \in Nat \ {0} : al = 1 OBVIOUS
<1>2. PICK srt \in BOOLEAN : srt = FALSE OBVIOUS
<1>3. p \in Target(len, srt) BY <1>2
<1>4. PICK path \in [1 .. k -> Chunk] : OnlyPath(path, len, k, srt, al, srt, p) BY <1>3, OnePath
<1>5. OnlyPath(path, len, k, FALSE, 1, FALSE, p) BY <1>1, <1>2, <1>4
<1>6. ASSUME NEW q \in [1 .. k -> Chunk] PROVE p \in FusedKept(FusedWalk(len, q)) <=> q = path
  <2>1. FusedKept(FusedWalk(len, q)) = Kept(AtPath(len, q, FALSE, 1), FALSE) BY FusedIs
  <2> QED BY <2>1, <1>5 DEF OnlyPath
<1>7. {q \in [1 .. k -> Chunk] : p \in FusedKept(FusedWalk(len, q))} = {path} BY <1>6
<1> QED BY <1>7, FS_Singleton

\* The two agree on the subproblem at hand, and deeper.
LEMMA FusedHolds == TreeTypeOK /\ WalkedTo => FusedPathsAgree
<1> SUFFICES ASSUME TreeTypeOK, WalkedTo, ~ sorted, align = 1
             PROVE  /\ LET w == FusedWalk(n, task.path)
                       IN  w.ids = task.ids /\ FusedKept(w) = Kept(task, FALSE)
                    /\ task.path = <<>> /\ MaxDepth(n) < 2 =>
                         LET deeper == [1 .. MaxDepth(n) + 1 -> Chunk]
                             kept == [path \in deeper |-> FusedKept(FusedWalk(n, path))]
                         IN  \A p \in Target(n, FALSE) :
                               Cardinality({path \in deeper : p \in kept[path]}) = 1
  BY DEF FusedPathsAgree
<1>1. /\ n \in Nat \ {0} /\ task.path \in Seq(Chunk) /\ sorted = FALSE
  BY LengthsAreNat DEF TreeTypeOK
<1>2. PICK k \in Nat : k = Len(task.path) /\ task.path \in [1 .. k -> Chunk]
  BY <1>1, LenProperties, ElementOfSeq
<1>3. task = AtPath(n, task.path, FALSE, 1) BY <1>1 DEF WalkedTo
<1>4. /\ FusedWalk(n, task.path).ids = task.ids
      /\ FusedKept(FusedWalk(n, task.path)) = Kept(task, FALSE)
  <2>1. /\ FusedWalk(n, task.path).ids = AtPath(n, task.path, FALSE, 1).ids
        /\ FusedKept(FusedWalk(n, task.path)) = Kept(AtPath(n, task.path, FALSE, 1), FALSE)
    BY <1>1, <1>2, FusedIs
  <2> QED BY <2>1, <1>3
<1>5. PICK d \in Nat : d = MaxDepth(n) + 1 BY <1>1, MaxDepthIs
<1>6. ASSUME NEW p \in Target(n, FALSE)
      PROVE  LET deeper == [1 .. d -> Chunk]
                 kept == [path \in deeper |-> FusedKept(FusedWalk(n, path))]
             IN  Cardinality({path \in deeper : p \in kept[path]}) = 1
  <2>1. Cardinality({path \in [1 .. d -> Chunk] : p \in FusedKept(FusedWalk(n, path))}) = 1
    BY <1>1, FusedCoverOnce
  <2>2. {path \in [1 .. d -> Chunk] : p \in [q \in [1 .. d -> Chunk] |-> FusedKept(FusedWalk(n, q))][path]} =
          {path \in [1 .. d -> Chunk] : p \in FusedKept(FusedWalk(n, path))}
    OBVIOUS
  <2> QED BY <2>1, <2>2
<1> QED BY <1>4, <1>5, <1>6

\* The C++ that the fused operator decomposes with and the Python reference agree
\* for every perfect difference set, number of tokens and path: the same tokens in
\* the same order and the same kept pairs, and one level below the depth cap every
\* pair is still kept by exactly one path.
THEOREM FusedAgrees == TreeSpec => []FusedPathsAgree
<1>1. TreeInit => TreeTypeOK /\ WalkedTo BY TreeInitType, InitWalkedTo
<1>2. TreeTypeOK /\ WalkedTo /\ [TreeNext]_treeVars => (TreeTypeOK /\ WalkedTo)' BY TreeNextType, NextWalkedTo
<1>3. TreeTypeOK /\ WalkedTo => FusedPathsAgree BY FusedHolds
<1> QED BY <1>1, <1>2, <1>3, PTL DEF TreeSpec

-----------------------------------------------------------------------------
(* The loop of recovery, seen from its counters (RecoveryLoop).            *)

\* The retry budget is a positive bound whatever the arguments.
LEMMA BudgetIsNat == call \in Calls => RetryBudget \in Nat
BY LoopParameters DEF LoopParameters, RetryBudget, AtLeastOne

\* The abstract loop starts in a well-formed state.
LEMMA InitType == Init => TypeOK
<1> SUFFICES ASSUME Init PROVE TypeOK
  OBVIOUS
<1>1. call \in Calls /\ call.itr \in Nat /\ call.initial \in Nat
  BY LoopParameters DEF LoopParameters, Init
<1>2. depths \in Seq(AdmissibleDepth)
  BY <1>1 DEF Init, Copies, AdmissibleDepth
<1> QED BY <1>1, <1>2, BudgetIsNat, LoopParameters DEF LoopParameters, Init, TypeOK

\* A retry counted while the call runs stays within the budget, or is the one
\* that ends the call.
LEMMA NextType == TypeOK /\ [Next]_vars => TypeOK'
<1> SUFFICES ASSUME TypeOK, [Next]_vars PROVE TypeOK'
  OBVIOUS
<1>a. call' = call
  BY DEF Next, RunOne, LowerConcurrency, Deepen, Capped, Raise, Finish, vars
<1>b. RetryBudget' = RetryBudget /\ AdmissibleDepth' = AdmissibleDepth
  BY <1>a DEF RetryBudget, AdmissibleDepth
<1>c. RetryBudget \in Nat
  BY BudgetIsNat DEF TypeOK
<1> USE <1>a, <1>b, <1>c DEF TypeOK
<1>1. ASSUME Running
      PROVE  Head(depths) \in AdmissibleDepth /\ Tail(depths) \in Seq(AdmissibleDepth)
  BY <1>1, HeadTailProperties DEF Running
<1>2. CASE RunOne
  BY <1>1, <1>2 DEF RunOne
<1>3. CASE LowerConcurrency
  <2>1. streams' \in 1 .. NPar
    BY <1>3, LoopParameters DEF LowerConcurrency, LoopParameters
  <2> QED BY <1>3, <2>1 DEF LowerConcurrency, CountRetry, Running
<1>4. CASE Deepen
  <2>1. Running BY <1>4 DEF Deepen
  <2>2. PICK arity \in Arities : depths' = Copies(arity, Head(depths) + 1) \o Tail(depths)
    BY <1>4 DEF Deepen
  <2>3. arity \in Nat BY LoopParameters DEF LoopParameters
  <2>4. Head(depths) + 1 \in AdmissibleDepth
    BY <1>1, <1>4, <2>1, LoopParameters
    DEF Deepen, Refinable, LoopParameters, AdmissibleDepth
  <2>5. Copies(arity, Head(depths) + 1) \in Seq(AdmissibleDepth)
    BY <2>3, <2>4 DEF Copies
  <2>6. depths' \in Seq(AdmissibleDepth)
    BY <1>1, <2>1, <2>2, <2>5, ConcatProperties
  <2> QED BY <1>4, <2>1, <2>6 DEF Deepen, CountRetry, Running
<1>5. CASE Capped
  BY <1>5 DEF Capped, Running
<1>6. CASE Raise
  BY <1>6 DEF Raise
<1>7. CASE Finish
  BY <1>7 DEF Finish
<1>8. CASE UNCHANGED vars
  BY <1>8 DEF vars
<1> QED BY <1>2, <1>3, <1>4, <1>5, <1>6, <1>7, <1>8 DEF Next

\* The recovery of stream_cqsa_forward never leaves the depths refinement may
\* reach, never runs without a stream, and gives up after at most one retry
\* more than its budget.
THEOREM LoopTypeCorrect == Spec => []TypeOK
BY InitType, NextType, PTL DEF Spec

-----------------------------------------------------------------------------
(* The ladder of calls around it.                                          *)

\* A call that is started anew is as well-formed as the first one.
LEMMA AttemptType ==
  ASSUME NEW r \in 1 .. Len(Rungs), Attempt(r)
  PROVE  TypeOK'
<1>1. call' \in Calls
  BY RungsAreCalls DEF RungsAreCalls, Rungs, Attempt
<1>2. call'.itr \in Nat /\ call'.initial \in Nat
  BY <1>1, LoopParameters DEF LoopParameters
<1>3. depths' \in Seq(AdmissibleDepth')
  BY <1>2 DEF Attempt, Copies, AdmissibleDepth
<1>4. RetryBudget' \in Nat
  <2>1. AtLeastOne(call'.initial) \in Nat /\ AtLeastOne(DepthCap) \in Nat
    BY <1>2, LoopParameters DEF LoopParameters, AtLeastOne
  <2>2. \A a, b, x, y \in Nat : a + b * x * y \in Nat
    <3>1. \A x, y \in Nat : x * y \in Nat
      OBVIOUS
    <3>2. \A a, p \in Nat : a + p \in Nat
      OBVIOUS
    <3> QED BY <3>1, <3>2, Zenon
  <2>3. RetryBudget' = BaseRetries + RetriesPerTask * AtLeastOne(call'.initial) * AtLeastOne(DepthCap)
    BY DEF RetryBudget
  <2>4. BaseRetries \in Nat /\ RetriesPerTask \in Nat
    BY LoopParameters DEF LoopParameters
  <2> QED BY <2>1, <2>2, <2>3, <2>4
<1>5. streams' \in 1 .. NPar
  BY LoopParameters DEF LoopParameters, Attempt
<1>6. retries' = 0 /\ outcome' = "running"
  BY DEF Attempt
<1>7. \A b \in Nat : 0 \in 0 .. b + 1 /\ 0 <= b
  OBVIOUS
<1>8. retries' \in 0 .. RetryBudget' + 1 /\ retries' <= RetryBudget'
  BY <1>4, <1>6, <1>7, Zenon
<1> QED BY <1>1, <1>3, <1>5, <1>6, <1>8 DEF TypeOK

\* However often the ladder starts over, whatever depths its rungs begin at: no
\* attempt leaves the admissible depths, runs without a stream, or counts more
\* than one retry beyond its own budget.
THEOREM LadderTypeCorrect == LadderSpec => []TypeOK
<1>1. LadderInit => TypeOK
  BY InitType DEF LadderInit
<1>2. TypeOK /\ [LadderNext]_ladderVars => TypeOK'
  <2> SUFFICES ASSUME TypeOK, [LadderNext]_ladderVars PROVE TypeOK'
    OBVIOUS
  <2>1. CASE UNCHANGED vars
    BY <2>1, NextType
  <2>2. CASE Primary
    <3>1. CASE Attempt(1)
      <4>1. 1 \in 1 .. Len(Rungs)
        BY RungsAreCalls, EmptySeq, LenProperties DEF RungsAreCalls, Rungs
      <4> QED BY <3>1, <4>1, AttemptType
    <3> QED BY <2>1, <2>2, <3>1 DEF Primary
  <2>3. CASE Inside
    <3>1. CASE Monolithic
      <4>1. AdmissibleDepth' = AdmissibleDepth /\ RetryBudget' = RetryBudget
        BY <3>1 DEF Monolithic, AdmissibleDepth, RetryBudget
      <4> QED BY <3>1, <4>1 DEF Monolithic, TypeOK
    <3> QED BY <2>3, <3>1, NextType DEF Inside
  <2>4. CASE Escalate
    <3>1. rung + 1 \in 1 .. Len(Rungs)
      BY <2>4, RungsAreCalls, LenProperties DEF Escalate, RungsAreCalls, Rungs
    <3> QED BY <2>4, <3>1, AttemptType DEF Escalate
  <2>5. CASE Deliver
    BY <2>1, <2>5 DEF Deliver
  <2> QED BY <2>1, <2>2, <2>3, <2>4, <2>5 DEF LadderNext, ladderVars
<1> QED BY <1>1, <1>2, PTL DEF LadderSpec

=============================================================================
