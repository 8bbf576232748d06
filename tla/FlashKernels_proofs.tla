------------------------- MODULE FlashKernels_proofs -------------------------
(***************************************************************************)
(* What a warp of the attention kernels loads, reads and computes, for     *)
(* every valid launch, every number of warps and every order in which they *)
(* run: theorems of FlashKernels. First the arithmetic of the block bounds *)
(* and masks, then the code of the kernels put together from pieces, then  *)
(* the machine that runs it, then the discipline of shared memory. (The    *)
(* lemmas on sequences are taken from the module on the decomposition; its *)
(* constants play no part here.)                                           *)
(***************************************************************************)
EXTENDS FlashKernelsInv, QuorumDecomposition_proofs

-----------------------------------------------------------------------------
(* The arithmetic of the block bounds.                                      *)

\* Of two multiples of d the smaller is smaller by d at least.
LEMMA MultiplesApart ==
  ASSUME NEW d \in Nat \ {0}, NEW p \in Int, NEW q \in Int, d * p < d * q
  PROVE  d * p + d <= d * q
<1>1. ASSUME q <= p PROVE FALSE
  <2>1. PICK e \in Nat : p = q + e
    <3>1. p - q \in Nat /\ p = q + (p - q) BY <1>1
    <3> QED BY <3>1
  <2>2. d * p = d * q + d * e /\ d * e \in Nat BY <2>1
  <2> QED BY <2>2
<1>2. PICK e \in Nat : q = p + 1 + e
  <2>1. q - p - 1 \in Nat /\ q = p + 1 + (q - p - 1) BY <1>1
  <2> QED BY <2>1
<1>3. d * q = d * p + d + d * e /\ d * e \in Nat BY <1>2
<1> QED BY <1>3

\* The quotient of a number that is not negative: the last multiple up to it.
LEMMA FloorIs ==
  ASSUME NEW a \in Nat, NEW d \in Nat \ {0}
  PROVE  /\ CDiv(a, d) \in Nat
         /\ d * CDiv(a, d) <= a
         /\ a < d * CDiv(a, d) + d
<1>1. /\ a \div d \in Nat /\ a % d \in 0 .. d - 1
      /\ a = d * (a \div d) + (a % d)
  BY Division
<1>2. CDiv(a, d) = a \div d BY DEF CDiv
<1> QED BY <1>1, <1>2

\* A quotient of a negative number is none that counts.
LEMMA FloorOfNegative ==
  ASSUME NEW a \in Int, NEW d \in Nat \ {0}, a < 0
  PROVE  CDiv(a, d) \in Int /\ CDiv(a, d) <= 0
<1>1. PICK b \in Nat : b = - a OBVIOUS
<1>2. b \div d \in Nat BY <1>1, Division
<1>3. CDiv(a, d) = - (b \div d) BY <1>1 DEF CDiv
<1> QED BY <1>2, <1>3

\* k lies below a quotient rounded up just when k times the divisor lies below.
LEMMA BelowCeil ==
  ASSUME NEW a \in Int, NEW d \in Nat \ {0}, NEW k \in Nat
  PROVE  /\ CeilDiv(a, d) \in Int
         /\ k < CeilDiv(a, d) <=> d * k < a
<1>0. PICK e \in Int : e = a + d - 1 OBVIOUS
<1>1. CeilDiv(a, d) = CDiv(e, d) BY <1>0 DEF CeilDiv
<1>2. d * k \in Nat OBVIOUS
<1>3. CASE e < 0
  <2>1. CDiv(e, d) \in Int /\ CDiv(e, d) <= 0 BY <1>3, FloorOfNegative
  <2> QED BY <1>0, <1>1, <1>2, <1>3, <2>1
<1>4. CASE ~ (e < 0)
  <2>1. PICK f \in Nat : f = CDiv(e, d) /\ d * f <= e /\ e < d * f + d
    <3>1. e \in Nat BY <1>4
    <3> QED BY <3>1, FloorIs
  <2>2. CASE k < f
    <3>1. PICK g \in Nat : f = k + 1 + g
      <4>1. f - k - 1 \in Nat /\ f = k + 1 + (f - k - 1) BY <2>2
      <4> QED BY <4>1
    <3>2. d * f = d * k + d + d * g /\ d * g \in Nat BY <3>1
    <3> QED BY <1>0, <1>1, <1>2, <2>1, <2>2, <3>2
  <2>3. CASE ~ (k < f)
    <3>1. PICK g \in Nat : k = f + g
      <4>1. k - f \in Nat /\ k = f + (k - f) BY <2>3
      <4> QED BY <4>1
    <3>2. d * k = d * f + d * g /\ d * g \in Nat BY <3>1
    <3>3. d * f \in Nat OBVIOUS
    <3> QED BY <1>0, <1>1, <1>2, <2>1, <2>3, <3>2, <3>3
  <2> QED BY <2>2, <2>3
<1> QED BY <1>3, <1>4

\* k is at or above a quotient cut off at 0 just when the next multiple is above.
LEMMA AboveFloor ==
  ASSUME NEW a \in Int, NEW d \in Nat \ {0}, NEW k \in Nat
  PROVE  /\ Greater(0, CDiv(a, d)) \in Nat
         /\ Greater(0, CDiv(a, d)) <= k <=> a < d * k + d
<1>2. d * k \in Nat OBVIOUS
<1>3. CASE a < 0
  <2>1. CDiv(a, d) \in Int /\ CDiv(a, d) <= 0 BY <1>3, FloorOfNegative
  <2> QED BY <1>2, <1>3, <2>1 DEF Greater
<1>4. CASE ~ (a < 0)
  <2>1. PICK f \in Nat : f = CDiv(a, d) /\ d * f <= a /\ a < d * f + d
    <3>1. a \in Nat BY <1>4
    <3> QED BY <3>1, FloorIs
  <2>0. Greater(0, CDiv(a, d)) = f BY <2>1 DEF Greater
  <2>2. CASE k < f
    <3>1. PICK g \in Nat : f = k + 1 + g
      <4>1. f - k - 1 \in Nat /\ f = k + 1 + (f - k - 1) BY <2>2
      <4> QED BY <4>1
    <3>2. d * f = d * k + d + d * g /\ d * g \in Nat BY <3>1
    <3> QED BY <1>2, <2>0, <2>1, <2>2, <3>2
  <2>3. CASE ~ (k < f)
    <3>1. PICK g \in Nat : k = f + g
      <4>1. k - f \in Nat /\ k = f + (k - f) BY <2>3
      <4> QED BY <4>1
    <3>2. d * k = d * f + d * g /\ d * g \in Nat BY <3>1
    <3>3. d * f \in Nat OBVIOUS
    <3> QED BY <1>2, <2>0, <2>1, <2>3, <3>2, <3>3
  <2> QED BY <2>2, <2>3
<1> QED BY <1>3, <1>4

-----------------------------------------------------------------------------
(* The blocks a block of queries, or of keys, visits.                       *)

\* The fields of a shape, with the types the launch gives them.
LEMMA ShapeIs ==
  ASSUME NEW x, ValidShape(x)
  PROVE  /\ x.M \in Nat \ {0} /\ x.N \in Nat \ {0} /\ x.sq \in Nat \ {0} /\ x.sk \in Nat \ {0}
         /\ x.left \in Nat /\ x.right \in Nat /\ x.even \in BOOLEAN
         /\ x.mode \in {"full", "causal", "local"}
         /\ x.mode # "local" => x.right = 0
         /\ x.even => x.mode # "local" /\ x.sq % x.M = 0 /\ x.sk % x.N = 0
BY DEF ValidShape

\* The rows and columns of a block, in the order of the factors used here.
LEMMA BlocksAre ==
  ASSUME NEW x, ValidShape(x), NEW k \in Nat
  PROVE  /\ RowsOf(x, k) = x.M * k .. x.M * k + x.M - 1
         /\ ColsOf(x, k) = x.N * k .. x.N * k + x.N - 1
<1>1. PICK M \in Nat \ {0}, N \in Nat \ {0} : M = x.M /\ N = x.N BY ShapeIs
<1>2. PICK p \in Nat : p = M * k /\ p = k * M /\ p + M = (k + 1) * M OBVIOUS
<1>3. PICK q \in Nat : q = N * k /\ q = k * N /\ q + N = (k + 1) * N OBVIOUS
<1>4. RowsOf(x, k) = k * M .. (k + 1) * M - 1 BY <1>1 DEF RowsOf
<1>5. ColsOf(x, k) = k * N .. (k + 1) * N - 1 BY <1>1 DEF ColsOf
<1>6. RowsOf(x, k) = p .. p + M - 1 BY <1>2, <1>4
<1>7. ColsOf(x, k) = q .. q + N - 1 BY <1>3, <1>5
<1> QED BY <1>1, <1>2, <1>3, <1>6, <1>7

\* Block n is one of those a block of queries visits when it holds a key and no
\* row and column rule it out.
LEMMA ForwardBlocks ==
  ASSUME NEW x, ValidShape(x), NEW m \in Nat, NEW n \in Nat
  PROVE  /\ NBlockMin(x, m) \in Nat /\ NBlockMax(x, m) \in Int
         /\ NBlockMin(x, m) <= n <=>
              (x.mode = "local" => x.M * m + x.sk - x.sq - x.left < x.N * n + x.N)
         /\ n < NBlockMax(x, m) <=>
              /\ x.N * n < x.sk
              /\ x.mode # "full" => x.N * n < x.M * m + x.M + x.sk - x.sq + x.right
<1>1. PICK M \in Nat \ {0}, N \in Nat \ {0}, sq \in Nat, sk \in Nat, left \in Nat, right \in Nat :
        M = x.M /\ N = x.N /\ sq = x.sq /\ sk = x.sk /\ left = x.left /\ right = x.right
  BY ShapeIs
<1>2. m * M = M * m /\ (m + 1) * M = M * m + M /\ M * m \in Nat OBVIOUS
<1>3. PICK a \in Int : a = M * m + sk - sq - left BY <1>2
<1>4. PICK b \in Int : b = M * m + M + sk - sq + right BY <1>2
<1>5. NBlockMin(x, m) = IF x.mode # "local" THEN 0 ELSE Greater(0, CDiv(a, N))
  BY <1>1, <1>2, <1>3 DEF NBlockMin
<1>6. NBlockMax(x, m) =
        IF x.mode = "full" THEN CeilDiv(sk, N) ELSE Lesser(CeilDiv(sk, N), CeilDiv(b, N))
  BY <1>1, <1>2, <1>4 DEF NBlockMax
<1>7. Greater(0, CDiv(a, N)) \in Nat /\ (Greater(0, CDiv(a, N)) <= n <=> a < N * n + N)
  BY AboveFloor
<1>8. CeilDiv(sk, N) \in Int /\ (n < CeilDiv(sk, N) <=> N * n < sk) BY BelowCeil
<1>9. CeilDiv(b, N) \in Int /\ (n < CeilDiv(b, N) <=> N * n < b) BY BelowCeil
<1>10. NBlockMin(x, m) \in Nat /\ (NBlockMin(x, m) <= n <=> (x.mode = "local" => a < N * n + N))
  BY <1>5, <1>7
<1>11. NBlockMax(x, m) \in Int
       /\ (n < NBlockMax(x, m) <=> N * n < sk /\ (x.mode # "full" => N * n < b))
  BY <1>6, <1>8, <1>9 DEF Lesser
<1> QED BY <1>1, <1>3, <1>4, <1>10, <1>11

\* And block m is one of those a block of keys visits.
LEMMA BackwardBlocks ==
  ASSUME NEW x, ValidShape(x), NEW n \in Nat, NEW m \in Nat
  PROVE  /\ MBlockMin(x, n) \in Nat /\ MBlockMax(x, n) \in Int
         /\ MBlockMin(x, n) <= m <=>
              (x.mode # "full" => x.N * n + x.sq - x.sk - x.right < x.M * m + x.M)
         /\ m < MBlockMax(x, n) <=>
              /\ x.M * m < x.sq
              /\ x.mode = "local" => x.M * m < x.N * n + x.N + x.sq - x.sk + x.left
<1>1. PICK M \in Nat \ {0}, N \in Nat \ {0}, sq \in Nat, sk \in Nat, left \in Nat, right \in Nat :
        M = x.M /\ N = x.N /\ sq = x.sq /\ sk = x.sk /\ left = x.left /\ right = x.right
  BY ShapeIs
<1>2. n * N = N * n /\ (n + 1) * N = N * n + N /\ N * n \in Nat OBVIOUS
<1>3. PICK a \in Int : a = N * n + sq - sk - right BY <1>2
<1>4. PICK b \in Int : b = N * n + N + sq - sk + left BY <1>2
<1>5. MBlockMin(x, n) = IF x.mode = "full" THEN 0 ELSE Greater(0, CDiv(a, M))
  BY <1>1, <1>2, <1>3 DEF MBlockMin
<1>6. MBlockMax(x, n) =
        IF x.mode # "local" THEN CeilDiv(sq, M) ELSE Lesser(CeilDiv(sq, M), CeilDiv(b, M))
  BY <1>1, <1>2, <1>4 DEF MBlockMax
<1>7. Greater(0, CDiv(a, M)) \in Nat /\ (Greater(0, CDiv(a, M)) <= m <=> a < M * m + M)
  BY AboveFloor
<1>8. CeilDiv(sq, M) \in Int /\ (m < CeilDiv(sq, M) <=> M * m < sq) BY BelowCeil
<1>9. CeilDiv(b, M) \in Int /\ (m < CeilDiv(b, M) <=> M * m < b) BY BelowCeil
<1>10. MBlockMin(x, n) \in Nat /\ (MBlockMin(x, n) <= m <=> (x.mode # "full" => a < M * m + M))
  BY <1>5, <1>7
<1>11. MBlockMax(x, n) \in Int
       /\ (m < MBlockMax(x, n) <=> M * m < sq /\ (x.mode = "local" => M * m < b))
  BY <1>6, <1>8, <1>9 DEF Lesser
<1> QED BY <1>1, <1>3, <1>4, <1>10, <1>11

\* Where lengths are whole tiles, a tile that starts inside ends inside.
LEMMA WholeTile ==
  ASSUME NEW d \in Nat \ {0}, NEW len \in Nat, len % d = 0, NEW k \in Nat, d * k < len
  PROVE  d * k + d <= len
<1>1. PICK q \in Nat : len = d * q
  <2>1. len \div d \in Nat /\ len = d * (len \div d) + (len % d) BY Division
  <2>2. PICK q \in Nat : q = len \div d BY <2>1
  <2>3. len = d * q BY <2>1, <2>2
  <2> QED BY <2>3
<1> QED BY <1>1, MultiplesApart

\* The number of masking steps covers the rows of a block, and the edge where
\* there is one.
LEMMA StepsAre ==
  ASSUME NEW x, ValidShape(x)
  PROVE  /\ MaskingSteps(x) \in Nat \ {0}
         /\ x.mode # "full" =>
              x.N * MaskingSteps(x) >= IF x.even THEN x.M ELSE x.M + x.N
<1>1. PICK M \in Nat \ {0}, N \in Nat \ {0} : M = x.M /\ N = x.N BY ShapeIs
<1>2. CeilDiv(M, N) \in Int /\ 0 < CeilDiv(M, N)
  <2>1. N * 0 < M OBVIOUS
  <2>2. PICK z \in Nat : z = 0 OBVIOUS
  <2> QED BY <2>1, <2>2, BelowCeil
<1>3. PICK s \in Nat \ {0} : s = CeilDiv(M, N) BY <1>2
<1>4. N * s >= M
  <2>1. ~ (s < CeilDiv(M, N)) BY <1>3
  <2>2. s < CeilDiv(M, N) <=> N * s < M BY BelowCeil
  <2>3. N * s \in Nat OBVIOUS
  <2> QED BY <2>1, <2>2, <2>3
<1>5. N * (s + 1) = N * s + N OBVIOUS
<1>6. x.even => x.mode # "local" BY ShapeIs
<1>7. MaskingSteps(x) = IF x.mode = "full" THEN 1 ELSE IF x.even THEN s ELSE s + 1
  BY <1>1, <1>3, <1>6, ShapeIs DEF MaskingSteps
<1>8. CASE x.mode = "full" BY <1>7, <1>8
<1>9. CASE x.mode # "full" /\ x.even BY <1>1, <1>4, <1>7, <1>9
<1>10. CASE x.mode # "full" /\ ~ x.even
  <2>1. MaskingSteps(x) = s + 1 BY <1>7, <1>10
  <2> QED BY <1>1, <1>4, <1>5, <1>10, <2>1
<1> QED BY <1>8, <1>9, <1>10, ShapeIs

-----------------------------------------------------------------------------
(* Masks and blocks, forward.                                               *)

\* A pair a mask keeps, in the terms of the kernel.
LEMMA UnmaskedIs ==
  ASSUME NEW x, ValidShape(x), NEW i \in 0 .. x.sq - 1, NEW j \in Nat
  PROVE  Attends(x, i, j) <=> j < x.sk /\ Unmasked(x, i, j)
<1>1. PICK sq \in Nat, sk \in Nat, left \in Nat, right \in Nat :
        sq = x.sq /\ sk = x.sk /\ left = x.left /\ right = x.right
  BY ShapeIs
<1>2. i \in Nat /\ i < sq BY <1>1
<1>3. CASE x.mode = "full"
  BY <1>1, <1>2, <1>3 DEF Attends, Unmasked
<1>4. CASE x.mode = "causal"
  BY <1>1, <1>2, <1>4 DEF Attends, Unmasked, Lesser
<1>5. CASE x.mode = "local"
  BY <1>1, <1>2, <1>5 DEF Attends, Unmasked, Lesser, Greater
<1> QED BY <1>3, <1>4, <1>5, ShapeIs

\* What the mask leaves of a tile that is visited, attention keeps: a kernel that
\* asks nothing about the last key has only whole tiles.
LEMMA VisitedUnmasked ==
  ASSUME NEW x, ValidShape(x), NEW m \in Nat, NEW n \in Nat, n < NBlockMax(x, m),
         NEW i \in 0 .. x.sq - 1, NEW j \in ColsOf(x, n), Unmasked(x, i, j)
  PROVE  Attends(x, i, j)
<1>1. PICK N \in Nat \ {0}, sk \in Nat, p \in Nat : N = x.N /\ sk = x.sk /\ p = N * n
  BY ShapeIs
<1>2. p < sk BY <1>1, ForwardBlocks
<1>3. j \in p .. p + N - 1 BY <1>1, BlocksAre
<1>4. j < sk
  <2>1. CASE x.even
    <3>1. sk % N = 0 BY <1>1, <2>1, ShapeIs
    <3>2. p + N <= sk BY <1>1, <1>2, <3>1, WholeTile
    <3> QED BY <1>3, <3>2
  <2>2. CASE ~ x.even
    <3>1. x.mode \in {"full", "causal", "local"} BY ShapeIs
    <3>2. CASE x.mode = "full" BY <1>1, <2>2, <3>2 DEF Unmasked
    <3>3. CASE x.mode = "causal" BY <1>1, <1>3, <3>3, ShapeIs DEF Unmasked, Lesser
    <3>4. CASE x.mode = "local" BY <1>1, <1>3, <3>4, ShapeIs DEF Unmasked, Lesser
    <3> QED BY <3>1, <3>2, <3>3, <3>4
  <2> QED BY <2>1, <2>2, ShapeIs
<1>5. j \in Nat BY <1>3
<1> QED BY <1>1, <1>4, <1>5, UnmaskedIs

\* Every pair attention keeps lies in a tile that is visited.
LEMMA AttendedVisited ==
  ASSUME NEW x, ValidShape(x), NEW m \in Nat, NEW n \in Nat,
         NEW i \in RowsOf(x, m), NEW j \in ColsOf(x, n), Attends(x, i, j)
  PROVE  NBlockMin(x, m) <= n /\ n < NBlockMax(x, m)
<1>1. PICK M \in Nat \ {0}, N \in Nat \ {0}, sq \in Nat, sk \in Nat, left \in Nat, right \in Nat :
        M = x.M /\ N = x.N /\ sq = x.sq /\ sk = x.sk /\ left = x.left /\ right = x.right
  BY ShapeIs
<1>2. PICK p \in Nat, q \in Nat : p = M * m /\ q = N * n OBVIOUS
<1>3. i \in p .. p + M - 1 /\ j \in q .. q + N - 1 BY <1>1, <1>2, BlocksAre
<1>4. /\ j < sk
      /\ x.mode # "full" => j - i <= sk - sq + right
      /\ x.mode = "local" => j - i >= sk - sq - left
  BY <1>1, <1>3 DEF Attends
<1>5. x.mode = "local" => p + sk - sq - left < q + N BY <1>3, <1>4
<1>6. q < sk /\ (x.mode # "full" => q < p + M + sk - sq + right) BY <1>3, <1>4
<1>7. NBlockMin(x, m) <= n BY <1>1, <1>2, <1>5, ForwardBlocks
<1>8. n < NBlockMax(x, m) BY <1>1, <1>2, <1>6, ForwardBlocks
<1> QED BY <1>7, <1>8

\* A causal tile as far from the last as there are masking steps lies on or below
\* the diagonal, even where the first row of the block decides.
LEMMA BelowDiagonal ==
  ASSUME NEW x, ValidShape(x), x.mode = "causal", NEW m \in Nat, NEW n \in Nat,
         n + MaskingSteps(x) < NBlockMax(x, m)
  PROVE  x.N * n + x.N <= x.M * m + x.sk - x.sq
<1>1. PICK M \in Nat \ {0}, N \in Nat \ {0}, sq \in Nat, sk \in Nat :
        M = x.M /\ N = x.N /\ sq = x.sq /\ sk = x.sk /\ x.right = 0
  BY ShapeIs
<1>2. PICK s \in Nat \ {0} : s = MaskingSteps(x) /\ N * s >= IF x.even THEN M ELSE M + N
  <2>1. MaskingSteps(x) \in Nat \ {0} BY StepsAre
  <2>2. x.N * MaskingSteps(x) >= IF x.even THEN x.M ELSE x.M + x.N BY StepsAre
  <2> QED BY <1>1, <2>1, <2>2
<1>3. PICK p \in Nat, q \in Nat, t \in Nat : p = M * m /\ q = N * n /\ t = N * s OBVIOUS
<1>4. N * (n + s) = q + t BY <1>3
<1>5. q + t < p + M + sk - sq
  <2>1. n + s \in Nat /\ n + s < NBlockMax(x, m) BY <1>2
  <2>2. x.N * (n + s) < x.M * m + x.M + x.sk - x.sq + x.right BY <2>1, ForwardBlocks
  <2> QED BY <1>1, <1>3, <1>4, <2>2
<1>6. CASE ~ x.even
  <2>1. t >= M + N BY <1>2, <1>3, <1>6
  <2> QED BY <1>1, <1>3, <1>5, <2>1
<1>7. CASE x.even
  <2>1. PICK a \in Nat, b \in Nat : sq = M * a /\ sk = N * b
    <3>1. sq % M = 0 /\ sk % N = 0 BY <1>1, <1>7, ShapeIs
    <3>2. sq \div M \in Nat /\ sq = M * (sq \div M) + (sq % M) BY Division
    <3>3. sk \div N \in Nat /\ sk = N * (sk \div N) + (sk % N) BY Division
    <3>4. PICK a \in Nat : a = sq \div M BY <3>2
    <3>5. PICK b \in Nat : b = sk \div N BY <3>3
    <3>6. sq = M * a /\ sk = N * b BY <3>1, <3>2, <3>3, <3>4, <3>5
    <3> QED BY <3>6
  <2>2. t >= M BY <1>2, <1>3, <1>7
  <2>3. CASE M % N = 0
    <3>1. PICK e \in Nat : M = N * e
      <4>1. M \div N \in Nat /\ M = N * (M \div N) + (M % N) BY Division
      <4>2. PICK e \in Nat : e = M \div N BY <4>1
      <4>3. M = N * e BY <2>3, <4>1, <4>2
      <4> QED BY <4>3
    <3>2. p = N * (e * m) /\ sq = N * (e * a)
      <4>1. p = (N * e) * m /\ sq = (N * e) * a BY <1>3, <2>1, <3>1
      <4>2. (N * e) * m = N * (e * m) /\ (N * e) * a = N * (e * a) OBVIOUS
      <4> QED BY <4>1, <4>2
    <3>3. PICK u \in Nat, v \in Nat : u = e * m /\ v = e * a OBVIOUS
    <3>4. N * (u + b - v) = p + sk - sq
      <4>1. N * (u + b - v) = N * u + N * b - N * v OBVIOUS
      <4> QED BY <2>1, <3>2, <3>3, <4>1
    <3>5. N * n < N * (u + b - v) BY <1>3, <1>5, <2>2, <3>4
    <3>6. u + b - v \in Int OBVIOUS
    <3>7. N * n + N <= N * (u + b - v) BY <3>5, <3>6, MultiplesApart
    <3> QED BY <1>1, <1>3, <3>4, <3>7
  <2>4. CASE N % M = 0
    <3>1. PICK e \in Nat : N = M * e
      <4>1. N \div M \in Nat /\ N = M * (N \div M) + (N % M) BY Division
      <4>2. PICK e \in Nat : e = N \div M BY <4>1
      <4>3. N = M * e BY <2>4, <4>1, <4>2
      <4> QED BY <4>3
    <3>2. q = M * (e * n) /\ sk = M * (e * b)
      <4>1. q = (M * e) * n /\ sk = (M * e) * b BY <1>3, <2>1, <3>1
      <4>2. (M * e) * n = M * (e * n) /\ (M * e) * b = M * (e * b) OBVIOUS
      <4> QED BY <4>1, <4>2
    <3>3. PICK u \in Nat, v \in Nat : u = e * n /\ v = e * b OBVIOUS
    <3>4. M * (u + e) = q + N
      <4>1. M * (u + e) = M * u + M * e OBVIOUS
      <4> QED BY <3>1, <3>2, <3>3, <4>1
    <3>5. M * (m + 1 + v - a) = p + M + sk - sq
      <4>1. M * (m + 1 + v - a) = M * m + M + M * v - M * a OBVIOUS
      <4> QED BY <1>3, <2>1, <3>2, <3>3, <4>1
    <3>6. t >= N
      <4>1. PICK r \in Nat : s = r + 1
        <5>1. s - 1 \in Nat /\ s = (s - 1) + 1 OBVIOUS
        <5> QED BY <5>1
      <4>2. t = N * r + N /\ N * r \in Nat BY <1>3, <4>1
      <4> QED BY <4>2
    <3>7. M * (u + e) < M * (m + 1 + v - a) BY <1>5, <3>4, <3>5, <3>6
    <3>8. u + e \in Int /\ m + 1 + v - a \in Int OBVIOUS
    <3>9. M * (u + e) + M <= M * (m + 1 + v - a) BY <3>7, <3>8, MultiplesApart
    <3> QED BY <1>1, <1>3, <3>4, <3>5, <3>9
  <2> QED BY <1>1, <2>3, <2>4 DEF ValidShape
<1> QED BY <1>6, <1>7, ShapeIs

\* Beyond the masking steps, every pair of a tile is one attention keeps: the loop
\* that applies no mask but the window lets nothing in.
LEMMA LaterAttended ==
  ASSUME NEW x, ValidShape(x), NEW m \in Nat, NEW n \in Nat,
         n + MaskingSteps(x) < NBlockMax(x, m),
         NEW i \in RowsOf(x, m), i < x.sq, NEW j \in ColsOf(x, n), UnmaskedLater(x, i, j)
  PROVE  Attends(x, i, j)
<1>1. PICK M \in Nat \ {0}, N \in Nat \ {0}, sq \in Nat, sk \in Nat :
        M = x.M /\ N = x.N /\ sq = x.sq /\ sk = x.sk
  BY ShapeIs
<1>2. PICK s \in Nat \ {0} : s = MaskingSteps(x) BY StepsAre
<1>3. PICK p \in Nat, q \in Nat : p = M * m /\ q = N * n OBVIOUS
<1>4. i \in p .. p + M - 1 /\ j \in q .. q + N - 1 BY <1>1, <1>3, BlocksAre
<1>5. i \in 0 .. x.sq - 1 BY <1>1, <1>4
<1>6. CASE x.mode = "local"
  <2>1. Unmasked(x, i, j) BY <1>6 DEF UnmaskedLater
  <2>2. n < NBlockMax(x, m) BY <1>2, ForwardBlocks
  <2> QED BY <1>5, <2>1, <2>2, VisitedUnmasked
<1>7. ASSUME x.mode # "local" PROVE Attends(x, i, j)
  <2>1. j < sk
    <3>1. n + 1 \in Nat /\ n + 1 < NBlockMax(x, m)
      <4>1. NBlockMax(x, m) \in Int BY ForwardBlocks
      <4> QED BY <1>2, <4>1
    <3>2. N * (n + 1) < sk BY <1>1, <3>1, ForwardBlocks
    <3>3. N * (n + 1) = q + N BY <1>3
    <3> QED BY <1>4, <3>2, <3>3
  <2>2. CASE x.mode = "full" BY <1>1, <1>4, <1>5, <2>1, <2>2 DEF Attends
  <2>3. CASE x.mode = "causal"
    <3>1. q + N <= p + sk - sq BY <1>1, <1>3, <2>3, BelowDiagonal
    <3>2. x.right = 0 BY <2>3, ShapeIs
    <3> QED BY <1>1, <1>4, <1>5, <2>1, <2>3, <3>1, <3>2 DEF Attends
  <2> QED BY <1>7, <2>2, <2>3, ShapeIs
<1> QED BY <1>6, <1>7

-----------------------------------------------------------------------------
(* The blocks of a split.                                                   *)

\* A quotient is the one block of d numbers that x lies in.
LEMMA QuotientIs ==
  ASSUME NEW d \in Nat \ {0}, NEW x \in Nat, NEW k \in Nat, d * k <= x, x < d * k + d
  PROVE  x \div d = k
<1>1. PICK f \in Nat : f = x \div d /\ d * f <= x /\ x < d * f + d
  <2>1. x \div d \in Nat /\ x % d \in 0 .. d - 1 /\ x = d * (x \div d) + (x % d) BY Division
  <2> QED BY <2>1
<1>2. ASSUME NEW u \in Nat, NEW v \in Nat, u < v, x < d * u + d, d * v <= x PROVE FALSE
  <2>1. PICK e \in Nat : v = u + 1 + e
    <3>1. v - u - 1 \in Nat /\ v = u + 1 + (v - u - 1) BY <1>2
    <3> QED BY <3>1
  <2>2. d * v = d * u + d + d * e /\ d * e \in Nat BY <2>1
  <2>3. d * u \in Nat OBVIOUS
  <2> QED BY <1>2, <2>2, <2>3
<1> QED BY <1>1, <1>2

\* A split has blocks, and together the splits have as many as there are.
LEMMA SplitSize ==
  ASSUME NEW x, ValidShape(x), NEW num \in Nat \ {0}, NEW m \in Nat
  PROVE  /\ BlocksPerSplit(x, num) \in Nat \ {0}
         /\ NBlockMax(x, m) <= num * BlocksPerSplit(x, num)
<1>1. PICK N \in Nat \ {0}, sk \in Nat \ {0} : N = x.N /\ sk = x.sk BY ShapeIs
<1>2. CeilDiv(sk, N) \in Int /\ 0 < CeilDiv(sk, N)
  <2>1. PICK z \in Nat : z = 0 OBVIOUS
  <2>2. N * z < sk BY <2>1
  <2> QED BY <2>1, <2>2, BelowCeil
<1>3. PICK all \in Nat \ {0} : all = CeilDiv(sk, N) BY <1>2
<1>4. PICK e \in Nat : e = all + num - 1 OBVIOUS
<1>5. PICK b \in Nat : b = e \div num /\ num * b <= e /\ e < num * b + num
  <2>1. e \div num \in Nat /\ e % num \in 0 .. num - 1 /\ e = num * (e \div num) + (e % num)
    BY Division
  <2> QED BY <2>1
<1>6. BlocksPerSplit(x, num) = b BY <1>1, <1>3, <1>4, <1>5 DEF BlocksPerSplit
<1>7. all <= num * b
  <2>1. num * b \in Nat OBVIOUS
  <2> QED BY <1>4, <1>5, <2>1
<1>8. b # 0
  <2>1. b = 0 => num * b = 0 OBVIOUS
  <2> QED BY <1>7, <2>1
<1>9. NBlockMax(x, m) <= all
  <2>1. PICK t \in Int :
          t = CeilDiv((m + 1) * x.M + x.sk - x.sq + x.right, x.N)
    <3>1. PICK M \in Nat, sq \in Nat, right \in Nat : M = x.M /\ sq = x.sq /\ right = x.right
      BY ShapeIs
    <3>2. (m + 1) * M + sk - sq + right \in Int OBVIOUS
    <3>3. PICK a \in Int : a = (m + 1) * M + sk - sq + right BY <3>2
    <3>4. PICK z \in Nat : z = 0 OBVIOUS
    <3>5. CeilDiv(a, N) \in Int BY <3>4, BelowCeil
    <3> QED BY <1>1, <3>1, <3>3, <3>5
  <2> QED BY <1>1, <1>3, <2>1 DEF NBlockMax, Lesser
<1>10. NBlockMax(x, m) \in Int
  <2>1. PICK z \in Nat : z = 0 OBVIOUS
  <2> QED BY <2>1, ForwardBlocks
<1>11. num * b \in Nat OBVIOUS
<1> QED BY <1>6, <1>7, <1>8, <1>9, <1>10, <1>11

\* Split idx has the visited blocks whose number, divided by its size, is idx.
LEMMA SplitIs ==
  ASSUME NEW x, ValidShape(x), NEW num \in Nat \ {0}, NEW idx \in Nat, NEW m \in Nat,
         NEW n \in Nat
  PROVE  /\ SplitMin(x, m, idx, num) \in Nat /\ SplitMax(x, m, idx, num) \in Int
         /\ SplitMax(x, m, idx, num) <= NBlockMax(x, m)
         /\ SplitMin(x, m, idx, num) <= n /\ n < SplitMax(x, m, idx, num) <=>
              /\ NBlockMin(x, m) <= n /\ n < NBlockMax(x, m)
              /\ idx * BlocksPerSplit(x, num) <= n /\ n < (idx + 1) * BlocksPerSplit(x, num)
<1>1. PICK b \in Nat \ {0} : b = BlocksPerSplit(x, num) BY SplitSize
<1>2. PICK p \in Nat, q \in Nat : p = idx * b /\ q = (idx + 1) * b OBVIOUS
<1>3. PICK lo \in Nat, hi \in Int : lo = NBlockMin(x, m) /\ hi = NBlockMax(x, m)
  BY ForwardBlocks
<1>4. SplitMin(x, m, idx, num) = Greater(p, lo) BY <1>1, <1>2, <1>3 DEF SplitMin
<1>5. SplitMax(x, m, idx, num) = Lesser(q, hi) BY <1>1, <1>2, <1>3 DEF SplitMax
<1>6. /\ Greater(p, lo) \in Nat /\ Lesser(q, hi) \in Int /\ Lesser(q, hi) <= hi
      /\ Greater(p, lo) <= n /\ n < Lesser(q, hi) <=> lo <= n /\ n < hi /\ p <= n /\ n < q
  BY DEF Greater, Lesser
<1> QED BY <1>1, <1>2, <1>3, <1>4, <1>5, <1>6

\* Each visited block is in exactly one split.
LEMMA SplitsShare ==
  ASSUME NEW l, ValidShape(l), l.block \in Nat, l.num \in Nat \ {0}
  PROVE  SharedOut(l)
<1>1. PICK num \in Nat \ {0}, m \in Nat : num = l.num /\ m = l.block OBVIOUS
<1>2. PICK b \in Nat \ {0} : b = BlocksPerSplit(l, num) BY SplitSize
<1> DEFINE In(n) == {i \in 0 .. num - 1 : SplitMin(l, m, i, num) <= n /\ n < SplitMax(l, m, i, num)}
<1>3. ASSUME NEW n \in NBlockMin(l, m) .. NBlockMax(l, m) - 1
      PROVE  Cardinality(In(n)) = 1
  <2>1. PICK lo \in Nat, hi \in Int : lo = NBlockMin(l, m) /\ hi = NBlockMax(l, m)
    <3>1. PICK z \in Nat : z = 0 OBVIOUS
    <3> QED BY <3>1, ForwardBlocks
  <2>2. n \in Nat /\ lo <= n /\ n < hi BY <1>3, <2>1
  <2>3. PICK k \in Nat : k = n \div b /\ b * k <= n /\ n < b * k + b
    <3>1. n \div b \in Nat /\ n % b \in 0 .. b - 1 /\ n = b * (n \div b) + (n % b)
      BY <2>2, Division
    <3> QED BY <2>2, <3>1
  <2>4. k < num
    <3>1. n < num * b
      <4>1. hi <= num * b BY <1>2, <2>1, SplitSize
      <4>2. num * b \in Nat OBVIOUS
      <4> QED BY <2>1, <2>2, <4>1, <4>2
    <3>2. ASSUME num <= k PROVE FALSE
      <4>1. PICK e \in Nat : k = num + e
        <5>1. k - num \in Nat /\ k = num + (k - num) BY <3>2
        <5> QED BY <5>1
      <4>2. b * k = num * b + b * e /\ b * e \in Nat BY <4>1
      <4>3. num * b \in Nat OBVIOUS
      <4> QED BY <2>2, <2>3, <3>1, <4>2, <4>3
    <3> QED BY <3>2
  <2>5. ASSUME NEW i \in 0 .. num - 1 PROVE i \in In(n) <=> i = k
    <3>0. i \in Nat OBVIOUS
    <3>1. i * b = b * i /\ (i + 1) * b = b * i + b OBVIOUS
    <3>2. i \in In(n) <=> b * i <= n /\ n < b * i + b
      <4>1. SplitMin(l, m, i, num) <= n /\ n < SplitMax(l, m, i, num) <=>
              /\ lo <= n /\ n < hi
              /\ i * b <= n /\ n < (i + 1) * b
        BY <1>2, <2>1, <2>2, <3>0, SplitIs
      <4> QED BY <2>2, <3>1, <4>1
    <3>3. b * i <= n /\ n < b * i + b => i = k
      BY <2>2, <2>3, <3>0, QuotientIs
    <3> QED BY <2>3, <3>2, <3>3
  <2>6. In(n) = {k}
    <3>1. k \in 0 .. num - 1 BY <2>4
    <3>2. In(n) \subseteq 0 .. num - 1 OBVIOUS
    <3> HIDE DEF In
    <3> QED BY <2>5, <3>1, <3>2
  <2> HIDE DEF In
  <2> QED BY <2>6, FS_Singleton
<1>4. \A n \in NBlockMin(l, l.block) .. NBlockMax(l, l.block) - 1 : Cardinality(In(n)) = 1
  <2> HIDE DEF In
  <2> QED BY <1>1, <1>3
<1> QED BY <1>1, <1>4 DEF SharedOut

-----------------------------------------------------------------------------
(* Masks and blocks, backward.                                              *)

\* What the mask leaves of a tile that is visited, in the rows there are,
\* attention keeps.
LEMMA DifferentiatedAttended ==
  ASSUME NEW x, ValidShape(x), NEW m \in Nat, NEW n \in Nat, m < MBlockMax(x, n), n * x.N < x.sk,
         NEW i \in RowsOf(x, m), NEW j \in ColsOf(x, n), Unmasked(x, i, j), x.even \/ i < x.sq
  PROVE  Attends(x, i, j)
<1>1. PICK M \in Nat \ {0}, N \in Nat \ {0}, sq \in Nat, sk \in Nat :
        M = x.M /\ N = x.N /\ sq = x.sq /\ sk = x.sk
  BY ShapeIs
<1>2. PICK p \in Nat, q \in Nat : p = M * m /\ q = N * n /\ q = n * N OBVIOUS
<1>3. i \in p .. p + M - 1 /\ j \in q .. q + N - 1 BY <1>1, <1>2, BlocksAre
<1>4. p < sq /\ q < sk BY <1>1, <1>2, BackwardBlocks
<1>5. i < sq /\ j < sk
  <2>1. CASE x.even
    <3>1. sq % M = 0 /\ sk % N = 0 BY <1>1, <2>1, ShapeIs
    <3>2. p + M <= sq /\ q + N <= sk BY <1>2, <1>4, <3>1, WholeTile
    <3> QED BY <1>3, <3>2
  <2>2. CASE ~ x.even
    <3>1. x.mode \in {"full", "causal", "local"} BY ShapeIs
    <3>2. CASE x.mode = "full" BY <1>1, <2>2, <3>2 DEF Unmasked
    <3>3. CASE x.mode = "causal" BY <1>1, <1>3, <2>2, <3>3, ShapeIs DEF Unmasked, Lesser
    <3>4. CASE x.mode = "local" BY <1>1, <1>3, <2>2, <3>4, ShapeIs DEF Unmasked, Lesser
    <3> QED BY <3>1, <3>2, <3>3, <3>4
  <2> QED BY <2>1, <2>2, ShapeIs
<1>6. i \in 0 .. x.sq - 1 /\ j \in Nat BY <1>1, <1>3, <1>5
<1> QED BY <1>1, <1>5, <1>6, UnmaskedIs

\* Every pair attention keeps lies in a tile the backward visits.
LEMMA AttendedDifferentiated ==
  ASSUME NEW x, ValidShape(x), NEW m \in Nat, NEW n \in Nat,
         NEW i \in RowsOf(x, m), NEW j \in ColsOf(x, n), Attends(x, i, j)
  PROVE  MBlockMin(x, n) <= m /\ m < MBlockMax(x, n)
<1>1. PICK M \in Nat \ {0}, N \in Nat \ {0}, sq \in Nat, sk \in Nat, left \in Nat, right \in Nat :
        M = x.M /\ N = x.N /\ sq = x.sq /\ sk = x.sk /\ left = x.left /\ right = x.right
  BY ShapeIs
<1>2. PICK p \in Nat, q \in Nat : p = M * m /\ q = N * n OBVIOUS
<1>3. i \in p .. p + M - 1 /\ j \in q .. q + N - 1 BY <1>1, <1>2, BlocksAre
<1>4. /\ i < sq
      /\ x.mode # "full" => j - i <= sk - sq + right
      /\ x.mode = "local" => j - i >= sk - sq - left
  BY <1>1, <1>3 DEF Attends
<1>5. x.mode # "full" => q + sq - sk - right < p + M BY <1>3, <1>4
<1>6. p < sq /\ (x.mode = "local" => p < q + N + sq - sk + left) BY <1>3, <1>4
<1>7. MBlockMin(x, n) <= m BY <1>1, <1>2, <1>5, BackwardBlocks
<1>8. m < MBlockMax(x, n) BY <1>1, <1>2, <1>6, BackwardBlocks
<1> QED BY <1>7, <1>8

-----------------------------------------------------------------------------
(* Pieces of code.                                                          *)

\* Of two results, in the order in which they are computed, the later has the
\* smaller tile; in the backward, if both are of the same gradient.
Follows(backward, u, v) == (backward /\ u.what.out # v.what.out) \/ v.what.tile < u.what.tile

\* A piece s of the code of launch l: its loads keep their bounds, and what it
\* computes is the set `emits`, in order.
Piece(backward, l, s, emits) ==
  /\ s \in Seq(Range(s))
  /\ \A x, y \in DOMAIN s :
       x < y /\ s[x].op = "emit" /\ s[y].op = "emit" => Follows(backward, s[x], s[y])
  /\ \A ins \in Range(s) : ins.op = "load" => InBounds(l, ins)
  /\ emits = {ins \in Range(s) : ins.op = "emit"}

\* An instruction that computes nothing, and that keeps its bounds if it loads.
Quiet(l, ins) == ins.op # "emit" /\ (ins.op = "load" => InBounds(l, ins))

\* Two pieces joined are a piece.
LEMMA PieceJoin ==
  ASSUME NEW backward, NEW l, NEW s, NEW t, NEW E, NEW F,
         Piece(backward, l, s, E), Piece(backward, l, t, F),
         \A u \in E, v \in F : Follows(backward, u, v)
  PROVE  Piece(backward, l, s \o t, E \cup F)
<1>1. PICK T : T = Range(s) \cup Range(t) OBVIOUS
<1>2. s \in Seq(T) /\ t \in Seq(T)
  <2>1. s \in Seq(Range(s)) /\ t \in Seq(Range(t)) BY DEF Piece
  <2>2. \A A, B : A \subseteq B => Seq(A) \subseteq Seq(B) OBVIOUS
  <2> QED BY <1>1, <2>1, <2>2
<1>3. Range(s \o t) = T BY <1>1, <1>2, JoinRange
<1> DEFINE R == {p \in T \X T : p[1].op = "emit" /\ p[2].op = "emit" => Follows(backward, p[1], p[2])}
<1>4. \A u, v \in T : <<u, v>> \in R <=> (u.op = "emit" /\ v.op = "emit" => Follows(backward, u, v))
  OBVIOUS
<1>5. s \in [1 .. Len(s) -> T] /\ t \in [1 .. Len(t) -> T]
  BY <1>2, LenProperties
<1>6. Pairwise(s, R) /\ Pairwise(t, R)
  <2> HIDE DEF R
  <2> QED BY <1>4, <1>5 DEF Piece, Pairwise
<1>7. \A u \in Range(s), v \in Range(t) : <<u, v>> \in R
  <2> HIDE DEF R
  <2> SUFFICES ASSUME NEW u \in Range(s), NEW v \in Range(t) PROVE <<u, v>> \in R OBVIOUS
  <2>1. u.op = "emit" /\ v.op = "emit" => u \in E /\ v \in F BY DEF Piece
  <2> QED BY <1>1, <1>4, <2>1
<1>8. Pairwise(s \o t, R)
  <2> HIDE DEF R
  <2> QED BY <1>2, <1>6, <1>7, JoinPairwise
<1>9. PICK r : r = s \o t OBVIOUS
<1>10. r \in Seq(T) /\ r \in [1 .. Len(r) -> T] BY <1>2, <1>9, ConcatProperties, LenProperties
<1>11. \A x, y \in DOMAIN r :
         x < y /\ r[x].op = "emit" /\ r[y].op = "emit" => Follows(backward, r[x], r[y])
  <2> HIDE DEF R
  <2> QED BY <1>4, <1>8, <1>9, <1>10 DEF Pairwise
<1>12. \A ins \in Range(r) : ins.op = "load" => InBounds(l, ins)
  BY <1>1, <1>3, <1>9 DEF Piece
<1>13. E \cup F = {ins \in Range(r) : ins.op = "emit"}
  BY <1>1, <1>3, <1>9 DEF Piece
<1> QED BY <1>3, <1>9, <1>10, <1>11, <1>12, <1>13 DEF Piece

\* The empty piece.
LEMMA PieceNone ==
  ASSUME NEW backward, NEW l
  PROVE  Piece(backward, l, <<>>, {})
<1>1. Range(<<>>) = {} /\ DOMAIN <<>> = {} BY DEF Range
<1>2. <<>> \in Seq({}) OBVIOUS
<1> QED BY <1>1, <1>2 DEF Piece

\* A piece under a condition.
LEMMA PieceIf ==
  ASSUME NEW backward, NEW l, NEW s, NEW E, NEW condition \in BOOLEAN,
         condition => Piece(backward, l, s, E)
  PROVE  Piece(backward, l, If(condition, s), IF condition THEN E ELSE {})
BY PieceNone DEF If

\* One instruction.
LEMMA PieceOne ==
  ASSUME NEW backward, NEW l, NEW a, a.op = "load" => InBounds(l, a)
  PROVE  Piece(backward, l, <<a>>, IF a.op = "emit" THEN {a} ELSE {})
<1>1. DOMAIN <<a>> = {1} /\ <<a>>[1] = a OBVIOUS
<1>2. Range(<<a>>) = {a} BY <1>1 DEF Range
<1>3. <<a>> \in Seq({a}) OBVIOUS
<1> QED BY <1>1, <1>2, <1>3 DEF Piece

\* Two instructions that compute nothing.
LEMMA PieceTwo ==
  ASSUME NEW backward, NEW l, NEW a1, NEW a2, Quiet(l, a1), Quiet(l, a2)
  PROVE  Piece(backward, l, <<a1, a2>>, {})
<1>1. DOMAIN <<a1, a2>> = {1, 2} /\ <<a1, a2>>[1] = a1 /\ <<a1, a2>>[2] = a2 OBVIOUS
<1>2. Range(<<a1, a2>>) = {a1, a2} BY <1>1 DEF Range
<1>3. <<a1, a2>> \in Seq({a1, a2}) OBVIOUS
<1> QED BY <1>1, <1>2, <1>3 DEF Piece, Quiet

\* Three instructions that compute nothing.
LEMMA PieceThree ==
  ASSUME NEW backward, NEW l, NEW a1, NEW a2, NEW a3, Quiet(l, a1), Quiet(l, a2), Quiet(l, a3)
  PROVE  Piece(backward, l, <<a1, a2, a3>>, {})
<1>1. /\ DOMAIN <<a1, a2, a3>> = {1, 2, 3}
      /\ <<a1, a2, a3>>[1] = a1 /\ <<a1, a2, a3>>[2] = a2 /\ <<a1, a2, a3>>[3] = a3
  OBVIOUS
<1>2. Range(<<a1, a2, a3>>) = {a1, a2, a3} BY <1>1 DEF Range
<1>3. <<a1, a2, a3>> \in Seq({a1, a2, a3}) OBVIOUS
<1> QED BY <1>1, <1>2, <1>3 DEF Piece, Quiet

\* Four instructions that compute nothing.
LEMMA PieceFour ==
  ASSUME NEW backward, NEW l, NEW a1, NEW a2, NEW a3, NEW a4,
         Quiet(l, a1), Quiet(l, a2), Quiet(l, a3), Quiet(l, a4)
  PROVE  Piece(backward, l, <<a1, a2, a3, a4>>, {})
<1>1. /\ DOMAIN <<a1, a2, a3, a4>> = {1, 2, 3, 4}
      /\ <<a1, a2, a3, a4>>[1] = a1 /\ <<a1, a2, a3, a4>>[2] = a2
      /\ <<a1, a2, a3, a4>>[3] = a3 /\ <<a1, a2, a3, a4>>[4] = a4
  OBVIOUS
<1>2. Range(<<a1, a2, a3, a4>>) = {a1, a2, a3, a4} BY <1>1 DEF Range
<1>3. <<a1, a2, a3, a4>> \in Seq({a1, a2, a3, a4}) OBVIOUS
<1> QED BY <1>1, <1>2, <1>3 DEF Piece, Quiet

\* Six instructions that compute nothing.
LEMMA PieceSix ==
  ASSUME NEW backward, NEW l, NEW a1, NEW a2, NEW a3, NEW a4, NEW a5, NEW a6,
         Quiet(l, a1), Quiet(l, a2), Quiet(l, a3), Quiet(l, a4), Quiet(l, a5), Quiet(l, a6)
  PROVE  Piece(backward, l, <<a1, a2, a3, a4, a5, a6>>, {})
<1>1. PICK s : s = <<a1, a2, a3, a4, a5, a6>> OBVIOUS
<1>2. /\ DOMAIN s = {1, 2, 3, 4, 5, 6}
      /\ s[1] = a1 /\ s[2] = a2 /\ s[3] = a3 /\ s[4] = a4 /\ s[5] = a5 /\ s[6] = a6
  BY <1>1
<1>3. Range(s) = {a1, a2, a3, a4, a5, a6} BY <1>2 DEF Range
<1>4. s \in Seq({a1, a2, a3, a4, a5, a6}) BY <1>1
<1> QED BY <1>1, <1>2, <1>3, <1>4 DEF Piece, Quiet

\* Two instructions of which the last alone computes.
LEMMA PieceTwoEmit ==
  ASSUME NEW backward, NEW l, NEW a1, NEW a2, Quiet(l, a1), a2.op = "emit"
  PROVE  Piece(backward, l, <<a1, a2>>, {a2})
<1>1. DOMAIN <<a1, a2>> = {1, 2} /\ <<a1, a2>>[1] = a1 /\ <<a1, a2>>[2] = a2 OBVIOUS
<1>2. Range(<<a1, a2>>) = {a1, a2} BY <1>1 DEF Range
<1>3. <<a1, a2>> \in Seq({a1, a2}) OBVIOUS
<1> QED BY <1>1, <1>2, <1>3 DEF Piece, Quiet

\* Three instructions of which the last alone computes.
LEMMA PieceThreeEmit ==
  ASSUME NEW backward, NEW l, NEW a1, NEW a2, NEW a3, Quiet(l, a1), Quiet(l, a2), a3.op = "emit"
  PROVE  Piece(backward, l, <<a1, a2, a3>>, {a3})
<1>1. /\ DOMAIN <<a1, a2, a3>> = {1, 2, 3}
      /\ <<a1, a2, a3>>[1] = a1 /\ <<a1, a2, a3>>[2] = a2 /\ <<a1, a2, a3>>[3] = a3
  OBVIOUS
<1>2. Range(<<a1, a2, a3>>) = {a1, a2, a3} BY <1>1 DEF Range
<1>3. <<a1, a2, a3>> \in Seq({a1, a2, a3}) OBVIOUS
<1> QED BY <1>1, <1>2, <1>3 DEF Piece, Quiet

\* What k pieces compute.
AllOf(ES, k) == UNION {ES[i] : i \in 1 .. k}

\* Pieces joined in a row are a piece.
LEMMA PieceFlatten ==
  ASSUME NEW backward, NEW l, NEW k \in Nat, NEW segs, DOMAIN segs = 1 .. k,
         segs = [i \in 1 .. k |-> segs[i]], NEW ES,
         \A i \in 1 .. k : Piece(backward, l, segs[i], ES[i]),
         \A i, j \in 1 .. k : i < j => \A u \in ES[i], v \in ES[j] : Follows(backward, u, v)
  PROVE  Piece(backward, l, FlattenSeq(segs), AllOf(ES, k))
<1>1. CASE k = 0
  <2>1. segs = <<>> BY <1>1
  <2>3. AllOf(ES, k) = {} BY <1>1 DEF AllOf
  <2>4. FlattenSeq(segs) = <<>>
    <3>1. Len(segs) = 0 BY <2>1
    <3> QED BY <2>1, <3>1 DEF FlattenSeq
  <2>5. Piece(backward, l, <<>>, {}) BY PieceNone
  <2> QED BY <2>3, <2>4, <2>5, Zenon
<1>2. CASE k # 0
  <2>0. k \in Nat \ {0} BY <1>2
  <2>1. PICK T : T = UNION {Range(segs[i]) : i \in 1 .. k} OBVIOUS
  <2>2. \A i \in 1 .. k : Range(segs[i]) \subseteq T BY <2>1
  <2>3. \A i \in 1 .. k : segs[i] \in Seq(T)
    <3>1. \A A, B : A \subseteq B => Seq(A) \subseteq Seq(B) OBVIOUS
    <3> QED BY <2>2, <3>1 DEF Piece
  <2>4. segs \in [1 .. k -> Seq(T)] BY <2>3
  <2>5. PICK r : r = FlattenSeq(segs) OBVIOUS
  <2>6. /\ r \in Seq(T)
        /\ \A v : v \in Range(r) <=> \E i \in 1 .. k : v \in Range(segs[i])
    BY <2>0, <2>4, <2>5, FlattenRange
  <2> DEFINE R == {p \in T \X T : p[1].op = "emit" /\ p[2].op = "emit" => Follows(backward, p[1], p[2])}
  <2>7. \A u, v \in T : <<u, v>> \in R <=> (u.op = "emit" /\ v.op = "emit" => Follows(backward, u, v))
    OBVIOUS
  <2>8. ASSUME NEW i \in 1 .. k PROVE Pairwise(segs[i], R)
    <3> HIDE DEF R
    <3>1. segs[i] \in [1 .. Len(segs[i]) -> T] BY <2>3, LenProperties
    <3> QED BY <2>7, <3>1 DEF Piece, Pairwise
  <2>9. ASSUME NEW i \in 1 .. k, NEW j \in 1 .. k, i < j,
               NEW u \in Range(segs[i]), NEW v \in Range(segs[j])
        PROVE  <<u, v>> \in R
    <3> HIDE DEF R
    <3>1. u.op = "emit" /\ v.op = "emit" => u \in ES[i] /\ v \in ES[j] BY DEF Piece
    <3> QED BY <2>2, <2>7, <2>9, <3>1
  <2>10. Pairwise(r, R)
    <3> HIDE DEF R
    <3> QED BY <2>0, <2>4, <2>5, <2>8, <2>9, FlattenPairwise
  <2>11. r \in [1 .. Len(r) -> T] BY <2>6, LenProperties
  <2>12. \A x, y \in DOMAIN r :
           x < y /\ r[x].op = "emit" /\ r[y].op = "emit" => Follows(backward, r[x], r[y])
    <3> HIDE DEF R
    <3> QED BY <2>7, <2>10, <2>11 DEF Pairwise
  <2>13. r \in Seq(Range(r))
    <3>1. Len(r) \in Nat BY <2>6, LenProperties
    <3>2. r \in [1 .. Len(r) -> Range(r)] BY <2>11 DEF Range
    <3> QED BY <3>1, <3>2
  <2>14. \A ins \in Range(r) : ins.op = "load" => InBounds(l, ins)
    BY <2>6 DEF Piece
  <2>15. AllOf(ES, k) = {ins \in Range(r) : ins.op = "emit"}
    <3>1. ASSUME NEW v PROVE v \in AllOf(ES, k) <=> v \in Range(r) /\ v.op = "emit"
      <4>1. v \in AllOf(ES, k) <=> \E i \in 1 .. k : v \in ES[i] BY DEF AllOf
      <4>2. \A i \in 1 .. k : v \in ES[i] <=> v \in Range(segs[i]) /\ v.op = "emit" BY DEF Piece
      <4> QED BY <2>6, <4>1, <4>2
    <3> QED BY <3>1
  <2> QED BY <2>5, <2>12, <2>13, <2>14, <2>15 DEF Piece
<1> QED BY <1>1, <1>2

-----------------------------------------------------------------------------
(* The code of the forward kernels.                                         *)

\* The fields of a launch that are not its shape.
LEMMA LaunchIs ==
  ASSUME NEW l, ValidLaunch(l)
  PROVE  ValidShape(l) /\ l.block \in Nat /\ l.num \in Nat \ {0} /\ l.idx \in Nat
BY DEF ValidLaunch

\* The blocks of a CTA: those its block of queries visits, in its split.
LEMMA ForwardRange ==
  ASSUME NEW l, ValidLaunch(l), NEW n \in Nat
  PROVE  /\ FwdMin(l) \in Nat /\ FwdMax(l) \in Int /\ FwdMax(l) <= NBlockMax(l, l.block)
         /\ FwdMin(l) <= n /\ n < FwdMax(l) <=>
              /\ NBlockMin(l, l.block) <= n /\ n < NBlockMax(l, l.block)
              /\ l.kernel = "split" =>
                   l.idx * BlocksPerSplit(l, l.num) <= n /\ n < (l.idx + 1) * BlocksPerSplit(l, l.num)
<1>1. PICK m \in Nat, num \in Nat \ {0}, idx \in Nat : m = l.block /\ num = l.num /\ idx = l.idx
  BY LaunchIs
<1>2. ValidShape(l) BY LaunchIs
<1>3. NBlockMin(l, m) \in Nat /\ NBlockMax(l, m) \in Int BY <1>2, ForwardBlocks
<1>4. CASE l.kernel = "split"
  <2>1. FwdMin(l) = SplitMin(l, m, idx, num) /\ FwdMax(l) = SplitMax(l, m, idx, num)
    BY <1>1, <1>4 DEF FwdMin, FwdMax
  <2>2. /\ SplitMin(l, m, idx, num) \in Nat /\ SplitMax(l, m, idx, num) \in Int
        /\ SplitMax(l, m, idx, num) <= NBlockMax(l, m)
        /\ SplitMin(l, m, idx, num) <= n /\ n < SplitMax(l, m, idx, num) <=>
             /\ NBlockMin(l, m) <= n /\ n < NBlockMax(l, m)
             /\ idx * BlocksPerSplit(l, num) <= n /\ n < (idx + 1) * BlocksPerSplit(l, num)
    BY <1>2, SplitIs
  <2> QED BY <1>1, <1>4, <2>1, <2>2
<1>5. CASE l.kernel # "split"
  BY <1>1, <1>3, <1>5 DEF FwdMin, FwdMax
<1> QED BY <1>4, <1>5

\* A tile of keys is whole unless it is the last, and then if lengths are even.
LEMMA KeysWhole ==
  ASSUME NEW l, ValidShape(l), NEW m \in Nat, NEW n \in Nat,
         n + 1 < NBlockMax(l, m) \/ (n < NBlockMax(l, m) /\ l.even)
  PROVE  (n + 1) * l.N <= l.sk
<1>1. PICK N \in Nat \ {0}, sk \in Nat : N = l.N /\ sk = l.sk BY ShapeIs
<1>2. PICK q \in Nat : q = N * n /\ (n + 1) * N = q + N /\ N * (n + 1) = q + N OBVIOUS
<1>3. CASE n + 1 < NBlockMax(l, m)
  <2>1. n + 1 \in Nat OBVIOUS
  <2>2. N * (n + 1) < sk BY <1>1, <1>3, <2>1, ForwardBlocks
  <2> QED BY <1>1, <1>2, <2>2
<1>4. CASE n < NBlockMax(l, m) /\ l.even
  <2>1. q < sk BY <1>1, <1>2, <1>4, ForwardBlocks
  <2>2. sk % N = 0 BY <1>1, <1>4, ShapeIs
  <2>3. q + N <= sk BY <1>2, <2>1, <2>2, WholeTile
  <2> QED BY <1>1, <1>2, <2>3
<1> QED BY <1>3, <1>4

\* The loads of keys the kernels issue keep their bounds.
LEMMA KeyLoad ==
  ASSUME NEW l, NEW buf, NEW name \in {"K", "V"}, NEW n \in Nat, NEW bounds,
         \/ (n + 1) * l.N <= l.sk
         \/ bounds = "clear"
         \/ bounds = "skip" /\ l.kernel # "bwd" /\ name = "K"
  PROVE  Quiet(l, Load(buf, Tile(name, n), bounds))
<1>1. PICK ins : ins = Load(buf, Tile(name, n), bounds) OBVIOUS
<1>2. ins.op = "load" /\ ins.tile.name = name /\ ins.tile.at = n /\ ins.bounds = bounds
  BY <1>1 DEF Load, Tile
<1>3. InBounds(l, ins) BY <1>2 DEF InBounds
<1> QED BY <1>1, <1>2, <1>3 DEF Quiet

\* And so do those of queries.
LEMMA QueryLoad ==
  ASSUME NEW l, NEW buf, NEW name \in {"Q", "dO"}, NEW m \in Nat, NEW bounds,
         \/ (m + 1) * l.M <= l.sq
         \/ bounds = "clear"
         \/ bounds = "skip" /\ l.kernel # "bwd" /\ name = "Q"
  PROVE  Quiet(l, Load(buf, Tile(name, m), bounds))
<1>1. PICK ins : ins = Load(buf, Tile(name, m), bounds) OBVIOUS
<1>2. ins.op = "load" /\ ins.tile.name = name /\ ins.tile.at = m /\ ins.bounds = bounds
  BY <1>1 DEF Load, Tile
<1>3. InBounds(l, ins) BY <1>2 DEF InBounds
<1> QED BY <1>1, <1>2, <1>3 DEF Quiet

\* All other instructions but Emit are quiet.
LEMMA OthersQuiet ==
  ASSUME NEW l
  PROVE  /\ Quiet(l, Commit) /\ Quiet(l, Sync) /\ \A n : Quiet(l, Wait(n))
         /\ \A buf, tile : /\ Quiet(l, Use(buf, tile)) /\ Quiet(l, UseRows(buf, tile))
                           /\ Quiet(l, Fetch(buf, tile)) /\ Quiet(l, Put(buf, tile))
BY DEF Quiet, Commit, Sync, Wait, Use, UseRows, Fetch, Put

\* A quiet instruction is a piece of its own.
LEMMA PieceQuiet ==
  ASSUME NEW backward, NEW l, NEW a, Quiet(l, a)
  PROVE  Piece(backward, l, <<a>>, {})
BY PieceOne DEF Quiet

\* Joining what computes nothing to a piece computes the same.
LEMMA PieceJoinQuiet ==
  ASSUME NEW backward, NEW l, NEW s, NEW t, NEW E
  PROVE  /\ Piece(backward, l, s, {}) /\ Piece(backward, l, t, E) => Piece(backward, l, s \o t, E)
         /\ Piece(backward, l, s, E) /\ Piece(backward, l, t, {}) => Piece(backward, l, s \o t, E)
<1>1. {} \cup E = E /\ E \cup {} = E OBVIOUS
<1>2. ASSUME Piece(backward, l, s, {}), Piece(backward, l, t, E) PROVE Piece(backward, l, s \o t, E)
  <2>1. Piece(backward, l, s \o t, {} \cup E) BY <1>2, PieceJoin
  <2> QED BY <1>1, <2>1, Zenon
<1>3. ASSUME Piece(backward, l, s, E), Piece(backward, l, t, {}) PROVE Piece(backward, l, s \o t, E)
  <2>1. Piece(backward, l, s \o t, E \cup {}) BY <1>3, PieceJoin
  <2> QED BY <1>1, <2>1, Zenon
<1> QED BY <1>2, <1>3

\* A piece that computes nothing, under a condition.
LEMMA PieceIfQuiet ==
  ASSUME NEW backward, NEW l, NEW s, NEW condition \in BOOLEAN,
         condition => Piece(backward, l, s, {})
  PROVE  Piece(backward, l, If(condition, s), {})
<1>1. Piece(backward, l, If(condition, s), IF condition THEN {} ELSE {}) BY PieceIf
<1>2. (IF condition THEN {} ELSE {}) = {} OBVIOUS
<1> QED BY <1>1, <1>2, Zenon

\* Whether an iteration of the forward computes its tile.
LiveForward(l, n, masking) == masking \/ l.kernel = "split" \/ ~ Skipped(l, l.block, n)

\* What it computes then.
ForwardResult(n, masking) == Emit([tile |-> n, masking |-> masking])

\* The scores of a tile only read.
LEMMA ScoreGemmQuiet ==
  ASSUME NEW l, NEW n
  PROVE  Piece(FALSE, l, ScoreGemm(l, n), {})
<1>1. PICK a, b : a = UseRows("sQ", Tile("Q", l.block)) /\ b = Use("sK", Tile("K", n)) OBVIOUS
<1>2. Quiet(l, a) /\ Quiet(l, b) BY <1>1, OthersQuiet
<1>3. Piece(FALSE, l, <<a>>, {}) /\ Piece(FALSE, l, <<b>>, {}) BY <1>2, PieceQuiet
<1>4. PICK plain \in BOOLEAN : plain = (l.traits = "plain") OBVIOUS
<1>5. Piece(FALSE, l, If(plain, <<a>>), {}) BY <1>3, PieceIfQuiet
<1>6. Piece(FALSE, l, If(plain, <<a>>) \o <<b>>, {}) BY <1>3, <1>5, PieceJoinQuiet
<1> QED BY <1>1, <1>4, <1>6 DEF ScoreGemm

\* The next tile of keys is whole: it is not the last.
LEMMA PrefetchKQuiet ==
  ASSUME NEW l, ValidLaunch(l), NEW n \in Nat, n < FwdMax(l)
  PROVE  Piece(FALSE, l, PrefetchK(l, n), {})
<1>1. FwdMin(l) \in Nat /\ FwdMax(l) \in Int /\ FwdMax(l) <= NBlockMax(l, l.block)
      /\ NBlockMax(l, l.block) \in Int /\ ValidShape(l) /\ l.block \in Nat
  BY ForwardRange, LaunchIs, ForwardBlocks
<1>2. CASE n > FwdMin(l)
  <2>1. PICK k \in Nat : k = n - 1
    <3>1. n - 1 \in Nat BY <1>1, <1>2
    <3> QED BY <3>1
  <2>2. k + 1 < NBlockMax(l, l.block) BY <1>1, <2>1
  <2>3. (k + 1) * l.N <= l.sk BY <1>1, <2>2, KeysWhole
  <2>4. PICK name \in {"K", "V"} : name = "K" OBVIOUS
  <2>5. Quiet(l, Load("sK", Tile(name, k), "all")) BY <2>3, KeyLoad
  <2>6. Quiet(l, Commit) BY OthersQuiet
  <2>7. Piece(FALSE, l, <<Load("sK", Tile(name, k), "all"), Commit>>, {}) BY <2>5, <2>6, PieceTwo
  <2> QED BY <1>2, <2>1, <2>4, <2>7 DEF PrefetchK
<1>3. CASE ~ (n > FwdMin(l)) BY <1>3, PieceNone DEF PrefetchK
<1> QED BY <1>2, <1>3

\* An iteration keeps the bounds of its loads and computes one tile or none.
LEMMA ForwardStepIs ==
  ASSUME NEW l, ValidLaunch(l), NEW n \in Nat, n < FwdMax(l),
         NEW masking \in BOOLEAN, masking \/ n + 1 < FwdMax(l)
  PROVE  Piece(FALSE, l, ForwardStep(l, n, masking),
               IF LiveForward(l, n, masking) THEN {ForwardResult(n, masking)} ELSE {})
<1>1. FwdMin(l) \in Nat /\ FwdMax(l) \in Int /\ FwdMax(l) <= NBlockMax(l, l.block)
      /\ NBlockMax(l, l.block) \in Int /\ ValidShape(l) /\ l.block \in Nat
  BY ForwardRange, LaunchIs, ForwardBlocks
<1>2. PICK live \in BOOLEAN : live = LiveForward(l, n, masking) BY DEF LiveForward
<1>3. PICK bounds :
        bounds = IF masking /\ n = FwdMax(l) - 1 /\ ~ l.even THEN "clear" ELSE "all"
  OBVIOUS
<1>4. PICK a : a = Load("sV", Tile("V", n), bounds) OBVIOUS
<1>5. Quiet(l, a)
  <2>1. PICK name \in {"K", "V"} : name = "V" OBVIOUS
  <2>2. bounds = "clear" \/ (n + 1) * l.N <= l.sk
    <3>1. n + 1 < NBlockMax(l, l.block) \/ (n < NBlockMax(l, l.block) /\ l.even) \/ bounds = "clear"
      BY <1>1, <1>3
    <3> QED BY <1>1, <3>1, KeysWhole
  <2>3. Quiet(l, Load("sV", Tile(name, n), bounds)) BY <2>2, KeyLoad
  <2> QED BY <1>4, <2>1, <2>3
<1>6. PICK s1, s2, s3, s4, s5 :
        /\ s1 = <<Wait(0), Sync, a, Commit>>
        /\ s2 = If(live, ScoreGemm(l, n))
        /\ s3 = <<Wait(0), Sync>>
        /\ s4 = PrefetchK(l, n)
        /\ s5 = If(live, <<Use("sV", Tile("V", n)), ForwardResult(n, masking)>>)
  OBVIOUS
<1>7. PICK E : E = IF live THEN {ForwardResult(n, masking)} ELSE {} OBVIOUS
<1>8. Piece(FALSE, l, s1, {}) BY <1>5, <1>6, OthersQuiet, PieceFour
<1>9. Piece(FALSE, l, s2, {}) BY <1>6, ScoreGemmQuiet, PieceIfQuiet
<1>10. Piece(FALSE, l, s3, {}) BY <1>6, OthersQuiet, PieceTwo
<1>11. Piece(FALSE, l, s4, {}) BY <1>6, PrefetchKQuiet
<1>12. Piece(FALSE, l, s5, E)
  <2>1. PICK b, e : b = Use("sV", Tile("V", n)) /\ e = ForwardResult(n, masking) OBVIOUS
  <2>2. Quiet(l, b) /\ e.op = "emit" BY <2>1, OthersQuiet DEF ForwardResult, Emit
  <2>3. Piece(FALSE, l, <<b, e>>, {e}) BY <2>2, PieceTwoEmit
  <2>4. Piece(FALSE, l, If(live, <<b, e>>), IF live THEN {e} ELSE {}) BY <2>3, PieceIf
  <2> QED BY <1>6, <1>7, <2>1, <2>4
<1>13. Piece(FALSE, l, s1 \o s2, {}) BY <1>8, <1>9, PieceJoinQuiet
<1>14. Piece(FALSE, l, (s1 \o s2) \o s3, {}) BY <1>10, <1>13, PieceJoinQuiet
<1>15. Piece(FALSE, l, ((s1 \o s2) \o s3) \o s4, {}) BY <1>11, <1>14, PieceJoinQuiet
<1>16. Piece(FALSE, l, (((s1 \o s2) \o s3) \o s4) \o s5, E) BY <1>12, <1>15, PieceJoinQuiet
<1>17. ForwardStep(l, n, masking) = (((s1 \o s2) \o s3) \o s4) \o s5
  BY <1>2, <1>3, <1>4, <1>6 DEF ForwardStep, LiveForward, ForwardResult
<1> QED BY <1>2, <1>7, <1>16, <1>17

\* The loads before the loop: a tile that may end beyond the lengths is asked.
LEMMA ForwardPrologueIs ==
  ASSUME NEW l, ValidLaunch(l), l.kernel # "bwd", l.block * l.M < l.sq, FwdMin(l) < FwdMax(l)
  PROVE  Piece(FALSE, l, ForwardPrologue(l), {})
<1>1. FwdMin(l) \in Nat /\ FwdMax(l) \in Int /\ FwdMax(l) <= NBlockMax(l, l.block)
      /\ NBlockMax(l, l.block) \in Int /\ ValidShape(l)
  BY ForwardRange, LaunchIs, ForwardBlocks
<1>2. PICK m \in Nat : m = l.block BY LaunchIs
<1>3. PICK k \in Nat : k = FwdMax(l) - 1
  <2>1. FwdMax(l) - 1 \in Nat BY <1>1
  <2> QED BY <2>1
<1>4. PICK edge : edge = IF l.even THEN "all" ELSE "skip" OBVIOUS
<1>5. PICK q : q = Tile("Q", m) OBVIOUS
<1>6. Quiet(l, Load("sQ", q, edge))
  <2>1. PICK name \in {"Q", "dO"} : name = "Q" OBVIOUS
  <2>2. (m + 1) * l.M <= l.sq \/ edge = "skip"
    <3>1. CASE l.even
      <4>1. PICK M \in Nat \ {0}, sq \in Nat : M = l.M /\ sq = l.sq BY <1>1, ShapeIs
      <4>2. PICK p \in Nat : p = M * m /\ p = m * M /\ (m + 1) * M = p + M OBVIOUS
      <4>3. p < sq BY <1>2, <4>1, <4>2
      <4>4. sq % M = 0 BY <1>1, <3>1, <4>1, ShapeIs
      <4>5. p + M <= sq BY <4>2, <4>3, <4>4, WholeTile
      <4> QED BY <4>1, <4>2, <4>5
    <3>2. CASE ~ l.even BY <1>4, <3>2
    <3> QED BY <3>1, <3>2
  <2>3. Quiet(l, Load("sQ", Tile(name, m), edge)) BY <2>1, <2>2, QueryLoad
  <2> QED BY <1>5, <2>1, <2>3
<1>7. Quiet(l, Load("sK", Tile("K", k), edge))
  <2>1. PICK name \in {"K", "V"} : name = "K" OBVIOUS
  <2>2. (k + 1) * l.N <= l.sk \/ edge = "skip"
    <3>1. k < NBlockMax(l, m) BY <1>1, <1>2, <1>3
    <3>2. CASE l.even BY <1>1, <3>1, <3>2, KeysWhole
    <3>3. CASE ~ l.even BY <1>4, <3>3
    <3> QED BY <3>2, <3>3
  <2>3. Quiet(l, Load("sK", Tile(name, k), edge)) BY <2>1, <2>2, KeyLoad
  <2> QED BY <2>1, <2>3
<1>8. PICK c1 \in BOOLEAN, c2 \in BOOLEAN, c3 \in BOOLEAN :
        c1 = (l.traits # "plain") /\ c2 = (l.traits = "share") /\ c3 = (l.traits = "qregs")
  OBVIOUS
<1>9. PICK s1, s2, s3, s4, s5 :
        /\ s1 = <<Load("sQ", q, edge)>>
        /\ s2 = If(c1, <<Commit>>)
        /\ s3 = If(c2, <<Wait(0), Sync, UseRows("sQ", q), Sync>>)
        /\ s4 = <<Load("sK", Tile("K", k), edge), Commit>>
        /\ s5 = If(c3, <<Wait(1), Sync, UseRows("sQ", q)>>)
  OBVIOUS
<1>10. Piece(FALSE, l, s1, {}) BY <1>6, <1>9, PieceQuiet
<1>11. Piece(FALSE, l, s2, {})
  <2>1. Piece(FALSE, l, <<Commit>>, {}) BY OthersQuiet, PieceQuiet
  <2> QED BY <1>9, <2>1, PieceIfQuiet
<1>12. Piece(FALSE, l, s3, {})
  <2>1. Piece(FALSE, l, <<Wait(0), Sync, UseRows("sQ", q), Sync>>, {}) BY OthersQuiet, PieceFour
  <2> QED BY <1>9, <2>1, PieceIfQuiet
<1>13. Piece(FALSE, l, s4, {}) BY <1>7, <1>9, OthersQuiet, PieceTwo
<1>14. Piece(FALSE, l, s5, {})
  <2>1. Piece(FALSE, l, <<Wait(1), Sync, UseRows("sQ", q)>>, {}) BY OthersQuiet, PieceThree
  <2> QED BY <1>9, <2>1, PieceIfQuiet
<1>15. Piece(FALSE, l, s1 \o s2, {}) BY <1>10, <1>11, PieceJoinQuiet
<1>16. Piece(FALSE, l, (s1 \o s2) \o s3, {}) BY <1>12, <1>15, PieceJoinQuiet
<1>17. Piece(FALSE, l, ((s1 \o s2) \o s3) \o s4, {}) BY <1>13, <1>16, PieceJoinQuiet
<1>18. Piece(FALSE, l, (((s1 \o s2) \o s3) \o s4) \o s5, {}) BY <1>14, <1>17, PieceJoinQuiet
<1>19. ForwardPrologue(l) = (((s1 \o s2) \o s3) \o s4) \o s5
  BY <1>2, <1>3, <1>4, <1>5, <1>8, <1>9 DEF ForwardPrologue
<1> QED BY <1>18, <1>19

\* The output is staged and copied.
LEMMA ForwardEpilogueIs ==
  ASSUME NEW l
  PROVE  Piece(FALSE, l, ForwardEpilogue(l), {})
<1>1. PICK wait \in BOOLEAN : wait = (l.traits = "share" \/ (l.kernel = "split" /\ l.num > 1)) OBVIOUS
<1>2. PICK s1, s2 :
        /\ s1 = If(wait, <<Sync>>)
        /\ s2 = <<Put("sO", Tile("O", l.block)), Sync, Fetch("sO", Tile("O", l.block))>>
  OBVIOUS
<1>3. Piece(FALSE, l, s1, {})
  <2>1. Piece(FALSE, l, <<Sync>>, {}) BY OthersQuiet, PieceQuiet
  <2> QED BY <1>2, <2>1, PieceIfQuiet
<1>4. Piece(FALSE, l, s2, {}) BY <1>2, OthersQuiet, PieceThree
<1>5. Piece(FALSE, l, s1 \o s2, {}) BY <1>3, <1>4, PieceJoinQuiet
<1> QED BY <1>1, <1>2, <1>5 DEF ForwardEpilogue

\* The masking loop treats the last block at least, and no block twice.
LEMMA LastMaskedIs ==
  ASSUME NEW l, ValidLaunch(l), FwdMin(l) < FwdMax(l)
  PROVE  /\ LastMasked(l) \in Nat
         /\ FwdMin(l) <= LastMasked(l) /\ LastMasked(l) < FwdMax(l)
         /\ LastMasked(l) # FwdMin(l) => LastMasked(l) + MaskingSteps(l) = FwdMax(l)
<1>1. FwdMin(l) \in Nat /\ FwdMax(l) \in Int BY ForwardRange
<1>2. MaskingSteps(l) \in Nat \ {0} BY LaunchIs, StepsAre
<1> QED BY <1>1, <1>2 DEF LastMasked

\* The tiles a CTA of the forward computes: with all masks those of the first
\* loop, with the window alone those of the second that are not skipped.
MaskedResults(l) == {ForwardResult(n, TRUE) : n \in LastMasked(l) .. FwdMax(l) - 1}
LaterResults(l) ==
  {ForwardResult(n, FALSE) : n \in {k \in FwdMin(l) .. LastMasked(l) - 1 : LiveForward(l, k, FALSE)}}

\* The loop with masks.
LEMMA MaskingLoopIs ==
  ASSUME NEW l, ValidLaunch(l), FwdMin(l) < FwdMax(l)
  PROVE  Piece(FALSE, l,
               FlattenSeq([i \in 1 .. FwdMax(l) - LastMasked(l) |-> ForwardStep(l, FwdMax(l) - i, TRUE)]),
               MaskedResults(l))
<1>1. PICK hi \in Nat, last \in Nat : hi = FwdMax(l) /\ last = LastMasked(l) /\ last < hi
  <2>1. FwdMin(l) \in Nat /\ FwdMax(l) \in Int /\ LastMasked(l) \in Nat /\ LastMasked(l) < FwdMax(l)
    BY ForwardRange, LastMaskedIs
  <2>2. FwdMax(l) \in Nat BY <2>1
  <2> QED BY <2>1, <2>2
<1>2. PICK k \in Nat : k = hi - last
  <2>1. hi - last \in Nat BY <1>1
  <2> QED BY <2>1
<1>3. PICK segs : segs = [i \in 1 .. k |-> ForwardStep(l, hi - i, TRUE)] OBVIOUS
<1>4. PICK ES : ES = [i \in 1 .. k |-> {ForwardResult(hi - i, TRUE)}] OBVIOUS
<1>5. DOMAIN segs = 1 .. k /\ segs = [i \in 1 .. k |-> segs[i]] BY <1>3
<1>6. ASSUME NEW i \in 1 .. k PROVE Piece(FALSE, l, segs[i], ES[i])
  <2>1. PICK n \in Nat, yes \in BOOLEAN : n = hi - i /\ yes = TRUE /\ n < hi
    <3>1. hi - i \in Nat /\ hi - i < hi BY <1>1, <1>2
    <3> QED BY <3>1
  <2>2. Piece(FALSE, l, ForwardStep(l, n, yes),
              IF LiveForward(l, n, yes) THEN {ForwardResult(n, yes)} ELSE {})
    BY <1>1, <2>1, ForwardStepIs
  <2>3. LiveForward(l, n, yes) BY <2>1 DEF LiveForward
  <2>4. Piece(FALSE, l, ForwardStep(l, n, yes), {ForwardResult(n, yes)})
    <3>1. (IF LiveForward(l, n, yes) THEN {ForwardResult(n, yes)} ELSE {}) = {ForwardResult(n, yes)}
      BY <2>3
    <3> QED BY <2>2, <3>1, Zenon
  <2>5. segs[i] = ForwardStep(l, n, yes) /\ ES[i] = {ForwardResult(n, yes)} BY <1>3, <1>4, <2>1
  <2> QED BY <2>4, <2>5, Zenon
<1>7. ASSUME NEW i \in 1 .. k, NEW j \in 1 .. k, i < j, NEW u \in ES[i], NEW v \in ES[j]
      PROVE  Follows(FALSE, u, v)
  <2>1. u = ForwardResult(hi - i, TRUE) /\ v = ForwardResult(hi - j, TRUE) BY <1>4, <1>7
  <2>2. u.what.tile = hi - i /\ v.what.tile = hi - j BY <2>1 DEF ForwardResult, Emit
  <2> QED BY <1>1, <1>7, <2>2 DEF Follows
<1>8. Piece(FALSE, l, FlattenSeq(segs), AllOf(ES, k))
  <2>1. \A i \in 1 .. k : Piece(FALSE, l, segs[i], ES[i]) BY <1>6
  <2>2. \A i, j \in 1 .. k : i < j => \A u \in ES[i], v \in ES[j] : Follows(FALSE, u, v) BY <1>7
  <2> QED BY <1>5, <2>1, <2>2, PieceFlatten
<1>9. AllOf(ES, k) = MaskedResults(l)
  <2>1. ASSUME NEW u PROVE u \in AllOf(ES, k) <=> u \in MaskedResults(l)
    <3>1. u \in AllOf(ES, k) <=> \E i \in 1 .. k : u = ForwardResult(hi - i, TRUE)
      BY <1>4 DEF AllOf
    <3>2. u \in MaskedResults(l) <=> \E n \in last .. hi - 1 : u = ForwardResult(n, TRUE)
      BY <1>1 DEF MaskedResults
    <3>3. ASSUME NEW i \in 1 .. k, u = ForwardResult(hi - i, TRUE)
          PROVE  \E n \in last .. hi - 1 : u = ForwardResult(n, TRUE)
      <4>1. hi - i \in last .. hi - 1 BY <1>1, <1>2
      <4> QED BY <3>3, <4>1
    <3>4. ASSUME NEW n \in last .. hi - 1, u = ForwardResult(n, TRUE)
          PROVE  \E i \in 1 .. k : u = ForwardResult(hi - i, TRUE)
      <4>1. hi - n \in 1 .. k /\ hi - (hi - n) = n BY <1>1, <1>2
      <4> QED BY <3>4, <4>1
    <3> QED BY <3>1, <3>2, <3>3, <3>4
  <2> QED BY <2>1
<1>10. segs = [i \in 1 .. FwdMax(l) - LastMasked(l) |-> ForwardStep(l, FwdMax(l) - i, TRUE)]
  BY <1>1, <1>2, <1>3
<1> QED BY <1>8, <1>9, <1>10, Zenon

\* The loop without, which leaves out what the group mask hides.
LEMMA LaterLoopIs ==
  ASSUME NEW l, ValidLaunch(l), FwdMin(l) < FwdMax(l)
  PROVE  Piece(FALSE, l,
               FlattenSeq([i \in 1 .. LastMasked(l) - FwdMin(l) |-> ForwardStep(l, LastMasked(l) - i, FALSE)]),
               LaterResults(l))
<1>1. PICK hi \in Nat, last \in Nat, lo \in Nat :
        hi = FwdMax(l) /\ last = LastMasked(l) /\ lo = FwdMin(l) /\ lo <= last /\ last < hi
  <2>1. /\ FwdMin(l) \in Nat /\ FwdMax(l) \in Int /\ LastMasked(l) \in Nat
        /\ FwdMin(l) <= LastMasked(l) /\ LastMasked(l) < FwdMax(l)
    BY ForwardRange, LastMaskedIs
  <2>2. FwdMax(l) \in Nat BY <2>1
  <2> QED BY <2>1, <2>2
<1>2. PICK k \in Nat : k = last - lo
  <2>1. last - lo \in Nat BY <1>1
  <2> QED BY <2>1
<1>3. PICK segs : segs = [i \in 1 .. k |-> ForwardStep(l, last - i, FALSE)] OBVIOUS
<1>4. PICK ES :
        ES = [i \in 1 .. k |-> IF LiveForward(l, last - i, FALSE) THEN {ForwardResult(last - i, FALSE)} ELSE {}]
  OBVIOUS
<1>5. DOMAIN segs = 1 .. k /\ segs = [i \in 1 .. k |-> segs[i]] BY <1>3
<1>6. ASSUME NEW i \in 1 .. k PROVE Piece(FALSE, l, segs[i], ES[i])
  <2>1. PICK n \in Nat, no \in BOOLEAN : n = last - i /\ no = FALSE /\ n < hi /\ n + 1 < hi
    <3>1. last - i \in Nat /\ last - i < hi /\ last - i + 1 < hi BY <1>1, <1>2
    <3> QED BY <3>1
  <2>2. Piece(FALSE, l, ForwardStep(l, n, no),
              IF LiveForward(l, n, no) THEN {ForwardResult(n, no)} ELSE {})
    BY <1>1, <2>1, ForwardStepIs
  <2>3. /\ segs[i] = ForwardStep(l, n, no)
        /\ ES[i] = IF LiveForward(l, n, no) THEN {ForwardResult(n, no)} ELSE {}
    BY <1>3, <1>4, <2>1
  <2> QED BY <2>2, <2>3, Zenon
<1>7. ASSUME NEW i \in 1 .. k, NEW j \in 1 .. k, i < j, NEW u \in ES[i], NEW v \in ES[j]
      PROVE  Follows(FALSE, u, v)
  <2>1. u = ForwardResult(last - i, FALSE) /\ v = ForwardResult(last - j, FALSE) BY <1>4, <1>7
  <2>2. u.what.tile = last - i /\ v.what.tile = last - j BY <2>1 DEF ForwardResult, Emit
  <2> QED BY <1>1, <1>7, <2>2 DEF Follows
<1>8. Piece(FALSE, l, FlattenSeq(segs), AllOf(ES, k))
  <2>1. \A i \in 1 .. k : Piece(FALSE, l, segs[i], ES[i]) BY <1>6
  <2>2. \A i, j \in 1 .. k : i < j => \A u \in ES[i], v \in ES[j] : Follows(FALSE, u, v) BY <1>7
  <2> QED BY <1>5, <2>1, <2>2, PieceFlatten
<1>9. AllOf(ES, k) = LaterResults(l)
  <2>1. ASSUME NEW u PROVE u \in AllOf(ES, k) <=> u \in LaterResults(l)
    <3>1. u \in AllOf(ES, k) <=>
            \E i \in 1 .. k : LiveForward(l, last - i, FALSE) /\ u = ForwardResult(last - i, FALSE)
      BY <1>4 DEF AllOf
    <3>2. u \in LaterResults(l) <=>
            \E n \in lo .. last - 1 : LiveForward(l, n, FALSE) /\ u = ForwardResult(n, FALSE)
      BY <1>1 DEF LaterResults
    <3>3. ASSUME NEW i \in 1 .. k, LiveForward(l, last - i, FALSE), u = ForwardResult(last - i, FALSE)
          PROVE  \E n \in lo .. last - 1 : LiveForward(l, n, FALSE) /\ u = ForwardResult(n, FALSE)
      <4>1. last - i \in lo .. last - 1 BY <1>1, <1>2
      <4> QED BY <3>3, <4>1
    <3>4. ASSUME NEW n \in lo .. last - 1, LiveForward(l, n, FALSE), u = ForwardResult(n, FALSE)
          PROVE  \E i \in 1 .. k : LiveForward(l, last - i, FALSE) /\ u = ForwardResult(last - i, FALSE)
      <4>1. last - n \in 1 .. k /\ last - (last - n) = n BY <1>1, <1>2
      <4> QED BY <3>4, <4>1
    <3> QED BY <3>1, <3>2, <3>3, <3>4
  <2> QED BY <2>1
<1>10. segs = [i \in 1 .. LastMasked(l) - FwdMin(l) |-> ForwardStep(l, LastMasked(l) - i, FALSE)]
  BY <1>1, <1>2, <1>3
<1> QED BY <1>8, <1>9, <1>10, Zenon

\* The CTAs with nothing to do return, and the others compute their tiles.
LEMMA ForwardCodeIs ==
  ASSUME NEW l, ValidLaunch(l), l.kernel # "bwd", NEW w
  PROVE  IF l.block * l.M < l.sq /\ FwdMin(l) < FwdMax(l)
         THEN Piece(FALSE, l, ForwardCode(l, w), MaskedResults(l) \cup LaterResults(l))
         ELSE ForwardCode(l, w) = <<>>
<1>1. PICK m \in Nat, M \in Nat, sq \in Nat : m = l.block /\ M = l.M /\ sq = l.sq
  BY LaunchIs, ShapeIs
<1>2. FwdMin(l) \in Nat /\ FwdMax(l) \in Int BY ForwardRange
<1>3. CASE ~ (l.block * l.M < l.sq)
  <2>1. l.block * l.M >= l.sq BY <1>1, <1>3
  <2> QED BY <1>3, <2>1 DEF ForwardCode
<1>4. CASE ~ (FwdMin(l) < FwdMax(l))
  <2>1. FwdMax(l) <= FwdMin(l) BY <1>2, <1>4
  <2>2. l.kernel = "split" \/ l.mode # "full" \/ ~ l.even
    <3> SUFFICES ASSUME l.kernel # "split", l.mode = "full" PROVE FALSE OBVIOUS
    <3>1. PICK z \in Nat : z = 0 OBVIOUS
    <3>2. l.N * z < l.sk BY <3>1, LaunchIs, ShapeIs
    <3>3. ValidShape(l) BY LaunchIs
    <3>4. z < NBlockMax(l, m) BY <3>2, <3>3, ForwardBlocks
    <3>5. NBlockMin(l, m) <= z BY <3>3, ForwardBlocks
    <3>6. FwdMin(l) <= z /\ z < FwdMax(l) BY <1>1, <3>4, <3>5, ForwardRange
    <3> QED BY <1>2, <1>4, <3>6
  <2> QED BY <1>4, <2>1, <2>2 DEF ForwardCode
<1>5. CASE l.block * l.M < l.sq /\ FwdMin(l) < FwdMax(l)
  <2>1. PICK s1, s2, s3, s4 :
          /\ s1 = ForwardPrologue(l)
          /\ s2 = FlattenSeq([i \in 1 .. FwdMax(l) - LastMasked(l) |-> ForwardStep(l, FwdMax(l) - i, TRUE)])
          /\ s3 = FlattenSeq([i \in 1 .. LastMasked(l) - FwdMin(l) |-> ForwardStep(l, LastMasked(l) - i, FALSE)])
          /\ s4 = ForwardEpilogue(l)
    OBVIOUS
  <2>2. Piece(FALSE, l, s1, {}) BY <1>5, <2>1, ForwardPrologueIs
  <2>3. Piece(FALSE, l, s2, MaskedResults(l)) BY <1>5, <2>1, MaskingLoopIs
  <2>4. Piece(FALSE, l, s3, LaterResults(l)) BY <1>5, <2>1, LaterLoopIs
  <2>5. Piece(FALSE, l, s4, {}) BY <2>1, ForwardEpilogueIs
  <2>6. Piece(FALSE, l, s1 \o s2, MaskedResults(l)) BY <2>2, <2>3, PieceJoinQuiet
  <2>7. \A u \in MaskedResults(l), v \in LaterResults(l) : Follows(FALSE, u, v)
    <3> SUFFICES ASSUME NEW u \in MaskedResults(l), NEW v \in LaterResults(l)
                 PROVE  Follows(FALSE, u, v)
      OBVIOUS
    <3>1. PICK a \in LastMasked(l) .. FwdMax(l) - 1 : u = ForwardResult(a, TRUE)
      BY DEF MaskedResults
    <3>2. PICK b \in FwdMin(l) .. LastMasked(l) - 1 : v = ForwardResult(b, FALSE)
      BY DEF LaterResults
    <3>3. LastMasked(l) \in Nat BY <1>5, LastMaskedIs
    <3>4. u.what.tile = a /\ v.what.tile = b BY <3>1, <3>2 DEF ForwardResult, Emit
    <3>5. b < a BY <1>2, <3>3
    <3> QED BY <3>4, <3>5 DEF Follows
  <2>8. Piece(FALSE, l, (s1 \o s2) \o s3, MaskedResults(l) \cup LaterResults(l))
    BY <2>4, <2>6, <2>7, PieceJoin
  <2>9. Piece(FALSE, l, ((s1 \o s2) \o s3) \o s4, MaskedResults(l) \cup LaterResults(l))
    BY <2>5, <2>8, PieceJoinQuiet
  <2>10. ~ (l.block * l.M >= l.sq) /\ ~ (FwdMax(l) <= FwdMin(l)) BY <1>1, <1>2, <1>5
  <2>11. ForwardCode(l, w) = ((s1 \o s2) \o s3) \o s4
    BY <2>1, <2>10 DEF ForwardCode
  <2> QED BY <1>5, <2>9, <2>11
<1> QED BY <1>3, <1>4, <1>5

-----------------------------------------------------------------------------
(* The code of the backward kernel.                                         *)

\* The pointers are those of the prologue, moved on once for each iteration.
PointersUpTo(ptr, l, n, first, k) ==
  \A i \in 0 .. k : ptr[i] = IF i = 0 THEN BackwardPointers(l, first)
                             ELSE Advanced(l, n, first - (i - 1), ptr[i - 1])

\* There are such pointers for every iteration.
LEMMA PointersAre ==
  ASSUME NEW l, NEW n, NEW first \in Nat
  PROVE  PointersUpTo(PointersFrom(l, n, first), l, n, first, first)
<1> DEFINE Next1(i, p) == Advanced(l, n, first - (i - 1), p)
           Is(f, j) == f = [i \in 0 .. j |-> IF i = 0 THEN BackwardPointers(l, first) ELSE Next1(i, f[i - 1])]
           Have == {j \in Nat : \E f : Is(f, j)}
<1>1. 0 \in Have
  <2>1. Is([i \in 0 .. 0 |-> BackwardPointers(l, first)], 0) OBVIOUS
  <2> HIDE DEF Is
  <2> QED BY <2>1
<1>2. ASSUME NEW j \in Nat, j < first, j \in Have PROVE j + 1 \in Have
  <2>1. PICK f : Is(f, j)
    <3> HIDE DEF Is
    <3> QED BY <1>2
  <2> HIDE DEF Next1
  <2> DEFINE g == [i \in 0 .. j + 1 |-> IF i < j + 1 THEN f[i] ELSE Next1(j + 1, f[j])]
  <2>2. \A i \in 0 .. j : f[i] = IF i = 0 THEN BackwardPointers(l, first) ELSE Next1(i, f[i - 1]) BY <2>1
  <2>3. \A i \in 0 .. j + 1 : g[i] = IF i = 0 THEN BackwardPointers(l, first) ELSE Next1(i, g[i - 1])
    <3> SUFFICES ASSUME NEW i \in 0 .. j + 1
                 PROVE  g[i] = IF i = 0 THEN BackwardPointers(l, first) ELSE Next1(i, g[i - 1])
      OBVIOUS
    <3>0. g[i] = IF i < j + 1 THEN f[i] ELSE Next1(j + 1, f[j]) OBVIOUS
    <3>1. CASE i = j + 1
      <4>1. j \in 0 .. j + 1 /\ j < j + 1 /\ i - 1 = j /\ i # 0 /\ ~ (i < j + 1) BY <3>1
      <4>2. g[j] = f[j] BY <4>1
      <4> HIDE DEF g
      <4> QED BY <3>0, <3>1, <4>1, <4>2
    <3>2. CASE i # j + 1
      <4>1. i \in 0 .. j /\ i < j + 1 BY <3>2
      <4>2. i # 0 => i - 1 \in 0 .. j + 1 /\ g[i - 1] = f[i - 1] BY <3>2
      <4> HIDE DEF g
      <4> QED BY <2>2, <3>0, <4>1, <4>2
    <3> QED BY <3>1, <3>2
  <2>4. Is(g, j + 1)
    <3>1. g = [i \in 0 .. j + 1 |-> g[i]] OBVIOUS
    <3> HIDE DEF g
    <3> QED BY <2>3, <3>1
  <2> HIDE DEF Is
  <2> QED BY <2>4
<1>3. \E f : Is(f, first)
  <2> HIDE DEF Have
  <2>1. \A j \in 0 .. first : j \in Have BY <1>1, <1>2, UpTo
  <2>2. first \in Have BY <2>1
  <2> HIDE DEF Is
  <2> QED BY <2>2 DEF Have
<1>4. PointersFrom(l, n, first) = (CHOOSE f : Is(f, first)) BY DEF PointersFrom
<1>5. PICK f : Is(f, first) /\ PointersFrom(l, n, first) = f
  <2> HIDE DEF Is
  <2> QED BY <1>3, <1>4
<1>6. PointersUpTo(f, l, n, first, first) BY <1>5 DEF PointersUpTo
<1> HIDE DEF Is
<1> QED BY <1>5, <1>6

\* At the iteration of block m the rows of dQ are the ones behind m, those of lse
\* and dPsum the ones of m, whatever tiles were skipped before.
LEMMA PointersFollow ==
  ASSUME NEW l, ValidLaunch(l), NEW n \in Nat, NEW first \in Nat,
         NEW k \in 0 .. first - MBlockMin(l, n)
  PROVE  LET ptr == PointersFrom(l, n, first)[k]
         IN  ptr.dq = first - k + 1 /\ ptr.stats = first - k
<1>1. PICK lo \in Nat : lo = MBlockMin(l, n)
  <2>1. PICK z \in Nat : z = 0 OBVIOUS
  <2> QED BY <2>1, LaunchIs, BackwardBlocks
<1>2. PICK ptr : ptr = PointersFrom(l, n, first) /\ PointersUpTo(ptr, l, n, first, first)
  BY PointersAre
<1> DEFINE Good == {i \in Nat : i <= first - lo => ptr[i].dq = first - i + 1 /\ ptr[i].stats = first - i}
<1>3. 0 \in Good
  <2>1. ptr[0] = BackwardPointers(l, first) BY <1>2 DEF PointersUpTo
  <2>2. ptr[0].dq = first + 1 /\ ptr[0].stats = first BY <2>1 DEF BackwardPointers
  <2> QED BY <2>2
<1>4. ASSUME NEW i \in Nat, i < first - lo, i \in Good PROVE i + 1 \in Good
  <2>1. i + 1 \in 0 .. first /\ i + 1 # 0 /\ (i + 1) - 1 = i BY <1>1, <1>4
  <2>2. ptr[i + 1] = Advanced(l, n, first - i, ptr[i]) BY <1>2, <2>1 DEF PointersUpTo
  <2>3. ptr[i].dq = first - i + 1 /\ ptr[i].stats = first - i BY <1>4
  <2>4. first - i > MBlockMin(l, n) BY <1>1, <1>4
  <2>5. ptr[i + 1].dq = ptr[i].dq - 1 /\ ptr[i + 1].stats = ptr[i].stats - 1
    BY <2>2, <2>4 DEF Advanced
  <2> QED BY <2>3, <2>5
<1>5. k \in Nat /\ k <= first - lo /\ first - lo \in Nat BY <1>1
<1>6. k \in Good
  <2> HIDE DEF Good
  <2>1. \A i \in 0 .. first - lo : i \in Good BY <1>3, <1>4, <1>5, UpTo
  <2> QED BY <1>5, <2>1
<1> QED BY <1>2, <1>5, <1>6

\* What an iteration computes: dQ always, dV and dK if the tile is not skipped.
ResultDV(m) == Emit([out |-> "dV", tile |-> m])
ResultDK(m) == Emit([out |-> "dK", tile |-> m])
ResultDQ(l, n, m) == Emit([out |-> "dQ", tile |-> m, at |-> m, stats |-> m, zero |-> Skipped(l, m, n)])
BackwardResults(l, n, m) ==
  {ResultDQ(l, n, m)} \cup IF Skipped(l, m, n) THEN {} ELSE {ResultDV(m), ResultDK(m)}

\* The tiles of queries of all iterations but the last, and of all if lengths are
\* even, are whole.
LEMMA QueriesWhole ==
  ASSUME NEW l, ValidShape(l), NEW n \in Nat, NEW m \in Nat,
         m + 1 < MBlockMax(l, n) \/ (m < MBlockMax(l, n) /\ l.even)
  PROVE  (m + 1) * l.M <= l.sq
<1>1. PICK M \in Nat \ {0}, sq \in Nat : M = l.M /\ sq = l.sq BY ShapeIs
<1>2. PICK p \in Nat : p = M * m /\ (m + 1) * M = p + M /\ M * (m + 1) = p + M OBVIOUS
<1>3. CASE m + 1 < MBlockMax(l, n)
  <2>1. m + 1 \in Nat OBVIOUS
  <2>2. M * (m + 1) < sq BY <1>1, <1>3, <2>1, BackwardBlocks
  <2> QED BY <1>1, <1>2, <2>2
<1>4. CASE m < MBlockMax(l, n) /\ l.even
  <2>1. p < sq BY <1>1, <1>2, <1>4, BackwardBlocks
  <2>2. sq % M = 0 BY <1>1, <1>4, ShapeIs
  <2>3. p + M <= sq BY <1>2, <2>1, <2>2, WholeTile
  <2> QED BY <1>1, <1>2, <2>3
<1> QED BY <1>3, <1>4

\* The next Q and the next dO are whole.
LEMMA NextQueriesQuiet ==
  ASSUME NEW l, ValidLaunch(l), NEW n \in Nat, NEW m \in Nat,
         m > MBlockMin(l, n), m < MBlockMax(l, n), NEW buf, NEW name \in {"Q", "dO"}
  PROVE  Quiet(l, Load(buf, Tile(name, m - 1), "all"))
<1>1. ValidShape(l) BY LaunchIs
<1>2. MBlockMin(l, n) \in Nat /\ MBlockMax(l, n) \in Int BY <1>1, BackwardBlocks
<1>3. PICK k \in Nat : k = m - 1 /\ k + 1 < MBlockMax(l, n)
  <2>1. m - 1 \in Nat /\ (m - 1) + 1 < MBlockMax(l, n) BY <1>2
  <2> QED BY <2>1
<1>4. (k + 1) * l.M <= l.sq BY <1>1, <1>3, QueriesWhole
<1> QED BY <1>3, <1>4, QueryLoad

\* S, P, dP and dS compute nothing that is kept.
LEMMA BackwardScoresQuiet ==
  ASSUME NEW l, ValidLaunch(l), NEW n \in Nat, NEW m \in Nat, m < MBlockMax(l, n), NEW ptr, NEW next
  PROVE  Piece(TRUE, l, BackwardScores(l, n, m, ptr, next), {})
<1>1. PICK live \in BOOLEAN, inRegs \in BOOLEAN, flip \in BOOLEAN :
        /\ live = ~ Skipped(l, m, n) /\ inRegs = ~ VInRegs(l)
        /\ flip = (DoubleBuffer(l) /\ m > MBlockMin(l, n))
  BY DEF Skipped, VInRegs, DoubleBuffer
<1>2. PICK a1, a2, a3 :
        /\ a1 = <<Use(QSlot(ptr.q), Tile("Q", m)), Use("sK", Tile("K", n))>>
        /\ a2 = <<Put("sP", Tile("P", m))>>
        /\ a3 = <<Put("sdS", Tile("dS", m)), Sync>>
  OBVIOUS
<1>3. PICK b1, b2 : b1 = <<Use("sdO", Tile("dO", m))>> /\ b2 = <<Use("sV", Tile("V", n))>> OBVIOUS
<1>4. PICK d : d = <<Load(QSlot(next.q), Tile("Q", m - 1), "all"), Commit>> OBVIOUS
<1>5. Piece(TRUE, l, a1, {}) BY <1>2, OthersQuiet, PieceTwo
<1>6. Piece(TRUE, l, a2, {}) BY <1>2, OthersQuiet, PieceQuiet
<1>7. Piece(TRUE, l, a3, {}) BY <1>2, OthersQuiet, PieceTwo
<1>8. Piece(TRUE, l, b1, {}) BY <1>3, OthersQuiet, PieceQuiet
<1>9. Piece(TRUE, l, b2, {}) BY <1>3, OthersQuiet, PieceQuiet
<1>10. flip => Piece(TRUE, l, d, {})
  <2> SUFFICES ASSUME flip PROVE Piece(TRUE, l, d, {}) OBVIOUS
  <2>1. PICK name \in {"Q", "dO"} : name = "Q" OBVIOUS
  <2>2. PICK buf : buf = QSlot(next.q) OBVIOUS
  <2>3. Quiet(l, Load(buf, Tile(name, m - 1), "all")) BY <1>1, NextQueriesQuiet
  <2> QED BY <1>4, <2>1, <2>2, <2>3, OthersQuiet, PieceTwo
<1>11. Piece(TRUE, l, If(inRegs, b2), {}) BY <1>9, PieceIfQuiet
<1>12. Piece(TRUE, l, b1 \o If(inRegs, b2), {}) BY <1>8, <1>11, PieceJoinQuiet
<1>13. Piece(TRUE, l, If(live, a1), {}) BY <1>5, PieceIfQuiet
<1>14. Piece(TRUE, l, If(live, b1 \o If(inRegs, b2)), {}) BY <1>12, PieceIfQuiet
<1>15. Piece(TRUE, l, If(flip, d), {}) BY <1>10, PieceIfQuiet
<1>16. Piece(TRUE, l, If(live, a1) \o a2, {}) BY <1>6, <1>13, PieceJoinQuiet
<1>17. Piece(TRUE, l, (If(live, a1) \o a2) \o If(live, b1 \o If(inRegs, b2)), {})
  BY <1>14, <1>16, PieceJoinQuiet
<1>18. Piece(TRUE, l, ((If(live, a1) \o a2) \o If(live, b1 \o If(inRegs, b2))) \o If(flip, d), {})
  BY <1>15, <1>17, PieceJoinQuiet
<1>19. Piece(TRUE, l, (((If(live, a1) \o a2) \o If(live, b1 \o If(inRegs, b2))) \o If(flip, d)) \o a3, {})
  BY <1>7, <1>18, PieceJoinQuiet
<1>20. BackwardScores(l, n, m, ptr, next) =
         (((If(live, a1) \o a2) \o If(live, b1 \o If(inRegs, b2))) \o If(flip, d)) \o a3
  BY <1>1, <1>2, <1>3, <1>4 DEF BackwardScores
<1> QED BY <1>19, <1>20

\* dV.
LEMMA BackwardDVIs ==
  ASSUME NEW l, ValidLaunch(l), NEW n \in Nat, NEW m \in Nat, m < MBlockMax(l, n)
  PROVE  Piece(TRUE, l, BackwardDV(l, n, m), IF Skipped(l, m, n) THEN {} ELSE {ResultDV(m)})
<1>0. PICK live \in BOOLEAN : live = ~ Skipped(l, m, n) BY DEF Skipped
<1>1. PICK more \in BOOLEAN : more <=> m > MBlockMin(l, n) OBVIOUS
<1>2. PICK a1, a2, e : a1 = Use("sP", Tile("P", m)) /\ a2 = Use("sdO", Tile("dO", m)) /\ e = ResultDV(m)
  OBVIOUS
<1>3. PICK d : d = <<Load("sdO", Tile("dO", m - 1), "all"), Commit>> OBVIOUS
<1>4. PICK s : s = <<a1, a2, e>> OBVIOUS
<1>5. PICK E : E = IF live THEN {e} ELSE {} OBVIOUS
<1>6. Piece(TRUE, l, s, {e})
  <2>1. Quiet(l, a1) /\ Quiet(l, a2) BY <1>2, OthersQuiet
  <2>2. e.op = "emit" BY <1>2 DEF ResultDV, Emit
  <2> QED BY <1>4, <2>1, <2>2, PieceThreeEmit
<1>7. Piece(TRUE, l, If(live, s), E) BY <1>5, <1>6, PieceIf
<1>8. more => Piece(TRUE, l, d, {})
  <2> SUFFICES ASSUME more PROVE Piece(TRUE, l, d, {}) OBVIOUS
  <2>1. PICK name \in {"Q", "dO"} : name = "dO" OBVIOUS
  <2>2. PICK buf : buf = "sdO" OBVIOUS
  <2>3. Quiet(l, Load(buf, Tile(name, m - 1), "all")) BY <1>1, NextQueriesQuiet
  <2> QED BY <1>3, <2>1, <2>2, <2>3, OthersQuiet, PieceTwo
<1>9. Piece(TRUE, l, If(more, d), {}) BY <1>8, PieceIfQuiet
<1>10. Piece(TRUE, l, <<Sync>>, {}) BY OthersQuiet, PieceQuiet
<1>11. Piece(TRUE, l, If(live, s) \o <<Sync>>, E) BY <1>7, <1>10, PieceJoinQuiet
<1>12. Piece(TRUE, l, (If(live, s) \o <<Sync>>) \o If(more, d), E) BY <1>9, <1>11, PieceJoinQuiet
<1>13. BackwardDV(l, n, m) = (If(live, s) \o <<Sync>>) \o If(more, d)
  BY <1>0, <1>1, <1>2, <1>3, <1>4 DEF BackwardDV, ResultDV, If
<1>14. E = IF Skipped(l, m, n) THEN {} ELSE {ResultDV(m)} BY <1>0, <1>2, <1>5
<1> QED BY <1>12, <1>13, <1>14, Zenon

\* dQ, each at its own rows, and dK.
LEMMA BackwardDQDKIs ==
  ASSUME NEW l, ValidLaunch(l), NEW n \in Nat, NEW m \in Nat, m < MBlockMax(l, n), NEW ptr, NEW next,
         next.dq = m, ptr.stats = m
  PROVE  Piece(TRUE, l, BackwardDQDK(l, n, m, ptr, next),
               {ResultDQ(l, n, m)} \cup IF Skipped(l, m, n) THEN {} ELSE {ResultDK(m)})
<1>0. PICK live \in BOOLEAN : live = ~ Skipped(l, m, n) BY DEF Skipped
<1>1. PICK more \in BOOLEAN : more = (~ DoubleBuffer(l) /\ m > MBlockMin(l, n)) BY DEF DoubleBuffer
<1>2. PICK a1, a2, e : a1 = Use("sdS", Tile("dS", m)) /\ a2 = Use("sK", Tile("K", n))
                       /\ e = ResultDQ(l, n, m)
  OBVIOUS
<1>3. PICK b1, b2, f : b1 = Use("sdS", Tile("dS", m)) /\ b2 = Use(QSlot(ptr.qt), Tile("Q", m))
                       /\ f = ResultDK(m)
  OBVIOUS
<1>4. PICK d : d = <<Sync, Load("sQ", Tile("Q", m - 1), "all"), Commit>> OBVIOUS
<1>5. PICK s, t : s = <<a1, a2>> /\ t = <<b1, b2, f>> OBVIOUS
<1>6. PICK F : F = IF live THEN {f} ELSE {} OBVIOUS
<1>7. Piece(TRUE, l, If(live, s), {})
  <2>1. Quiet(l, a1) /\ Quiet(l, a2) BY <1>2, OthersQuiet
  <2>2. Piece(TRUE, l, s, {}) BY <1>5, <2>1, PieceTwo
  <2> QED BY <2>2, PieceIfQuiet
<1>8. Piece(TRUE, l, <<e>>, {e})
  <2>1. e.op = "emit" BY <1>2 DEF ResultDQ, Emit
  <2>2. Piece(TRUE, l, <<e>>, IF e.op = "emit" THEN {e} ELSE {}) BY <2>1, PieceOne
  <2>3. (IF e.op = "emit" THEN {e} ELSE {}) = {e} BY <2>1
  <2> QED BY <2>2, <2>3, Zenon
<1>9. Piece(TRUE, l, If(live, t), F)
  <2>1. Quiet(l, b1) /\ Quiet(l, b2) BY <1>3, OthersQuiet
  <2>2. f.op = "emit" BY <1>3 DEF ResultDK, Emit
  <2>3. Piece(TRUE, l, t, {f}) BY <1>5, <2>1, <2>2, PieceThreeEmit
  <2> QED BY <1>6, <2>3, PieceIf
<1>10. more => Piece(TRUE, l, d, {})
  <2> SUFFICES ASSUME more PROVE Piece(TRUE, l, d, {}) OBVIOUS
  <2>1. PICK name \in {"Q", "dO"} : name = "Q" OBVIOUS
  <2>2. PICK buf : buf = "sQ" OBVIOUS
  <2>3. Quiet(l, Load(buf, Tile(name, m - 1), "all")) BY <1>1, NextQueriesQuiet
  <2> QED BY <1>4, <2>1, <2>2, <2>3, OthersQuiet, PieceThree
<1>11. Piece(TRUE, l, If(more, d), {}) BY <1>10, PieceIfQuiet
<1>12. Piece(TRUE, l, If(live, s) \o <<e>>, {e}) BY <1>7, <1>8, PieceJoinQuiet
<1>13. \A u \in {e}, v \in F : Follows(TRUE, u, v)
  <2> SUFFICES ASSUME live PROVE Follows(TRUE, e, f) BY <1>6
  <2>1. e.what.out = "dQ" /\ f.what.out = "dK" BY <1>2, <1>3 DEF ResultDQ, ResultDK, Emit
  <2> QED BY <2>1 DEF Follows
<1>14. Piece(TRUE, l, (If(live, s) \o <<e>>) \o If(live, t), {e} \cup F)
  BY <1>9, <1>12, <1>13, PieceJoin
<1>15. Piece(TRUE, l, ((If(live, s) \o <<e>>) \o If(live, t)) \o If(more, d), {e} \cup F)
  BY <1>11, <1>14, PieceJoinQuiet
<1>16. e = Emit([out |-> "dQ", tile |-> m, at |-> next.dq, stats |-> ptr.stats, zero |-> ~ live])
  <2>1. Skipped(l, m, n) = ~ live BY <1>0 DEF Skipped
  <2> QED BY <1>2, <2>1 DEF ResultDQ
<1>17. BackwardDQDK(l, n, m, ptr, next) = ((If(live, s) \o <<e>>) \o If(live, t)) \o If(more, d)
  BY <1>0, <1>1, <1>2, <1>3, <1>4, <1>5, <1>16 DEF BackwardDQDK, ResultDK
<1>18. {e} \cup F = {ResultDQ(l, n, m)} \cup IF Skipped(l, m, n) THEN {} ELSE {ResultDK(m)}
  BY <1>0, <1>2, <1>3, <1>6
<1> QED BY <1>15, <1>17, <1>18, Zenon

\* An iteration keeps the bounds of its loads and computes its three gradients,
\* or dQ alone.
LEMMA BackwardStepIs ==
  ASSUME NEW l, ValidLaunch(l), NEW n \in Nat, NEW m \in Nat, m < MBlockMax(l, n), NEW ptr,
         ptr.dq = m + 1, ptr.stats = m
  PROVE  Piece(TRUE, l, BackwardStep(l, n, m, ptr), BackwardResults(l, n, m))
<1>1. PICK next : next = Advanced(l, n, m, ptr) OBVIOUS
<1>2. next.dq = m
  <2>1. next.dq = ptr.dq - 1 BY <1>1 DEF Advanced
  <2> QED BY <2>1
<1>3. PICK s1, s2, s3, s4 :
        /\ s1 = TopOfLoop(l)
        /\ s2 = BackwardScores(l, n, m, ptr, next)
        /\ s3 = BackwardDV(l, n, m)
        /\ s4 = BackwardDQDK(l, n, m, ptr, next)
  OBVIOUS
<1>4. PICK E, F :
        /\ E = IF Skipped(l, m, n) THEN {} ELSE {ResultDV(m)}
        /\ F = {ResultDQ(l, n, m)} \cup IF Skipped(l, m, n) THEN {} ELSE {ResultDK(m)}
  OBVIOUS
<1>5. Piece(TRUE, l, s1, {}) BY <1>3, OthersQuiet, PieceTwo DEF TopOfLoop
<1>6. Piece(TRUE, l, s2, {}) BY <1>3, BackwardScoresQuiet
<1>7. Piece(TRUE, l, s3, E) BY <1>3, <1>4, BackwardDVIs
<1>8. Piece(TRUE, l, s4, F) BY <1>2, <1>3, <1>4, BackwardDQDKIs
<1>9. Piece(TRUE, l, s1 \o s2, {}) BY <1>5, <1>6, PieceJoinQuiet
<1>10. Piece(TRUE, l, (s1 \o s2) \o s3, E) BY <1>7, <1>9, PieceJoinQuiet
<1>11. \A u \in E, v \in F : Follows(TRUE, u, v)
  <2> SUFFICES ASSUME NEW u \in E, NEW v \in F PROVE Follows(TRUE, u, v) OBVIOUS
  <2>1. u = ResultDV(m) /\ (v = ResultDQ(l, n, m) \/ v = ResultDK(m)) BY <1>4
  <2>2. u.what.out = "dV" BY <2>1 DEF ResultDV, Emit
  <2>3. v.what.out = "dQ" \/ v.what.out = "dK" BY <2>1 DEF ResultDQ, ResultDK, Emit
  <2> QED BY <2>2, <2>3 DEF Follows
<1>12. Piece(TRUE, l, ((s1 \o s2) \o s3) \o s4, E \cup F) BY <1>8, <1>10, <1>11, PieceJoin
<1>13. BackwardStep(l, n, m, ptr) = ((s1 \o s2) \o s3) \o s4 BY <1>1, <1>3 DEF BackwardStep
<1>14. E \cup F = BackwardResults(l, n, m) BY <1>4 DEF BackwardResults
<1> QED BY <1>12, <1>13, <1>14, Zenon

\* The loads before the loop clear what lies beyond the lengths.
LEMMA BackwardPrologueIs ==
  ASSUME NEW l, ValidLaunch(l), NEW n \in Nat, n * l.N < l.sk, NEW m \in Nat, m < MBlockMax(l, n),
         NEW slot
  PROVE  Piece(TRUE, l, BackwardPrologue(l, n, m, slot), {})
<1>1. PICK inRegs \in BOOLEAN : inRegs <=> VInRegs(l) OBVIOUS
<1>2. PICK edge : edge = EdgeCleared(l) /\ edge = IF l.even THEN "all" ELSE "clear"
  BY DEF EdgeCleared
<1>3. ValidShape(l) BY LaunchIs
<1>4. (m + 1) * l.M <= l.sq \/ edge = "clear" BY <1>2, <1>3, QueriesWhole
<1>5. (n + 1) * l.N <= l.sk \/ edge = "clear"
  <2>1. CASE l.even
    <3>1. PICK N \in Nat \ {0}, sk \in Nat : N = l.N /\ sk = l.sk BY <1>3, ShapeIs
    <3>2. PICK q \in Nat : q = N * n /\ q = n * N /\ (n + 1) * N = q + N OBVIOUS
    <3>3. q < sk BY <3>1, <3>2
    <3>4. sk % N = 0 BY <1>3, <2>1, <3>1, ShapeIs
    <3>5. q + N <= sk BY <3>2, <3>3, <3>4, WholeTile
    <3> QED BY <3>1, <3>2, <3>5
  <2>2. CASE ~ l.even BY <1>2, <2>2
  <2> QED BY <2>1, <2>2
<1>6. ASSUME NEW buf, NEW name \in {"K", "V"} PROVE Quiet(l, Load(buf, Tile(name, n), edge))
  BY <1>5, KeyLoad
<1>7. ASSUME NEW buf, NEW name \in {"Q", "dO"} PROVE Quiet(l, Load(buf, Tile(name, m), edge))
  BY <1>4, QueryLoad
<1>8. PICK v, d, q, k :
        /\ v = Load("sV", Tile("V", n), edge) /\ d = Load("sdO", Tile("dO", m), edge)
        /\ q = Load(QSlot(slot), Tile("Q", m), edge) /\ k = Load("sK", Tile("K", n), edge)
  OBVIOUS
<1>9. Quiet(l, v) /\ Quiet(l, d) /\ Quiet(l, q) /\ Quiet(l, k)
  <2>1. PICK nv \in {"K", "V"}, nk \in {"K", "V"} : nv = "V" /\ nk = "K" OBVIOUS
  <2>2. PICK nq \in {"Q", "dO"}, nd \in {"Q", "dO"} : nq = "Q" /\ nd = "dO" OBVIOUS
  <2>3. Quiet(l, v) BY <1>6, <1>8, <2>1
  <2>4. Quiet(l, d) BY <1>7, <1>8, <2>2
  <2>5. Quiet(l, q) BY <1>7, <1>8, <2>2
  <2>6. Quiet(l, k) BY <1>6, <1>8, <2>1
  <2> QED BY <2>3, <2>4, <2>5, <2>6
<1>10. PICK s1, s2, s3, s5 :
         /\ s1 = <<v, Commit>> /\ s2 = <<d, q, k>> /\ s3 = <<v>>
         /\ s5 = <<Wait(1), Sync, Use("sV", Tile("V", n))>>
  OBVIOUS
<1>11. Piece(TRUE, l, s1, {}) BY <1>9, <1>10, OthersQuiet, PieceTwo
<1>12. Piece(TRUE, l, s2, {}) BY <1>9, <1>10, PieceThree
<1>13. Piece(TRUE, l, s3, {}) BY <1>9, <1>10, PieceQuiet
<1>14. Piece(TRUE, l, <<Commit>>, {}) BY OthersQuiet, PieceQuiet
<1>15. Piece(TRUE, l, s5, {}) BY <1>10, OthersQuiet, PieceThree
<1>16. PICK outside \in BOOLEAN : outside = ~ inRegs OBVIOUS
<1>17. /\ Piece(TRUE, l, If(inRegs, s1), {}) /\ Piece(TRUE, l, If(outside, s3), {})
       /\ Piece(TRUE, l, If(inRegs, s5), {})
  BY <1>11, <1>13, <1>15, PieceIfQuiet
<1>18. Piece(TRUE, l, If(inRegs, s1) \o s2, {}) BY <1>12, <1>17, PieceJoinQuiet
<1>19. Piece(TRUE, l, (If(inRegs, s1) \o s2) \o If(outside, s3), {}) BY <1>17, <1>18, PieceJoinQuiet
<1>20. Piece(TRUE, l, ((If(inRegs, s1) \o s2) \o If(outside, s3)) \o <<Commit>>, {})
  BY <1>14, <1>19, PieceJoinQuiet
<1>21. Piece(TRUE, l, (((If(inRegs, s1) \o s2) \o If(outside, s3)) \o <<Commit>>) \o If(inRegs, s5), {})
  BY <1>17, <1>20, PieceJoinQuiet
<1>22. BackwardPrologue(l, n, m, slot) =
         (((If(inRegs, s1) \o s2) \o If(outside, s3)) \o <<Commit>>) \o If(inRegs, s5)
  BY <1>1, <1>2, <1>8, <1>10, <1>16 DEF BackwardPrologue, If
<1> QED BY <1>21, <1>22

\* dK and dV are staged and copied.
LEMMA BackwardEpilogueIs ==
  ASSUME NEW l, NEW n
  PROVE  Piece(TRUE, l, BackwardEpilogue(n), {})
BY OthersQuiet, PieceSix DEF BackwardEpilogue

\* What a CTA of the backward computes.
BackwardComputed(l) ==
  UNION {BackwardResults(l, l.block, m) : m \in MBlockMin(l, l.block) .. MBlockMax(l, l.block) - 1}

\* The loop.
LEMMA BackwardLoopIs ==
  ASSUME NEW l, ValidLaunch(l), NEW first \in Nat, first = MBlockMax(l, l.block) - 1,
         MBlockMin(l, l.block) <= first
  PROVE  Piece(TRUE, l,
               FlattenSeq([i \in 1 .. first - MBlockMin(l, l.block) + 1 |->
                             BackwardStep(l, l.block, first - (i - 1), PointersFrom(l, l.block, first)[i - 1])]),
               BackwardComputed(l))
<1>1. PICK n \in Nat : n = l.block BY LaunchIs
<1>2. PICK lo \in Nat : lo = MBlockMin(l, n) /\ lo <= first BY <1>1, LaunchIs, BackwardBlocks
<1>3. MBlockMax(l, n) \in Int /\ first = MBlockMax(l, n) - 1
  <2>1. MBlockMax(l, n) \in Int BY <1>2, LaunchIs, BackwardBlocks
  <2> QED BY <1>1, <2>1
<1>4. PICK k \in Nat : k = first - lo + 1
  <2>1. first - lo + 1 \in Nat BY <1>2
  <2> QED BY <2>1
<1>5. PICK ptr : ptr = PointersFrom(l, n, first) OBVIOUS
<1>6. PICK segs : segs = [i \in 1 .. k |-> BackwardStep(l, n, first - (i - 1), ptr[i - 1])] OBVIOUS
<1>7. PICK ES : ES = [i \in 1 .. k |-> BackwardResults(l, n, first - (i - 1))] OBVIOUS
<1>8. DOMAIN segs = 1 .. k /\ segs = [i \in 1 .. k |-> segs[i]] BY <1>6
<1>9. ASSUME NEW i \in 1 .. k PROVE Piece(TRUE, l, segs[i], ES[i])
  <2>1. PICK j \in 0 .. first - MBlockMin(l, n) : j = i - 1
    <3>1. i - 1 \in 0 .. first - lo BY <1>2, <1>4
    <3> QED BY <1>2, <3>1
  <2>2. PICK m \in Nat : m = first - j /\ m < MBlockMax(l, n)
    <3>1. first - j \in Nat /\ first - j < MBlockMax(l, n) BY <1>2, <1>3, <2>1
    <3> QED BY <3>1
  <2>3. PICK p : p = ptr[j] OBVIOUS
  <2>4. p.dq = m + 1 /\ p.stats = m
    <3>1. PointersFrom(l, n, first)[j].dq = first - j + 1 /\ PointersFrom(l, n, first)[j].stats = first - j
      BY PointersFollow
    <3> QED BY <1>5, <2>2, <2>3, <3>1
  <2>5. Piece(TRUE, l, BackwardStep(l, n, m, p), BackwardResults(l, n, m))
    BY <2>2, <2>4, BackwardStepIs
  <2>6. segs[i] = BackwardStep(l, n, m, p) /\ ES[i] = BackwardResults(l, n, m)
    BY <1>6, <1>7, <2>1, <2>2, <2>3
  <2> QED BY <2>5, <2>6, Zenon
<1>10. ASSUME NEW i \in 1 .. k, NEW j \in 1 .. k, i < j, NEW u \in ES[i], NEW v \in ES[j]
       PROVE  Follows(TRUE, u, v)
  <2>1. \A x \in 1 .. k : \A y \in ES[x] : y.what.tile = first - (x - 1)
    BY <1>7 DEF BackwardResults, ResultDQ, ResultDK, ResultDV, Emit
  <2>2. u.what.tile = first - (i - 1) /\ v.what.tile = first - (j - 1) BY <1>10, <2>1
  <2> QED BY <1>10, <2>2 DEF Follows
<1>11. Piece(TRUE, l, FlattenSeq(segs), AllOf(ES, k))
  <2>1. \A i \in 1 .. k : Piece(TRUE, l, segs[i], ES[i]) BY <1>9
  <2>2. \A i, j \in 1 .. k : i < j => \A u \in ES[i], v \in ES[j] : Follows(TRUE, u, v) BY <1>10
  <2> QED BY <1>8, <2>1, <2>2, PieceFlatten
<1>12. AllOf(ES, k) = BackwardComputed(l)
  <2>1. ASSUME NEW u PROVE u \in AllOf(ES, k) <=> u \in BackwardComputed(l)
    <3>1. u \in AllOf(ES, k) <=> \E i \in 1 .. k : u \in BackwardResults(l, n, first - (i - 1))
      BY <1>7 DEF AllOf
    <3>2. u \in BackwardComputed(l) <=> \E m \in lo .. first : u \in BackwardResults(l, n, m)
      BY <1>1, <1>2, <1>3 DEF BackwardComputed
    <3>3. ASSUME NEW i \in 1 .. k, u \in BackwardResults(l, n, first - (i - 1))
          PROVE  \E m \in lo .. first : u \in BackwardResults(l, n, m)
      <4>1. first - (i - 1) \in lo .. first BY <1>2, <1>4
      <4> QED BY <3>3, <4>1
    <3>4. ASSUME NEW m \in lo .. first, u \in BackwardResults(l, n, m)
          PROVE  \E i \in 1 .. k : u \in BackwardResults(l, n, first - (i - 1))
      <4>1. first - m + 1 \in 1 .. k /\ first - ((first - m + 1) - 1) = m BY <1>2, <1>4
      <4> QED BY <3>4, <4>1
    <3> QED BY <3>1, <3>2, <3>3, <3>4
  <2> QED BY <2>1
<1>13. segs = [i \in 1 .. first - MBlockMin(l, l.block) + 1 |->
                 BackwardStep(l, l.block, first - (i - 1), PointersFrom(l, l.block, first)[i - 1])]
  BY <1>1, <1>2, <1>4, <1>5, <1>6
<1> QED BY <1>11, <1>12, <1>13, Zenon

\* A CTA without a column, or without a block of queries, returns; the others
\* compute the gradients of the blocks they visit.
LEMMA BackwardCodeIs ==
  ASSUME NEW l, ValidLaunch(l), NEW w
  PROVE  IF l.block * l.N < l.sk /\ MBlockMin(l, l.block) < MBlockMax(l, l.block)
         THEN Piece(TRUE, l, BackwardCode(l, w), BackwardComputed(l))
         ELSE BackwardCode(l, w) = <<>>
<1>1. PICK n \in Nat, N \in Nat \ {0}, M \in Nat \ {0}, sq \in Nat \ {0}, sk \in Nat \ {0} :
        n = l.block /\ N = l.N /\ M = l.M /\ sq = l.sq /\ sk = l.sk
  BY LaunchIs, ShapeIs
<1>2. ValidShape(l) BY LaunchIs
<1>3. PICK lo \in Nat, hi \in Int : lo = MBlockMin(l, n) /\ hi = MBlockMax(l, n)
  <2>1. PICK z \in Nat : z = 0 OBVIOUS
  <2> QED BY <1>2, <2>1, BackwardBlocks
<1>4. CASE ~ (l.block * l.N < l.sk)
  <2>1. l.block * l.N >= l.sk BY <1>1, <1>4
  <2> QED BY <1>4, <2>1 DEF BackwardCode
<1>5. CASE l.block * l.N < l.sk /\ ~ (lo < hi)
  <2>1. hi - 1 < lo BY <1>3, <1>5
  <2>2. l.mode = "local"
    <3> SUFFICES ASSUME l.mode # "local" PROVE FALSE OBVIOUS
    <3>1. PICK z \in Nat : z = 0 OBVIOUS
    <3>2. 0 < hi
      <4>1. M * z < sq BY <3>1
      <4>2. z < MBlockMax(l, n) BY <1>1, <1>2, <4>1, BackwardBlocks
      <4> QED BY <1>3, <3>1, <4>2
    <3>3. PICK top \in Nat : hi = top + 1
      <4>1. hi - 1 \in Nat /\ hi = (hi - 1) + 1 BY <1>3, <3>2
      <4> QED BY <4>1
    <3>4. M * hi >= sq
      <4>1. hi \in Nat BY <3>3
      <4>2. ~ (hi < MBlockMax(l, n)) BY <1>3
      <4>3. ~ (l.M * hi < l.sq) BY <1>2, <4>1, <4>2, BackwardBlocks
      <4>4. M * hi \in Nat BY <4>1
      <4> QED BY <1>1, <4>3, <4>4
    <3>5. M * hi = M * top + M BY <3>3
    <3>6. N * n < sk
      <4>1. N * n = n * N OBVIOUS
      <4> QED BY <1>1, <1>5, <4>1
    <3>7. N * n + sq - sk - l.right < M * top + M
      <4>1. l.right = 0 BY <1>2, ShapeIs
      <4>2. N * n \in Nat /\ M * top \in Nat OBVIOUS
      <4> QED BY <3>4, <3>5, <3>6, <4>1, <4>2
    <3>8. MBlockMin(l, n) <= top BY <1>1, <1>2, <3>7, BackwardBlocks
    <3> QED BY <1>3, <1>5, <3>3, <3>8
  <2>3. BackwardCode(l, w) = <<>> BY <1>1, <1>3, <2>1, <2>2 DEF BackwardCode
  <2> QED BY <1>1, <1>3, <1>5, <2>3
<1>6. CASE l.block * l.N < l.sk /\ lo < hi
  <2>1. PICK first \in Nat : first = hi - 1
    <3>1. hi - 1 \in Nat BY <1>3, <1>6
    <3> QED BY <3>1
  <2>2. first = MBlockMax(l, l.block) - 1 /\ MBlockMin(l, l.block) <= first /\ first < MBlockMax(l, n)
    BY <1>1, <1>3, <1>6, <2>1
  <2>3. PICK ptr : ptr = PointersFrom(l, n, first) OBVIOUS
  <2>4. PICK s1, s2, s3 :
          /\ s1 = BackwardPrologue(l, n, first, ptr[0].q)
          /\ s2 = FlattenSeq([i \in 1 .. first - MBlockMin(l, n) + 1 |->
                                BackwardStep(l, n, first - (i - 1), ptr[i - 1])])
          /\ s3 = BackwardEpilogue(n)
    OBVIOUS
  <2>5. Piece(TRUE, l, s1, {}) BY <1>1, <1>6, <2>2, <2>4, BackwardPrologueIs
  <2>6. Piece(TRUE, l, s2, BackwardComputed(l)) BY <1>1, <2>2, <2>3, <2>4, BackwardLoopIs
  <2>7. Piece(TRUE, l, s3, {}) BY <2>4, BackwardEpilogueIs
  <2>8. Piece(TRUE, l, s1 \o s2, BackwardComputed(l)) BY <2>5, <2>6, PieceJoinQuiet
  <2>9. Piece(TRUE, l, (s1 \o s2) \o s3, BackwardComputed(l)) BY <2>7, <2>8, PieceJoinQuiet
  <2>10. ~ (n * l.N >= l.sk) /\ ~ (first < MBlockMin(l, n)) BY <1>1, <1>3, <1>6, <2>1
  <2>11. BackwardCode(l, w) = (s1 \o s2) \o s3
    BY <1>1, <2>2, <2>3, <2>4, <2>10 DEF BackwardCode
  <2> QED BY <1>1, <1>3, <1>6, <2>9, <2>11
<1> QED BY <1>4, <1>5, <1>6

-----------------------------------------------------------------------------
(* What a warp has computed, at any point of its code.                      *)

\* The instructions that compute, of the code of a launch.
Computations(l) ==
  IF l.kernel = "bwd"
  THEN IF l.block * l.N < l.sk /\ MBlockMin(l, l.block) < MBlockMax(l, l.block)
       THEN BackwardComputed(l) ELSE {}
  ELSE IF l.block * l.M < l.sq /\ FwdMin(l) < FwdMax(l)
       THEN MaskedResults(l) \cup LaterResults(l) ELSE {}

\* Of two results the later has the smaller tile, or in the backward another gradient.
Precedes(l, a, b) == (l.kernel = "bwd" /\ a.out # b.out) \/ b.tile < a.tile

\* The code s of a launch: its loads keep their bounds, and it computes what the
\* launch is to compute, in order.
Program(l, s) ==
  /\ s \in Seq(Range(s))
  /\ \A x, y \in DOMAIN s :
       x < y /\ s[x].op = "emit" /\ s[y].op = "emit" => Precedes(l, s[x].what, s[y].what)
  /\ \A ins \in Range(s) : ins.op = "load" => InBounds(l, ins)
  /\ Computations(l) = {ins \in Range(s) : ins.op = "emit"}

\* The kernels are such code.
LEMMA CodeIsProgram ==
  ASSUME NEW l \in Launches, NEW w \in Warps
  PROVE  Program(l, Code(l, w))
<1>1. ValidLaunch(l) /\ Code(l, w) = KernelCode(l, w) BY LaunchesAreValid, KernelsRun
<1>2. PICK s : s = KernelCode(l, w) OBVIOUS
<1>3. CASE l.kernel = "bwd"
  <2>1. Piece(TRUE, l, s, Computations(l))
    <3>1. s = BackwardCode(l, w) BY <1>2, <1>3 DEF KernelCode
    <3>2. CASE l.block * l.N < l.sk /\ MBlockMin(l, l.block) < MBlockMax(l, l.block)
      <4>1. Piece(TRUE, l, s, BackwardComputed(l)) BY <1>1, <3>1, <3>2, BackwardCodeIs
      <4>2. Computations(l) = BackwardComputed(l) BY <1>3, <3>2 DEF Computations
      <4> QED BY <4>1, <4>2, Zenon
    <3>3. CASE ~ (l.block * l.N < l.sk /\ MBlockMin(l, l.block) < MBlockMax(l, l.block))
      <4>1. s = <<>> BY <1>1, <3>1, <3>3, BackwardCodeIs
      <4>2. Computations(l) = {} BY <1>3, <3>3 DEF Computations
      <4>3. Piece(TRUE, l, <<>>, {}) BY PieceNone
      <4> QED BY <4>1, <4>2, <4>3, Zenon
    <3> QED BY <3>2, <3>3
  <2>2. ASSUME NEW u, NEW v, Follows(TRUE, u, v) PROVE Precedes(l, u.what, v.what)
    BY <1>3, <2>2 DEF Follows, Precedes
  <2> QED BY <1>1, <1>2, <2>1, <2>2 DEF Piece, Program
<1>4. CASE l.kernel # "bwd"
  <2>1. Piece(FALSE, l, s, Computations(l))
    <3>1. s = ForwardCode(l, w) BY <1>2, <1>4 DEF KernelCode
    <3>2. CASE l.block * l.M < l.sq /\ FwdMin(l) < FwdMax(l)
      <4>1. Piece(FALSE, l, s, MaskedResults(l) \cup LaterResults(l))
        BY <1>1, <1>4, <3>1, <3>2, ForwardCodeIs
      <4>2. Computations(l) = MaskedResults(l) \cup LaterResults(l) BY <1>4, <3>2 DEF Computations
      <4> QED BY <4>1, <4>2, Zenon
    <3>3. CASE ~ (l.block * l.M < l.sq /\ FwdMin(l) < FwdMax(l))
      <4>1. s = <<>> BY <1>1, <1>4, <3>1, <3>3, ForwardCodeIs
      <4>2. Computations(l) = {} BY <1>4, <3>3 DEF Computations
      <4>3. Piece(FALSE, l, <<>>, {}) BY PieceNone
      <4> QED BY <4>1, <4>2, <4>3, Zenon
    <3> QED BY <3>2, <3>3
  <2>2. ASSUME NEW u, NEW v, Follows(FALSE, u, v) PROVE Precedes(l, u.what, v.what)
    BY <2>2 DEF Follows, Precedes
  <2> QED BY <1>1, <1>2, <2>1, <2>2 DEF Piece, Program
<1> QED BY <1>3, <1>4

\* What the first k instructions of s have computed: all their results, in order.
Outcome(l, s, k, e) ==
  /\ e \in Seq(Range(e))
  /\ \A v : v \in Range(e) <=> \E x \in 1 .. k : s[x].op = "emit" /\ v = s[x].what
  /\ \A i, j \in DOMAIN e : i < j => Precedes(l, e[i], e[j])

\* At first, nothing.
LEMMA OutcomeNone ==
  ASSUME NEW l, NEW s
  PROVE  Outcome(l, s, 0, <<>>)
<1>1. Range(<<>>) = {} /\ DOMAIN <<>> = {} BY DEF Range
<1>2. <<>> \in Seq({}) OBVIOUS
<1> QED BY <1>1, <1>2 DEF Outcome

\* An instruction that computes nothing adds nothing.
LEMMA OutcomeSame ==
  ASSUME NEW l, NEW s, NEW k \in Nat, NEW e, Outcome(l, s, k, e), s[k + 1].op # "emit"
  PROVE  Outcome(l, s, k + 1, e)
<1>1. \A x : x \in 1 .. k + 1 <=> x \in 1 .. k \/ x = k + 1 OBVIOUS
<1>2. PICK k1 \in Nat : k1 = k + 1 OBVIOUS
<1>3. s[k1].op # "emit" BY <1>2
<1>4. \A x : x \in 1 .. k1 <=> x \in 1 .. k \/ x = k1 BY <1>1, <1>2
<1>5. Outcome(l, s, k1, e) BY <1>3, <1>4, Zenon DEF Outcome
<1> QED BY <1>2, <1>5, Zenon

\* One that computes adds its result, which comes after all others.
LEMMA OutcomeMore ==
  ASSUME NEW l, NEW s, Program(l, s), NEW k \in Nat, k < Len(s), NEW e, Outcome(l, s, k, e),
         s[k + 1].op = "emit"
  PROVE  Outcome(l, s, k + 1, Append(e, s[k + 1].what))
<1>1. PICK a, f : a = s[k + 1].what /\ f = Append(e, a) OBVIOUS
<1>2. PICK R : R = Range(e) /\ e \in Seq(R) BY DEF Outcome
<1>3. PICK d \in Nat : d = Len(e) /\ e \in [1 .. d -> R] BY <1>2, LenProperties
<1>4. /\ DOMAIN f = 1 .. d + 1 /\ \A i \in 1 .. d : f[i] = e[i]
      /\ f[d + 1] = a
  <2>1. e \in Seq(R \cup {a}) BY <1>2
  <2> QED BY <1>1, <1>3, <2>1, AppendProperties
<1>5. f \in Seq(Range(f))
  <2>1. f \in Seq(R \cup {a}) BY <1>1, <1>2
  <2>2. f \in [1 .. d + 1 -> Range(f)]
    <3>1. f = [i \in DOMAIN f |-> f[i]] BY <2>1, LenProperties
    <3> QED BY <1>4, <3>1 DEF Range
  <2> QED BY <2>2
<1>6. \A v : v \in Range(f) <=> v \in R \/ v = a
  <2>1. ASSUME NEW v, v \in Range(f) PROVE v \in R \/ v = a
    <3>1. PICK i \in 1 .. d + 1 : v = f[i] BY <1>4, <2>1 DEF Range
    <3>2. i \in 1 .. d \/ i = d + 1 BY <3>1
    <3> QED BY <1>3, <1>4, <3>1, <3>2
  <2>2. ASSUME NEW v, v \in R PROVE v \in Range(f)
    <3>1. PICK i \in 1 .. d : v = e[i] BY <1>2, <1>3, <2>2 DEF Range
    <3>2. i \in 1 .. d + 1 /\ v = f[i] BY <1>4, <3>1
    <3> QED BY <1>4, <3>2 DEF Range
  <2>3. a \in Range(f)
    <3>1. d + 1 \in 1 .. d + 1 OBVIOUS
    <3> QED BY <1>4, <3>1 DEF Range
  <2> QED BY <2>1, <2>2, <2>3
<1>7. DOMAIN s = 1 .. Len(s) /\ Len(s) \in Nat
  <2>1. PICK S : s \in Seq(S) BY DEF Program
  <2> QED BY <2>1, LenProperties
<1>8. \A v : v \in Range(f) <=> \E x \in 1 .. k + 1 : s[x].op = "emit" /\ v = s[x].what
  <2>1. \A x : x \in 1 .. k + 1 <=> x \in 1 .. k \/ x = k + 1 OBVIOUS
  <2>2. PICK k1 : k1 = k + 1 OBVIOUS
  <2>3. \A x : x \in 1 .. k1 <=> x \in 1 .. k \/ x = k1 BY <2>1, <2>2
  <2>4. \A v : v \in R <=> \E x \in 1 .. k : s[x].op = "emit" /\ v = s[x].what BY <1>2 DEF Outcome
  <2>5. s[k1].op = "emit" /\ a = s[k1].what BY <1>1, <2>2
  <2>6. \A v : v \in Range(f) <=> \E x \in 1 .. k1 : s[x].op = "emit" /\ v = s[x].what
    BY <1>6, <2>3, <2>4, <2>5, Zenon
  <2> QED BY <2>2, <2>6, Zenon
<1>9. ASSUME NEW v \in R PROVE Precedes(l, v, a)
  <2>1. PICK x \in 1 .. k : s[x].op = "emit" /\ v = s[x].what BY <1>2, <1>9 DEF Outcome
  <2>2. x \in DOMAIN s /\ k + 1 \in DOMAIN s /\ x < k + 1 BY <1>7, <2>1
  <2>3. Precedes(l, s[x].what, s[k + 1].what) BY <2>1, <2>2 DEF Program
  <2> QED BY <1>1, <2>1, <2>3
<1>10. ASSUME NEW i \in DOMAIN f, NEW j \in DOMAIN f, i < j PROVE Precedes(l, f[i], f[j])
  <2>1. i \in 1 .. d BY <1>4, <1>10
  <2>2. f[i] = e[i] /\ e[i] \in R BY <1>3, <1>4, <2>1
  <2>3. CASE j \in 1 .. d
    <3>1. f[j] = e[j] /\ i \in DOMAIN e /\ j \in DOMAIN e BY <1>3, <1>4, <2>1, <2>3
    <3>2. Precedes(l, e[i], e[j]) BY <1>10, <3>1 DEF Outcome
    <3> QED BY <2>2, <3>1, <3>2
  <2>4. CASE j = d + 1 BY <1>4, <1>9, <2>2, <2>4
  <2>5. j \in 1 .. d \/ j = d + 1 BY <1>4
  <2> QED BY <2>3, <2>4, <2>5
<1>11. Outcome(l, s, k + 1, f) BY <1>5, <1>8, <1>10, Zenon DEF Outcome
<1> QED BY <1>1, <1>11, Zenon

-----------------------------------------------------------------------------
(* The machine.                                                             *)

\* Each warp has run its code up to pc, and has computed what that part computes.
WarpInv(w) ==
  /\ pc[w] \in 1 .. Len(code[w]) + 1
  /\ Outcome(launch, code[w], pc[w] - 1, emitted[w])

KernelInv ==
  /\ launch \in Launches
  /\ code = [w \in Warps |-> Code(launch, w)]
  /\ DOMAIN pc = Warps /\ DOMAIN emitted = Warps
  /\ \A w \in Warps : WarpInv(w)

\* The machine starts there.
LEMMA InitKernel == Init => KernelInv
<1> SUFFICES ASSUME Init PROVE KernelInv OBVIOUS
<1>1. launch \in Launches /\ code = [w \in Warps |-> Code(launch, w)] BY DEF Init
<1>2. DOMAIN pc = Warps /\ DOMAIN emitted = Warps BY DEF Init
<1>3. ASSUME NEW w \in Warps PROVE WarpInv(w)
  <2>1. Program(launch, code[w]) BY <1>1, CodeIsProgram
  <2>2. Len(code[w]) \in Nat
    <3>1. PICK S : code[w] \in Seq(S) BY <2>1 DEF Program
    <3> QED BY <3>1, LenProperties
  <2>3. pc[w] = 1 /\ emitted[w] = <<>> BY DEF Init
  <2>4. pc[w] \in 1 .. Len(code[w]) + 1 /\ pc[w] - 1 = 0 BY <2>2, <2>3
  <2>5. Outcome(launch, code[w], 0, <<>>) BY OutcomeNone
  <2>6. Outcome(launch, code[w], pc[w] - 1, emitted[w]) BY <2>3, <2>4, <2>5, Zenon
  <2> QED BY <2>4, <2>6 DEF WarpInv
<1> QED BY <1>1, <1>2, <1>3 DEF KernelInv

\* Every step of a warp keeps it there: only Compute adds to what is computed.
LEMMA NextKernel == KernelInv /\ [Next]_vars => KernelInv'
<1> SUFFICES ASSUME KernelInv, [Next]_vars PROVE KernelInv' OBVIOUS
<1>1. CASE UNCHANGED vars
  BY <1>1 DEF vars, KernelInv, WarpInv
<1>2. CASE Retired
  BY <1>2 DEF Retired, vars, KernelInv, WarpInv
<1>3. ASSUME NEW w \in Warps, Step(w) PROVE KernelInv'
  <2>1. launch' = launch /\ code' = code /\ pc' = [pc EXCEPT ![w] = @ + 1] BY <1>3 DEF Step
  <2>2. DOMAIN pc = Warps /\ DOMAIN emitted = Warps BY DEF KernelInv
  <2>3. PICK s, k : s = code[w] /\ k = pc[w] - 1 OBVIOUS
  <2>4. Program(launch, s) BY <2>3, CodeIsProgram DEF KernelInv
  <2>5. Len(s) \in Nat
    <3>1. PICK S : s \in Seq(S) BY <2>4 DEF Program
    <3> QED BY <3>1, LenProperties
  <2>6. pc[w] \in 1 .. Len(s) + 1 BY <2>3 DEF KernelInv, WarpInv
  <2>7. pc[w] <= Len(s) BY <1>3, <2>3, <2>5, <2>6 DEF Step, Ready, Finished
  <2>8. k \in Nat /\ k < Len(s) /\ pc[w] = k + 1 BY <2>3, <2>5, <2>6, <2>7
  <2>9. pc'[w] = k + 2 /\ pc'[w] \in 1 .. Len(s) + 1 /\ pc'[w] - 1 = k + 1
    BY <2>1, <2>2, <2>5, <2>8
  <2>10. Outcome(launch, s, k, emitted[w])
    <3>1. Outcome(launch, code[w], pc[w] - 1, emitted[w]) BY DEF KernelInv, WarpInv
    <3> QED BY <2>3, <3>1, Zenon
  <2>11. Next_(w) = s[k + 1] BY <2>3, <2>8 DEF Next_
  <2>12. /\ DOMAIN emitted' = Warps
         /\ \A v \in Warps : v # w => emitted'[v] = emitted[v]
         /\ Outcome(launch, s, k + 1, emitted'[w])
    <3>1. CASE Compute(w)
      <4>1. s[k + 1].op = "emit" /\ emitted' = [emitted EXCEPT ![w] = Append(@, s[k + 1].what)]
        BY <2>11, <3>1 DEF Compute
      <4>2. emitted'[w] = Append(emitted[w], s[k + 1].what) BY <2>2, <4>1
      <4>3. Outcome(launch, s, k + 1, Append(emitted[w], s[k + 1].what))
        BY <2>4, <2>8, <2>10, <4>1, OutcomeMore
      <4>4. Outcome(launch, s, k + 1, emitted'[w]) BY <4>2, <4>3, Zenon
      <4> QED BY <2>2, <4>1, <4>4
    <3>2. CASE ~ Compute(w)
      <4>1. s[k + 1].op # "emit" /\ emitted' = emitted
        BY <1>3, <2>11, <3>2
           DEF Step, IssueCopy, CommitGroup, WaitGroups, Arrive, ReadSmem, WriteSmem
      <4>2. Outcome(launch, s, k + 1, emitted[w]) BY <2>8, <2>10, <4>1, OutcomeSame
      <4> QED BY <2>2, <4>1, <4>2
    <3> QED BY <3>1, <3>2
  <2>13. ASSUME NEW v \in Warps PROVE WarpInv(v)'
    <3>1. CASE v = w
      <4>1. Outcome(launch', code'[w], pc'[w] - 1, emitted'[w])
        BY <2>1, <2>3, <2>9, <2>12, Zenon
      <4>2. pc'[w] \in 1 .. Len(code'[w]) + 1 BY <2>1, <2>3, <2>9
      <4> QED BY <3>1, <4>1, <4>2 DEF WarpInv
    <3>2. CASE v # w
      <4>1. pc'[v] = pc[v] /\ emitted'[v] = emitted[v] BY <2>1, <2>2, <2>12, <3>2
      <4>2. WarpInv(v) BY DEF KernelInv
      <4> QED BY <2>1, <4>1, <4>2 DEF WarpInv
    <3> QED BY <3>1, <3>2
  <2>14. launch' \in Launches /\ code' = [v \in Warps |-> Code(launch', v)] BY <2>1 DEF KernelInv
  <2>15. DOMAIN pc' = Warps BY <2>1, <2>2
  <2> QED BY <2>12, <2>13, <2>14, <2>15 DEF KernelInv
<1> QED BY <1>1, <1>2, <1>3 DEF Next

\* Every load a warp comes to keeps its bounds, in whatever order the warps run.
THEOREM LoadsStayInBounds == Spec => []LoadsInBounds
<1>1. KernelInv => LoadsInBounds
  <2> SUFFICES ASSUME KernelInv, NEW w \in Warps, ~ Finished(w), Next_(w).op = "load"
               PROVE  InBounds(launch, Next_(w))
    BY DEF LoadsInBounds
  <2>1. PICK s : s = code[w] OBVIOUS
  <2>2. Program(launch, s) BY <2>1, CodeIsProgram DEF KernelInv
  <2>3. PICK S : s \in Seq(S) BY <2>2 DEF Program
  <2>4. pc[w] \in 1 .. Len(s) + 1 /\ ~ (pc[w] > Len(s)) BY <2>1 DEF KernelInv, WarpInv, Finished
  <2>5. pc[w] \in DOMAIN s BY <2>3, <2>4, LenProperties
  <2>6. Next_(w) \in Range(s) BY <2>1, <2>5 DEF Next_, Range
  <2> QED BY <2>2, <2>6 DEF Program
<1> QED BY <1>1, InitKernel, NextKernel, PTL DEF Spec

-----------------------------------------------------------------------------
(* The pairs the forward counts.                                            *)

\* Each key lies in one block, the one with the number of its quotient.
LEMMA BlockOfKey ==
  ASSUME NEW x, ValidShape(x), NEW j \in Nat
  PROVE  /\ j \div x.N \in Nat /\ j \in ColsOf(x, j \div x.N)
         /\ \A n \in Nat : j \in ColsOf(x, n) => j \div x.N = n
<1>1. PICK N \in Nat \ {0} : N = x.N BY ShapeIs
<1>2. PICK k \in Nat : k = j \div N /\ N * k <= j /\ j < N * k + N
  <2>1. j \div N \in Nat /\ j % N \in 0 .. N - 1 /\ j = N * (j \div N) + (j % N) BY Division
  <2> QED BY <2>1
<1>3. j \in ColsOf(x, k)
  <2>1. ColsOf(x, k) = N * k .. N * k + N - 1 BY <1>1, BlocksAre
  <2>2. N * k \in Nat OBVIOUS
  <2> QED BY <1>2, <2>1, <2>2
<1>4. ASSUME NEW n \in Nat, j \in ColsOf(x, n) PROVE j \div N = n
  <2>1. PICK q \in Nat : q = N * n OBVIOUS
  <2>2. j \in q .. q + N - 1 BY <1>1, <1>4, <2>1, BlocksAre
  <2>3. N * n <= j /\ j < N * n + N BY <2>1, <2>2
  <2> QED BY <2>3, QuotientIs
<1> QED BY <1>1, <1>2, <1>3, <1>4

\* The pairs warp w is to give to the softmax: those attention and the groups keep,
\* of its rows, in its split.
OwnPairs(l, w) ==
  {p \in WarpRows(l, w, l.block) \X (0 .. l.sk - 1) :
     /\ Attends(l, p[1], p[2])
     /\ ~ SharesBit(l, p[1], p[2])
     /\ l.kernel = "split" =>
          p[2] \div l.N \in l.idx * BlocksPerSplit(l, l.num) .. (l.idx + 1) * BlocksPerSplit(l, l.num) - 1}

\* The tiles the forward computes: a tile of the masking loop, or one a number of
\* masking steps before the last.
LEMMA ForwardComputes ==
  ASSUME NEW l, ValidLaunch(l), l.kernel # "bwd", NEW u
  PROVE  u \in Computations(l) <=>
           /\ l.block * l.M < l.sq
           /\ \E n \in Nat :
                /\ FwdMin(l) <= n /\ n < FwdMax(l)
                /\ \/ LastMasked(l) <= n /\ u = ForwardResult(n, TRUE)
                   \/ n < LastMasked(l) /\ LiveForward(l, n, FALSE) /\ u = ForwardResult(n, FALSE)
<1>1. FwdMin(l) \in Nat /\ FwdMax(l) \in Int BY ForwardRange
<1>2. CASE FwdMin(l) < FwdMax(l)
  <2>1. PICK last \in Nat : last = LastMasked(l) /\ FwdMin(l) <= last /\ last < FwdMax(l)
    BY <1>2, LastMaskedIs
  <2>2. u \in MaskedResults(l) <=>
          \E n \in Nat : last <= n /\ n < FwdMax(l) /\ u = ForwardResult(n, TRUE)
    <3>1. \A n : n \in last .. FwdMax(l) - 1 <=> n \in Nat /\ last <= n /\ n < FwdMax(l)
      BY <1>1
    <3> QED BY <2>1, <3>1, Zenon DEF MaskedResults
  <2>3. u \in LaterResults(l) <=>
          \E n \in Nat : /\ FwdMin(l) <= n /\ n < last /\ LiveForward(l, n, FALSE)
                         /\ u = ForwardResult(n, FALSE)
    <3>1. \A n : n \in FwdMin(l) .. last - 1 <=> n \in Nat /\ FwdMin(l) <= n /\ n < last
      BY <1>1
    <3> QED BY <2>1, <3>1, Zenon DEF LaterResults
  <2>4. \A n \in Nat : (last <= n => FwdMin(l) <= n) /\ (n < last => n < FwdMax(l))
    BY <1>1, <2>1
  <2>5. u \in Computations(l) <=>
          l.block * l.M < l.sq /\ (u \in MaskedResults(l) \/ u \in LaterResults(l))
    BY <1>2 DEF Computations
  <2> QED BY <2>1, <2>2, <2>3, <2>4, <2>5
<1>3. CASE ~ (FwdMin(l) < FwdMax(l))
  <2>1. Computations(l) = {} BY <1>3 DEF Computations
  <2>2. \A n \in Nat : ~ (FwdMin(l) <= n /\ n < FwdMax(l)) BY <1>1, <1>3
  <2> QED BY <2>1, <2>2
<1> QED BY <1>2, <1>3

\* A tile lets in no other pair.
LEMMA NoOtherPair ==
  ASSUME NEW l, ValidLaunch(l), l.kernel # "bwd", NEW w, NEW u \in Computations(l),
         NEW p \in Accumulated(l, w, u.what), p[1] < l.sq
  PROVE  p \in OwnPairs(l, w)
<1>1. ValidShape(l) /\ l.block \in Nat BY LaunchIs
<1>2. PICK n \in Nat :
        /\ FwdMin(l) <= n /\ n < FwdMax(l)
        /\ \/ LastMasked(l) <= n /\ u = ForwardResult(n, TRUE)
           \/ n < LastMasked(l) /\ LiveForward(l, n, FALSE) /\ u = ForwardResult(n, FALSE)
  <2>1. \A v : v \in Computations(l) <=>
          /\ l.block * l.M < l.sq
          /\ \E n \in Nat :
               /\ FwdMin(l) <= n /\ n < FwdMax(l)
               /\ \/ LastMasked(l) <= n /\ v = ForwardResult(n, TRUE)
                  \/ n < LastMasked(l) /\ LiveForward(l, n, FALSE) /\ v = ForwardResult(n, FALSE)
    BY ForwardComputes
  <2> QED BY <2>1, Zenon
<1>3. u.what.tile = n
  <2>1. u = ForwardResult(n, TRUE) \/ u = ForwardResult(n, FALSE) BY <1>2
  <2> QED BY <2>1 DEF ForwardResult, Emit
<1>4. PICK i, j : p = <<i, j>> /\ i \in WarpRows(l, w, l.block) /\ j \in ColsOf(l, n)
  BY <1>3 DEF Accumulated
<1>5. ~ SharesBit(l, i, j) BY <1>4 DEF Accumulated
<1>6. i \in RowsOf(l, l.block) /\ i < l.sq BY <1>4 DEF WarpRows
<1>7. /\ NBlockMin(l, l.block) <= n /\ n < NBlockMax(l, l.block)
      /\ l.kernel = "split" =>
           l.idx * BlocksPerSplit(l, l.num) <= n /\ n < (l.idx + 1) * BlocksPerSplit(l, l.num)
  BY <1>2, ForwardRange
<1>8. i \in 0 .. l.sq - 1
  <2>1. PICK M \in Nat, m \in Nat, sq \in Nat : M = l.M /\ m = l.block /\ sq = l.sq BY <1>1, ShapeIs
  <2>2. PICK q \in Nat : q = M * m OBVIOUS
  <2>3. i \in q .. q + M - 1 BY <1>1, <1>6, <2>1, <2>2, BlocksAre
  <2> QED BY <1>6, <2>1, <2>3
<1>9. Attends(l, i, j)
  <2>1. CASE u = ForwardResult(n, TRUE)
    <3>1. Unmasked(l, i, j)
      <4>1. u.what.masking BY <2>1 DEF ForwardResult, Emit
      <4> QED BY <1>4, <4>1 DEF Accumulated
    <3> QED BY <1>1, <1>4, <1>7, <1>8, <3>1, VisitedUnmasked
  <2>2. CASE n < LastMasked(l) /\ u = ForwardResult(n, FALSE)
    <3>1. UnmaskedLater(l, i, j)
      <4>1. ~ u.what.masking BY <2>2 DEF ForwardResult, Emit
      <4> QED BY <1>4, <4>1 DEF Accumulated
    <3>2. n + MaskingSteps(l) < NBlockMax(l, l.block)
      <4>1. FwdMin(l) \in Nat /\ FwdMax(l) \in Int /\ FwdMax(l) <= NBlockMax(l, l.block) BY ForwardRange
      <4>2. NBlockMax(l, l.block) \in Int BY <1>1, ForwardBlocks
      <4>3. MaskingSteps(l) \in Nat BY <1>1, StepsAre
      <4>4. FwdMin(l) < FwdMax(l) BY <1>2, <4>1
      <4>5. LastMasked(l) \in Nat /\ LastMasked(l) + MaskingSteps(l) = FwdMax(l)
        BY <1>2, <2>2, <4>1, <4>4, LastMaskedIs
      <4> QED BY <2>2, <4>1, <4>2, <4>3, <4>5
    <3> QED BY <1>1, <1>4, <1>6, <3>1, <3>2, LaterAttended
  <2> QED BY <1>2, <2>1, <2>2
<1>10. j \in 0 .. l.sk - 1 BY <1>9 DEF Attends
<1>11. l.kernel = "split" =>
         j \div l.N \in l.idx * BlocksPerSplit(l, l.num) .. (l.idx + 1) * BlocksPerSplit(l, l.num) - 1
  <2>1. j \in Nat BY <1>10
  <2>2. j \div l.N = n BY <1>1, <1>4, <2>1, BlockOfKey
  <2>3. PICK a \in Nat, b \in Nat :
          a = l.idx * BlocksPerSplit(l, l.num) /\ b = (l.idx + 1) * BlocksPerSplit(l, l.num)
    <3>1. PICK x \in Nat, y \in Nat : x = BlocksPerSplit(l, l.num) /\ y = l.idx
      BY <1>1, LaunchIs, SplitSize
    <3>2. y * x \in Nat /\ (y + 1) * x \in Nat OBVIOUS
    <3> QED BY <3>1, <3>2
  <2> QED BY <1>7, <2>2, <2>3
<1> QED BY <1>4, <1>5, <1>9, <1>10, <1>11 DEF OwnPairs

\* And every pair is in a tile: a skipped one has none, for all its pairs share a group.
LEMMA NoPairMissing ==
  ASSUME NEW l, ValidLaunch(l), l.kernel # "bwd", NEW w, NEW p \in OwnPairs(l, w)
  PROVE  /\ p[1] < l.sq
         /\ \E u \in Computations(l) : p \in Accumulated(l, w, u.what)
<1>1. ValidShape(l) /\ l.block \in Nat BY LaunchIs
<1>2. PICK i, j :
        /\ p = <<i, j>> /\ i \in WarpRows(l, w, l.block) /\ j \in 0 .. l.sk - 1
        /\ Attends(l, i, j) /\ ~ SharesBit(l, i, j)
        /\ l.kernel = "split" =>
             j \div l.N \in l.idx * BlocksPerSplit(l, l.num) .. (l.idx + 1) * BlocksPerSplit(l, l.num) - 1
  BY DEF OwnPairs
<1>3. j \in Nat /\ i \in 0 .. l.sq - 1 /\ i < l.sq
  <2>1. j \in Nat /\ i \in 0 .. l.sq - 1 BY <1>2 DEF Attends
  <2> QED BY <1>1, <2>1, ShapeIs
<1>4. PICK n \in Nat : n = j \div l.N /\ j \in ColsOf(l, n) BY <1>1, <1>3, BlockOfKey
<1>5. i \in RowsOf(l, l.block) BY <1>2 DEF WarpRows
<1>6. NBlockMin(l, l.block) <= n /\ n < NBlockMax(l, l.block)
  BY <1>1, <1>2, <1>4, <1>5, AttendedVisited
<1>7. FwdMin(l) <= n /\ n < FwdMax(l)
  <2>1. PICK a \in Nat, b \in Nat :
          a = l.idx * BlocksPerSplit(l, l.num) /\ b = (l.idx + 1) * BlocksPerSplit(l, l.num)
    <3>1. PICK x \in Nat, y \in Nat : x = BlocksPerSplit(l, l.num) /\ y = l.idx
      BY <1>1, LaunchIs, SplitSize
    <3>2. y * x \in Nat /\ (y + 1) * x \in Nat OBVIOUS
    <3> QED BY <3>1, <3>2
  <2>2. l.kernel = "split" => a <= n /\ n < b BY <1>2, <1>4, <2>1
  <2> QED BY <1>6, <2>1, <2>2, ForwardRange
<1>8. l.block * l.M < l.sq
  <2>1. PICK M \in Nat, m \in Nat, sq \in Nat : M = l.M /\ m = l.block /\ sq = l.sq BY <1>1, ShapeIs
  <2>2. PICK q \in Nat : q = M * m /\ q = m * M OBVIOUS
  <2>3. i \in q .. q + M - 1 BY <1>1, <1>5, <2>1, <2>2, BlocksAre
  <2> QED BY <1>3, <2>1, <2>2, <2>3
<1>9. Unmasked(l, i, j) BY <1>1, <1>2, <1>3, UnmaskedIs
<1>10. FwdMin(l) \in Nat /\ FwdMax(l) \in Int BY ForwardRange
<1>11. LastMasked(l) \in Nat
  <2>1. FwdMin(l) < FwdMax(l) BY <1>7, <1>10
  <2> QED BY <2>1, LastMaskedIs
<1>12. CASE LastMasked(l) <= n
  <2>1. PICK u : u = ForwardResult(n, TRUE) OBVIOUS
  <2>2. u \in Computations(l) BY <1>7, <1>8, <1>12, <2>1, ForwardComputes
  <2>3. u.what.tile = n /\ u.what.masking BY <2>1 DEF ForwardResult, Emit
  <2>4. p \in Accumulated(l, w, u.what) BY <1>2, <1>4, <1>9, <2>3 DEF Accumulated
  <2> QED BY <1>2, <1>3, <2>2, <2>4, Zenon
<1>13. CASE n < LastMasked(l)
  <2>1. PICK u : u = ForwardResult(n, FALSE) OBVIOUS
  <2>2. LiveForward(l, n, FALSE)
    <3>1. ASSUME Skipped(l, l.block, n) PROVE FALSE
      <4>1. i \in DOMAIN l.bits /\ j \in DOMAIN l.bits BY <1>4, <1>5, <3>1 DEF Skipped
      <4>2. PICK g : g \in l.bits[i] /\ g \in l.bits[j] BY <1>4, <1>5, <3>1 DEF Skipped
      <4> QED BY <1>2, <4>1, <4>2 DEF SharesBit
    <3> QED BY <3>1 DEF LiveForward
  <2>3. u \in Computations(l) BY <1>7, <1>8, <1>13, <2>1, <2>2, ForwardComputes
  <2>4. u.what.tile = n /\ ~ u.what.masking BY <2>1 DEF ForwardResult, Emit
  <2>5. UnmaskedLater(l, i, j) BY <1>9 DEF UnmaskedLater
  <2>6. p \in Accumulated(l, w, u.what) BY <1>2, <1>4, <2>4, <2>5 DEF Accumulated
  <2> QED BY <1>2, <1>3, <2>3, <2>6, Zenon
<1>14. LastMasked(l) <= n \/ n < LastMasked(l) BY <1>11
<1> QED BY <1>12, <1>13, <1>14

\* What a warp that is done has computed.
Done(l, e) ==
  /\ e \in Seq(Range(e))
  /\ \A v : v \in Range(e) <=> \E u \in Computations(l) : v = u.what
  /\ \A i, j \in DOMAIN e : i < j => Precedes(l, e[i], e[j])

\* A warp past the end of its code is done.
LEMMA FinishedIsDone ==
  ASSUME KernelInv, NEW w \in Warps, Finished(w)
  PROVE  Done(launch, emitted[w])
<1>1. PICK s, e : s = code[w] /\ e = emitted[w] OBVIOUS
<1>2. Program(launch, s) BY <1>1, CodeIsProgram DEF KernelInv
<1>3. PICK S : s \in Seq(S) BY <1>2 DEF Program
<1>4. DOMAIN s = 1 .. Len(s) /\ Len(s) \in Nat BY <1>3, LenProperties
<1>5. pc[w] - 1 = Len(s)
  <2>1. pc[w] \in 1 .. Len(s) + 1 /\ pc[w] > Len(s) BY <1>1 DEF KernelInv, WarpInv, Finished
  <2> QED BY <1>4, <2>1
<1>6. Outcome(launch, s, Len(s), e)
  <2>1. Outcome(launch, code[w], pc[w] - 1, emitted[w]) BY DEF KernelInv, WarpInv
  <2> QED BY <1>1, <1>5, <2>1, Zenon
<1>7. \A u : u \in Computations(launch) <=> \E x \in 1 .. Len(s) : s[x].op = "emit" /\ u = s[x]
  BY <1>2, <1>4 DEF Program, Range
<1>8. \A v : v \in Range(e) <=> \E u \in Computations(launch) : v = u.what
  <2>1. \A v : v \in Range(e) <=> \E x \in 1 .. Len(s) : s[x].op = "emit" /\ v = s[x].what
    BY <1>6 DEF Outcome
  <2>2. ASSUME NEW v PROVE v \in Range(e) <=> \E u \in Computations(launch) : v = u.what
    <3>1. ASSUME NEW x \in 1 .. Len(s), s[x].op = "emit", v = s[x].what
          PROVE  \E u \in Computations(launch) : v = u.what
      <4>1. s[x] \in Computations(launch) BY <1>7, <3>1
      <4> QED BY <3>1, <4>1
    <3>2. ASSUME NEW u \in Computations(launch), v = u.what
          PROVE  \E x \in 1 .. Len(s) : s[x].op = "emit" /\ v = s[x].what
      <4>1. PICK x \in 1 .. Len(s) : s[x].op = "emit" /\ u = s[x] BY <1>7, <3>2
      <4> QED BY <3>2, <4>1
    <3> QED BY <2>1, <3>1, <3>2
  <2> QED BY <2>2
<1>9. Done(launch, e) BY <1>6, <1>8, Zenon DEF Outcome, Done
<1> QED BY <1>1, <1>9, Zenon

\* Each pair the masks keep enters the softmax of its row once, and no other does,
\* for every launch of the forward kernels, split or not.
THEOREM ForwardCountsOnce == Spec => []ForwardCountsEachPairOnce
<1>1. KernelInv => ForwardCountsEachPairOnce
  <2> SUFFICES ASSUME KernelInv, NEW w \in Warps, launch.kernel # "bwd", Finished(w)
               PROVE  /\ SharedOut(launch)
                      /\ \A i, j \in DOMAIN emitted[w] :
                           i # j => emitted[w][i].tile # emitted[w][j].tile
                      /\ {p \in UNION {Accumulated(launch, w, emitted[w][i]) : i \in DOMAIN emitted[w]} :
                            p[1] < launch.sq} = OwnPairs(launch, w)
    BY DEF ForwardCountsEachPairOnce, OwnPairs
  <2>1. PICK l, e : l = launch /\ e = emitted[w] OBVIOUS
  <2>2. Done(l, e) BY <2>1, FinishedIsDone
  <2>3. ValidLaunch(l) /\ l.kernel # "bwd" BY <2>1, LaunchesAreValid DEF KernelInv
  <2>4. SharedOut(l) BY <2>3, LaunchIs, SplitsShare
  <2>5. PICK d \in Nat : DOMAIN e = 1 .. d
    <3>1. PICK R : e \in Seq(R) BY <2>2 DEF Done
    <3> QED BY <3>1, LenProperties
  <2>6. ASSUME NEW i \in DOMAIN e PROVE e[i].tile \in Nat
    <3>1. e[i] \in Range(e) BY DEF Range
    <3>2. PICK u \in Computations(l) : e[i] = u.what BY <2>2, <3>1 DEF Done
    <3>3. PICK n \in Nat : u = ForwardResult(n, TRUE) \/ u = ForwardResult(n, FALSE)
      BY <2>3, ForwardComputes
    <3> QED BY <3>2, <3>3 DEF ForwardResult, Emit
  <2>7. ASSUME NEW i \in DOMAIN e, NEW j \in DOMAIN e, i # j PROVE e[i].tile # e[j].tile
    <3>1. i < j \/ j < i BY <2>5, <2>7
    <3>2. ASSUME NEW x \in DOMAIN e, NEW y \in DOMAIN e, x < y PROVE e[y].tile < e[x].tile
      BY <2>2, <2>3, <3>2 DEF Done, Precedes
    <3>3. e[i].tile < e[j].tile \/ e[j].tile < e[i].tile BY <3>1, <3>2
    <3> QED BY <2>6, <3>3
  <2>8. ASSUME NEW p
        PROVE  p \in OwnPairs(l, w) <=>
                 p[1] < l.sq /\ \E i \in DOMAIN e : p \in Accumulated(l, w, e[i])
    <3>1. (\E i \in DOMAIN e : p \in Accumulated(l, w, e[i])) <=>
            \E u \in Computations(l) : p \in Accumulated(l, w, u.what)
      <4>1. \A v : (\E i \in DOMAIN e : v = e[i]) <=> \E u \in Computations(l) : v = u.what
        BY <2>2 DEF Done, Range
      <4> QED BY <4>1, Zenon
    <3>2. ASSUME p \in OwnPairs(l, w)
          PROVE  p[1] < l.sq /\ \E u \in Computations(l) : p \in Accumulated(l, w, u.what)
      BY <2>3, <3>2, NoPairMissing
    <3>3. ASSUME p[1] < l.sq, NEW u \in Computations(l), p \in Accumulated(l, w, u.what)
          PROVE  p \in OwnPairs(l, w)
      BY <2>3, <3>3, NoOtherPair
    <3> QED BY <3>1, <3>2, <3>3
  <2>9. {p \in UNION {Accumulated(l, w, e[i]) : i \in DOMAIN e} : p[1] < l.sq} = OwnPairs(l, w)
    BY <2>8
  <2> QED BY <2>1, <2>4, <2>7, <2>9
<1> QED BY <1>1, InitKernel, NextKernel, PTL DEF Spec

-----------------------------------------------------------------------------
(* The blocks the backward adds up.                                         *)

\* The blocks the backward computes.
LEMMA BackwardComputes ==
  ASSUME NEW l, ValidLaunch(l), l.kernel = "bwd", NEW u
  PROVE  u \in Computations(l) <=>
           /\ l.block * l.N < l.sk
           /\ \E m \in Nat :
                /\ MBlockMin(l, l.block) <= m /\ m < MBlockMax(l, l.block)
                /\ u \in BackwardResults(l, l.block, m)
<1>1. PICK lo \in Nat, hi \in Int : lo = MBlockMin(l, l.block) /\ hi = MBlockMax(l, l.block)
  <2>1. PICK z \in Nat : z = 0 OBVIOUS
  <2> QED BY <2>1, LaunchIs, BackwardBlocks
<1>2. \A m : m \in lo .. hi - 1 <=> m \in Nat /\ lo <= m /\ m < hi BY <1>1
<1>3. CASE l.block * l.N < l.sk /\ lo < hi
  <2>1. Computations(l) = BackwardComputed(l) BY <1>1, <1>3 DEF Computations
  <2>2. u \in BackwardComputed(l) <=> \E m \in lo .. hi - 1 : u \in BackwardResults(l, l.block, m)
    BY <1>1 DEF BackwardComputed
  <2> QED BY <1>1, <1>2, <1>3, <2>1, <2>2
<1>4. CASE ~ (l.block * l.N < l.sk /\ lo < hi)
  <2>1. Computations(l) = {} BY <1>1, <1>4 DEF Computations
  <2>2. lo < hi <=> \E m \in Nat : lo <= m /\ m < hi BY <1>1
  <2> QED BY <1>1, <1>4, <2>1, <2>2
<1> QED BY <1>3, <1>4

\* Whether a block of queries is among those that give the gradient out: dQ is
\* written for every block, dV and dK for those that are not skipped.
LEMMA BackwardOutcome ==
  ASSUME NEW l, ValidLaunch(l), l.kernel = "bwd", NEW e, Done(l, e)
  PROVE  /\ \A v \in Range(e) :
              /\ v.tile \in Nat /\ v.out \in {"dQ", "dK", "dV"}
              /\ l.block * l.N < l.sk
              /\ MBlockMin(l, l.block) <= v.tile /\ v.tile < MBlockMax(l, l.block)
              /\ v.out = "dQ" => /\ v.at = v.tile /\ v.stats = v.tile
                                 /\ v.zero => Skipped(l, v.tile, l.block)
         /\ \A m \in Nat, out \in {"dQ", "dK", "dV"} :
              /\ l.block * l.N < l.sk
              /\ MBlockMin(l, l.block) <= m /\ m < MBlockMax(l, l.block)
              /\ ~ Skipped(l, m, l.block)
              => \E v \in Range(e) : v.out = out /\ v.tile = m
<1>1. ASSUME NEW v \in Range(e)
      PROVE  /\ v.tile \in Nat /\ v.out \in {"dQ", "dK", "dV"}
             /\ l.block * l.N < l.sk
             /\ MBlockMin(l, l.block) <= v.tile /\ v.tile < MBlockMax(l, l.block)
             /\ v.out = "dQ" => /\ v.at = v.tile /\ v.stats = v.tile
                                /\ v.zero => Skipped(l, v.tile, l.block)
  <2>1. PICK u \in Computations(l) : v = u.what BY DEF Done
  <2>2. l.block * l.N < l.sk BY <2>1, BackwardComputes
  <2>3. PICK m \in Nat :
          /\ MBlockMin(l, l.block) <= m /\ m < MBlockMax(l, l.block)
          /\ u \in BackwardResults(l, l.block, m)
    <3>1. \A x : x \in Computations(l) <=>
            /\ l.block * l.N < l.sk
            /\ \E m \in Nat :
                 /\ MBlockMin(l, l.block) <= m /\ m < MBlockMax(l, l.block)
                 /\ x \in BackwardResults(l, l.block, m)
      BY BackwardComputes
    <3> QED BY <3>1, Zenon
  <2>4. u = ResultDQ(l, l.block, m) \/ u = ResultDV(m) \/ u = ResultDK(m)
    BY <2>3 DEF BackwardResults
  <2>5. CASE u = ResultDQ(l, l.block, m)
    <3>1. PICK yes \in BOOLEAN : yes = Skipped(l, m, l.block) BY DEF Skipped
    <3>2. v = [out |-> "dQ", tile |-> m, at |-> m, stats |-> m, zero |-> yes]
      BY <2>1, <2>5, <3>1 DEF ResultDQ, Emit
    <3>3. v.tile = m /\ v.out = "dQ" /\ v.at = m /\ v.stats = m /\ v.zero = yes BY <3>2
    <3> QED BY <2>2, <2>3, <3>1, <3>3
  <2>6. CASE u = ResultDV(m)
    <3>1. v.tile = m /\ v.out = "dV" BY <2>1, <2>6 DEF ResultDV, Emit
    <3> QED BY <2>2, <2>3, <3>1
  <2>7. CASE u = ResultDK(m)
    <3>1. v.tile = m /\ v.out = "dK" BY <2>1, <2>7 DEF ResultDK, Emit
    <3> QED BY <2>2, <2>3, <3>1
  <2> QED BY <2>4, <2>5, <2>6, <2>7
<1>2. ASSUME NEW m \in Nat, NEW out \in {"dQ", "dK", "dV"}, l.block * l.N < l.sk,
             MBlockMin(l, l.block) <= m, m < MBlockMax(l, l.block), ~ Skipped(l, m, l.block)
      PROVE  \E v \in Range(e) : v.out = out /\ v.tile = m
  <2>1. PICK u \in BackwardResults(l, l.block, m) : u.what.out = out /\ u.what.tile = m
    <3>1. CASE out = "dQ"
      <4>1. PICK u : u = ResultDQ(l, l.block, m) OBVIOUS
      <4>2. u \in BackwardResults(l, l.block, m) BY <4>1 DEF BackwardResults
      <4>3. u.what.out = "dQ" /\ u.what.tile = m BY <4>1 DEF ResultDQ, Emit
      <4> QED BY <3>1, <4>2, <4>3
    <3>2. CASE out = "dK"
      <4>1. PICK u : u = ResultDK(m) OBVIOUS
      <4>2. u \in BackwardResults(l, l.block, m) BY <1>2, <4>1 DEF BackwardResults
      <4>3. u.what.out = "dK" /\ u.what.tile = m BY <4>1 DEF ResultDK, Emit
      <4> QED BY <3>2, <4>2, <4>3
    <3>3. CASE out = "dV"
      <4>1. PICK u : u = ResultDV(m) OBVIOUS
      <4>2. u \in BackwardResults(l, l.block, m) BY <1>2, <4>1 DEF BackwardResults
      <4>3. u.what.out = "dV" /\ u.what.tile = m BY <4>1 DEF ResultDV, Emit
      <4> QED BY <3>3, <4>2, <4>3
    <3> QED BY <3>1, <3>2, <3>3
  <2>2. u \in Computations(l) BY <1>2, <2>1, BackwardComputes
  <2>3. u.what \in Range(e) BY <2>2 DEF Done
  <2> QED BY <2>1, <2>3
<1>3. \A m \in Nat, out \in {"dQ", "dK", "dV"} :
        /\ l.block * l.N < l.sk
        /\ MBlockMin(l, l.block) <= m /\ m < MBlockMax(l, l.block)
        /\ ~ Skipped(l, m, l.block)
        => \E v \in Range(e) : v.out = out /\ v.tile = m
  BY <1>2
<1> QED BY <1>1, <1>3

\* A skipped tile has no pair to differentiate.
LEMMA SkippedIsEmpty ==
  ASSUME NEW l, NEW m, NEW n, Skipped(l, m, n)
  PROVE  Differentiated(l, m, n) = {}
<1>1. ASSUME NEW p \in Differentiated(l, m, n) PROVE FALSE
  <2>1. PICK i, j : p = <<i, j>> /\ i \in RowsOf(l, m) /\ j \in ColsOf(l, n) /\ ~ SharesBit(l, i, j)
    BY DEF Differentiated
  <2>2. i \in DOMAIN l.bits /\ j \in DOMAIN l.bits BY <2>1 DEF Skipped
  <2>3. PICK g : g \in l.bits[i] /\ g \in l.bits[j] BY <2>1 DEF Skipped
  <2> QED BY <2>1, <2>2, <2>3 DEF SharesBit
<1> QED BY <1>1

\* The pairs of a block of keys that attention and the groups keep.
KeptOf(l, n) ==
  {p \in (0 .. l.sq - 1) \X ColsOf(l, n) : Attends(l, p[1], p[2]) /\ ~ SharesBit(l, p[1], p[2])}

\* A visited block of queries contributes pairs of these only.
LEMMA ContributedIsKept ==
  ASSUME NEW l, ValidLaunch(l), l.block * l.N < l.sk, NEW m \in Nat, m < MBlockMax(l, l.block),
         NEW p \in Differentiated(l, m, l.block)
  PROVE  p \in KeptOf(l, l.block)
<1>1. ValidShape(l) /\ l.block \in Nat BY LaunchIs
<1>2. PICK i, j :
        /\ p = <<i, j>> /\ i \in RowsOf(l, m) /\ j \in ColsOf(l, l.block)
        /\ Unmasked(l, i, j) /\ (l.even \/ i < l.sq) /\ ~ SharesBit(l, i, j)
  BY DEF Differentiated
<1>3. Attends(l, i, j) BY <1>1, <1>2, DifferentiatedAttended
<1>4. i \in 0 .. l.sq - 1 BY <1>3 DEF Attends
<1> QED BY <1>2, <1>3, <1>4 DEF KeptOf

\* And each of them is contributed by a block that is visited and not skipped.
LEMMA KeptIsContributed ==
  ASSUME NEW l, ValidLaunch(l), NEW p \in KeptOf(l, l.block)
  PROVE  /\ l.block * l.N < l.sk
         /\ \E m \in Nat :
              /\ MBlockMin(l, l.block) <= m /\ m < MBlockMax(l, l.block)
              /\ ~ Skipped(l, m, l.block)
              /\ p \in Differentiated(l, m, l.block)
<1>1. ValidShape(l) /\ l.block \in Nat BY LaunchIs
<1>2. PICK i, j :
        /\ p = <<i, j>> /\ i \in 0 .. l.sq - 1 /\ j \in ColsOf(l, l.block)
        /\ Attends(l, i, j) /\ ~ SharesBit(l, i, j)
  BY DEF KeptOf
<1>3. PICK M \in Nat \ {0}, N \in Nat \ {0}, sq \in Nat, sk \in Nat, n \in Nat :
        M = l.M /\ N = l.N /\ sq = l.sq /\ sk = l.sk /\ n = l.block
  BY <1>1, ShapeIs
<1>4. j \in 0 .. l.sk - 1 BY <1>2 DEF Attends
<1>5. l.block * l.N < l.sk
  <2>1. PICK q \in Nat : q = N * n /\ q = n * N OBVIOUS
  <2>2. j \in q .. q + N - 1 BY <1>1, <1>2, <1>3, <2>1, BlocksAre
  <2> QED BY <1>3, <1>4, <2>1, <2>2
<1>6. PICK m \in Nat : i \in RowsOf(l, m)
  <2>1. i \in Nat BY <1>2
  <2>2. i \div M \in Nat /\ i % M \in 0 .. M - 1 /\ i = M * (i \div M) + (i % M) BY <2>1, Division
  <2>3. PICK m \in Nat : M * m <= i /\ i < M * m + M
    <3>1. PICK m \in Nat : m = i \div M BY <2>2
    <3>2. M * m <= i /\ i < M * m + M BY <2>1, <2>2, <3>1
    <3> QED BY <3>2
  <2>4. PICK q \in Nat : q = M * m OBVIOUS
  <2>5. i \in q .. q + M - 1 BY <2>1, <2>3, <2>4
  <2>6. i \in RowsOf(l, m) BY <1>1, <1>3, <2>4, <2>5, BlocksAre
  <2> QED BY <2>6
<1>7. MBlockMin(l, l.block) <= m /\ m < MBlockMax(l, l.block)
  BY <1>1, <1>2, <1>6, AttendedDifferentiated
<1>8. Unmasked(l, i, j)
  <2>1. j \in Nat BY <1>4
  <2> QED BY <1>1, <1>2, <2>1, UnmaskedIs
<1>9. i < l.sq BY <1>2, <1>3
<1>10. p \in Differentiated(l, m, l.block) BY <1>2, <1>6, <1>8, <1>9 DEF Differentiated
<1>11. ~ Skipped(l, m, l.block) BY <1>10, SkippedIsEmpty
<1> QED BY <1>5, <1>7, <1>10, <1>11

\* A sequence whose chosen elements have different values has as many values.
LEMMA AsManyValues ==
  ASSUME NEW d \in Nat, NEW A \in SUBSET (1 .. d), NEW f, \A i, j \in A : i < j => f[i] # f[j]
  PROVE  Cardinality(A) = Cardinality({f[i] : i \in A})
<1>1. IsFiniteSet(A)
  <2>1. 1 \in Int /\ d \in Int OBVIOUS
  <2>2. IsFiniteSet(1 .. d) BY <2>1, FS_Interval
  <2> QED BY <2>2, FS_Subset
<1>2. PICK T : T = {f[i] : i \in A} OBVIOUS
<1>3. PICK g : g = [i \in A |-> f[i]] OBVIOUS
<1>4. g \in [A -> T] /\ \A t \in T : \E i \in A : g[i] = t BY <1>2, <1>3
<1>5. \A i, j \in A : g[i] = g[j] => i = j
  <2> SUFFICES ASSUME NEW i \in A, NEW j \in A, f[i] = f[j] PROVE i = j BY <1>3
  <2>1. i \in Nat /\ j \in Nat OBVIOUS
  <2>2. ~ (i < j) /\ ~ (j < i) OBVIOUS
  <2> QED BY <2>1, <2>2
<1>6. g \in Bijection(A, T) BY <1>4, <1>5 DEF Bijection, Injection, Surjection, IsInjective
<1>7. ExistsBijection(A, T) BY <1>6 DEF ExistsBijection
<1> QED BY <1>1, <1>2, <1>7, FS_Bijection

\* What a warp of the backward that is done has computed: the same as the
\* conclusion of BackwardCountsEachPairOnce, of a launch and its results.
AddedOnce(l, e) ==
  LET n == l.block
      All(out) == {i \in DOMAIN e : e[i].out = out}
      Blocks(out) == {e[i].tile : i \in All(out)}
  IN  /\ \A out \in {"dQ", "dK", "dV"} : Cardinality(All(out)) = Cardinality(Blocks(out))
      /\ \A out \in {"dQ", "dK", "dV"} :
           UNION {Differentiated(l, m, n) : m \in Blocks(out)}
           = {p \in (0 .. l.sq - 1) \X ColsOf(l, n) :
                Attends(l, p[1], p[2]) /\ ~ SharesBit(l, p[1], p[2])}
      /\ \A i \in All("dQ") :
           /\ e[i].at = e[i].tile
           /\ e[i].stats = e[i].tile
           /\ e[i].zero => Differentiated(l, e[i].tile, n) = {}

\* The blocks of each gradient hold every pair that is kept, once.
LEMMA BackwardDone ==
  ASSUME NEW l, ValidLaunch(l), l.kernel = "bwd", NEW e, Done(l, e)
  PROVE  AddedOnce(l, e)
<1>1. PICK d \in Nat : DOMAIN e = 1 .. d
  <2>1. PICK R : e \in Seq(R) BY DEF Done
  <2> QED BY <2>1, LenProperties
<1> DEFINE Those(out) == {i \in DOMAIN e : e[i].out = out}
           Tiles(out) == {e[i].tile : i \in Those(out)}
<1>2. ASSUME NEW i \in DOMAIN e
      PROVE  /\ e[i].tile \in Nat /\ l.block * l.N < l.sk /\ e[i].tile < MBlockMax(l, l.block)
             /\ e[i].out = "dQ" =>
                  /\ e[i].at = e[i].tile /\ e[i].stats = e[i].tile
                  /\ e[i].zero => Differentiated(l, e[i].tile, l.block) = {}
  <2>1. PICK v \in Range(e) : v = e[i] BY DEF Range
  <2>2. /\ v.tile \in Nat /\ l.block * l.N < l.sk /\ v.tile < MBlockMax(l, l.block)
        /\ v.out = "dQ" => /\ v.at = v.tile /\ v.stats = v.tile
                           /\ v.zero => Skipped(l, v.tile, l.block)
    BY BackwardOutcome
  <2>3. Skipped(l, v.tile, l.block) => Differentiated(l, v.tile, l.block) = {} BY SkippedIsEmpty
  <2> QED BY <2>1, <2>2, <2>3
<1>3. ASSUME NEW out \in {"dQ", "dK", "dV"} PROVE Cardinality(Those(out)) = Cardinality(Tiles(out))
  <2>1. PICK A : A = Those(out) OBVIOUS
  <2>2. PICK f : f = [i \in DOMAIN e |-> e[i].tile] OBVIOUS
  <2>3. A \in SUBSET (1 .. d) BY <1>1, <2>1
  <2>4. ASSUME NEW i \in A, NEW j \in A, i < j PROVE f[i] # f[j]
    <3>1. i \in DOMAIN e /\ j \in DOMAIN e /\ e[i].out = out /\ e[j].out = out BY <2>1
    <3>2. Precedes(l, e[i], e[j]) BY <2>4, <3>1 DEF Done
    <3>3. e[j].tile < e[i].tile BY <3>1, <3>2 DEF Precedes
    <3>4. e[i].tile \in Nat /\ e[j].tile \in Nat BY <1>2, <3>1
    <3> QED BY <2>2, <3>1, <3>3, <3>4
  <2>5. Cardinality(A) = Cardinality({f[i] : i \in A}) BY <2>3, <2>4, AsManyValues
  <2>6. {f[i] : i \in A} = Tiles(out) BY <2>1, <2>2
  <2> QED BY <2>1, <2>5, <2>6
<1>4. ASSUME NEW out \in {"dQ", "dK", "dV"}
      PROVE  UNION {Differentiated(l, m, l.block) : m \in Tiles(out)} = KeptOf(l, l.block)
  <2>1. ASSUME NEW p, NEW m \in Tiles(out), p \in Differentiated(l, m, l.block)
        PROVE  p \in KeptOf(l, l.block)
    <3>1. PICK i \in DOMAIN e : m = e[i].tile OBVIOUS
    <3>2. m \in Nat /\ l.block * l.N < l.sk /\ m < MBlockMax(l, l.block) BY <1>2, <3>1
    <3> QED BY <2>1, <3>2, ContributedIsKept
  <2>2. ASSUME NEW p \in KeptOf(l, l.block)
        PROVE  \E m \in Tiles(out) : p \in Differentiated(l, m, l.block)
    <3>1. PICK m \in Nat :
            /\ l.block * l.N < l.sk
            /\ MBlockMin(l, l.block) <= m /\ m < MBlockMax(l, l.block)
            /\ ~ Skipped(l, m, l.block)
            /\ p \in Differentiated(l, m, l.block)
      BY KeptIsContributed
    <3>2. PICK v \in Range(e) : v.out = out /\ v.tile = m BY <3>1, BackwardOutcome
    <3>3. PICK i \in DOMAIN e : v = e[i] BY DEF Range
    <3>4. m \in Tiles(out) BY <3>2, <3>3
    <3> QED BY <3>1, <3>4
  <2> HIDE DEF Tiles
  <2> QED BY <2>1, <2>2
<1>5. KeptOf(l, l.block) = {p \in (0 .. l.sq - 1) \X ColsOf(l, l.block) :
                              Attends(l, p[1], p[2]) /\ ~ SharesBit(l, p[1], p[2])}
  BY DEF KeptOf
<1>6. \A i \in Those("dQ") :
        /\ e[i].at = e[i].tile /\ e[i].stats = e[i].tile
        /\ e[i].zero => Differentiated(l, e[i].tile, l.block) = {}
  BY <1>2
<1> QED BY <1>3, <1>4, <1>5, <1>6, Zenon DEF AddedOnce

\* Each pair the masks keep gives its gradients once, and dQ is added where it
\* belongs, for every launch of the backward kernel.
THEOREM BackwardCountsOnce == Spec => []BackwardCountsEachPairOnce
<1>1. KernelInv => BackwardCountsEachPairOnce
  <2> SUFFICES ASSUME KernelInv, NEW w \in Warps, launch.kernel = "bwd", Finished(w)
               PROVE  AddedOnce(launch, emitted[w])
    BY DEF BackwardCountsEachPairOnce, AddedOnce
  <2>1. PICK l, e : l = launch /\ e = emitted[w] OBVIOUS
  <2>2. Done(l, e) BY <2>1, FinishedIsDone
  <2>3. ValidLaunch(l) /\ l.kernel = "bwd" BY <2>1, LaunchesAreValid DEF KernelInv
  <2>4. AddedOnce(l, e) BY <2>2, <2>3, BackwardDone
  <2> QED BY <2>1, <2>4, Zenon
<1> QED BY <1>1, InitKernel, NextKernel, PTL DEF Spec

-----------------------------------------------------------------------------
(* One place of shared memory, along the code.                              *)

\* What is known of a place after an instruction the discipline allows.
LEMMA AfterIs ==
  ASSUME NEW l, NEW p, NEW ins, NEW a \in PlaceStates, Allowed(l, p, ins, a)
  PROVE  After(l, p, ins, a) \in PlaceStates
<1>1. /\ a.tile \in TileSet /\ a.copied \in BOOLEAN /\ a.use \in {"idle", "read", "written"}
      /\ a.age \in -1 .. 2 /\ a.depth \in 0 .. 2 /\ a.age <= a.depth
      /\ a.age >= 0 => a.use = "written" /\ a.copied
  BY DEF PlaceStates
<1>2. PICK b : b = After(l, p, ins, a) OBVIOUS
<1>3. /\ b.tile = IF Writes(l, p, ins) THEN ins.tile ELSE a.tile
      /\ b.copied = IF Writes(l, p, ins) THEN ins.op = "load" ELSE a.copied
      /\ b.use = IF Writes(l, p, ins) THEN "written"
                 ELSE IF Reads(l, p, ins) THEN "read"
                 ELSE IF ins.op = "sync" /\ a.age < 0 THEN "idle"
                 ELSE a.use
      /\ b.age = IF Writes(l, p, ins) THEN IF ins.op = "load" THEN 0 ELSE -1
                 ELSE IF ins.op = "commit" /\ a.age >= 0 THEN a.age + 1
                 ELSE IF ins.op = "wait" /\ a.age > ins.n THEN -1
                 ELSE a.age
      /\ b.depth = IF ins.op = "commit" THEN a.depth + 1
                   ELSE IF ins.op = "wait" /\ a.depth > ins.n THEN ins.n
                   ELSE a.depth
  BY <1>2 DEF After
<1>4. b = [tile |-> b.tile, copied |-> b.copied, use |-> b.use, age |-> b.age, depth |-> b.depth]
  BY <1>2 DEF After
<1>5. b.tile \in TileSet BY <1>1, <1>3 DEF Allowed
<1>6. b.copied \in BOOLEAN /\ b.use \in {"idle", "read", "written"} BY <1>1, <1>3
<1>7. b.depth \in 0 .. 2
  BY <1>1, <1>3 DEF Allowed
<1>8. /\ b.age \in -1 .. 2 /\ b.age <= b.depth
      /\ b.age >= 0 => b.use = "written" /\ b.copied
  <2>1. CASE Writes(l, p, ins)
    <3>1. CASE ins.op = "load"
      <4>1. b.use = "written" /\ b.copied = TRUE /\ b.age = 0 BY <1>3, <2>1, <3>1
      <4> QED BY <1>7, <4>1
    <3>2. CASE ins.op # "load"
      <4>1. b.age = -1 BY <1>3, <2>1, <3>2
      <4> QED BY <1>7, <4>1
    <3> QED BY <3>1, <3>2
  <2>2. CASE ~ Writes(l, p, ins) /\ Reads(l, p, ins)
    BY <1>1, <1>3, <2>2 DEF Reads, Allowed
  <2>3. CASE ~ Writes(l, p, ins) /\ ~ Reads(l, p, ins)
    BY <1>1, <1>3, <2>3 DEF Allowed
  <2> QED BY <2>1, <2>2, <2>3
<1> QED BY <1>2, <1>4, <1>5, <1>6, <1>7, <1>8 DEF PlaceStates

\* The state in which a place is before the first instruction.
LEMMA FreshIs == Fresh \in PlaceStates
BY DEF Fresh, PlaceStates, TileSet, Nothing, Tile

\* What is known of a place is defined along the whole code.
LEMMA KnownIs ==
  ASSUME NEW l, NEW p, NEW s, Len(s) \in Nat
  PROVE  /\ Known(l, p, s)[0] = Fresh
         /\ \A k \in 1 .. Len(s) : Known(l, p, s)[k] = After(l, p, s[k], Known(l, p, s)[k - 1])
<1>0. PICK m \in Nat : m = Len(s) OBVIOUS
<1> DEFINE Then(k, a) == After(l, p, s[k], a)
           Is(f, j) == f = [k \in 0 .. j |-> IF k = 0 THEN Fresh ELSE Then(k, f[k - 1])]
           Have == {j \in Nat : \E f : Is(f, j)}
<1>1. 0 \in Have
  <2>1. Is([k \in 0 .. 0 |-> Fresh], 0) OBVIOUS
  <2> HIDE DEF Is
  <2> QED BY <2>1
<1>2. ASSUME NEW j \in Nat, j < m, j \in Have PROVE j + 1 \in Have
  <2>1. PICK f : Is(f, j)
    <3> HIDE DEF Is
    <3> QED BY <1>2
  <2> HIDE DEF Then
  <2> DEFINE g == [k \in 0 .. j + 1 |-> IF k < j + 1 THEN f[k] ELSE Then(j + 1, f[j])]
  <2>2. \A k \in 0 .. j : f[k] = IF k = 0 THEN Fresh ELSE Then(k, f[k - 1]) BY <2>1
  <2>3. \A k \in 0 .. j + 1 : g[k] = IF k = 0 THEN Fresh ELSE Then(k, g[k - 1])
    <3> SUFFICES ASSUME NEW k \in 0 .. j + 1
                 PROVE  g[k] = IF k = 0 THEN Fresh ELSE Then(k, g[k - 1])
      OBVIOUS
    <3>0. g[k] = IF k < j + 1 THEN f[k] ELSE Then(j + 1, f[j]) OBVIOUS
    <3>1. CASE k = j + 1
      <4>1. j \in 0 .. j + 1 /\ j < j + 1 /\ k - 1 = j /\ k # 0 /\ ~ (k < j + 1) BY <3>1
      <4>2. g[j] = f[j] BY <4>1
      <4> HIDE DEF g
      <4> QED BY <3>0, <3>1, <4>1, <4>2
    <3>2. CASE k # j + 1
      <4>1. k \in 0 .. j /\ k < j + 1 BY <3>2
      <4>2. k # 0 => k - 1 \in 0 .. j + 1 /\ g[k - 1] = f[k - 1] BY <3>2
      <4> HIDE DEF g
      <4> QED BY <2>2, <3>0, <4>1, <4>2
    <3> QED BY <3>1, <3>2
  <2>4. Is(g, j + 1)
    <3>1. g = [k \in 0 .. j + 1 |-> g[k]] OBVIOUS
    <3> HIDE DEF g
    <3> QED BY <2>3, <3>1
  <2> HIDE DEF Is
  <2> QED BY <2>4
<1>3. \E f : Is(f, m)
  <2> HIDE DEF Have
  <2>1. \A j \in 0 .. m : j \in Have BY <1>1, <1>2, UpTo
  <2>2. m \in Have BY <2>1
  <2> HIDE DEF Is
  <2> QED BY <2>2 DEF Have
<1>4. Known(l, p, s) = (CHOOSE f : Is(f, m)) BY <1>0 DEF Known
<1>5. PICK f : Is(f, m) /\ Known(l, p, s) = f
  <2> HIDE DEF Is
  <2> QED BY <1>3, <1>4
<1>6. f[0] = Fresh /\ \A k \in 1 .. m : f[k] = Then(k, f[k - 1])
  <2> HIDE DEF Then
  <2>1. \A k \in 0 .. m : f[k] = IF k = 0 THEN Fresh ELSE Then(k, f[k - 1]) BY <1>5
  <2>2. \A k \in 1 .. m : k \in 0 .. m /\ k # 0 OBVIOUS
  <2>3. 0 \in 0 .. m OBVIOUS
  <2> QED BY <2>1, <2>2, <2>3
<1> QED BY <1>0, <1>5, <1>6

\* If the code is disciplined it is always known as much as a place state says.
LEMMA KnownType ==
  ASSUME NEW l, NEW p, NEW s, Len(s) \in Nat, Disciplined(l, p, s), NEW k \in 0 .. Len(s)
  PROVE  Known(l, p, s)[k] \in PlaceStates
<1>0. PICK m \in Nat : m = Len(s) OBVIOUS
<1>a. PICK f : f = Known(l, p, s) OBVIOUS
<1> DEFINE S == {j \in Nat : j <= m => f[j] \in PlaceStates}
<1>1. 0 \in S BY <1>0, <1>a, KnownIs, FreshIs
<1>2. ASSUME NEW j \in Nat, j < m, j \in S PROVE j + 1 \in S
  <2>1. j + 1 \in 1 .. m /\ (j + 1) - 1 = j BY <1>2
  <2>2. f[j + 1] = After(l, p, s[j + 1], f[j]) /\ Allowed(l, p, s[j + 1], f[j])
    BY <1>0, <1>a, <2>1, KnownIs DEF Disciplined
  <2>3. f[j] \in PlaceStates BY <1>2
  <2> QED BY <2>2, <2>3, AfterIs
<1>3. \A j \in 0 .. m : j \in S
  <2> HIDE DEF S
  <2> QED BY <1>1, <1>2, UpTo
<1> QED BY <1>0, <1>a, <1>3

\* Nothing passes a place by between two points with no barrier between them: what
\* was read stays read and what was written stays written, and the tile changes
\* only from idle to written.
Together(a, b) ==
  /\ a.use # "idle" => b.use = a.use
  /\ a.use # "idle" \/ b.use # "written" => b.tile = a.tile /\ b.copied = a.copied

\* One instruction.
LEMMA TogetherAfter ==
  ASSUME NEW l, NEW p, NEW ins, NEW a \in PlaceStates, NEW b \in PlaceStates, Together(a, b),
         Allowed(l, p, ins, b), ins.op # "sync"
  PROVE  Together(a, After(l, p, ins, b))
<1>1. PICK d : d = After(l, p, ins, b) OBVIOUS
<1>2. /\ d.tile = IF Writes(l, p, ins) THEN ins.tile ELSE b.tile
      /\ d.copied = IF Writes(l, p, ins) THEN ins.op = "load" ELSE b.copied
      /\ d.use = IF Writes(l, p, ins) THEN "written" ELSE IF Reads(l, p, ins) THEN "read" ELSE b.use
  BY <1>1 DEF After
<1>3. CASE Writes(l, p, ins)
  <2>1. b.use = "idle" BY <1>3 DEF Allowed
  <2>2. a.use = "idle" BY <2>1 DEF Together
  <2> QED BY <1>1, <1>2, <1>3, <2>2 DEF Together
<1>4. CASE ~ Writes(l, p, ins) /\ Reads(l, p, ins)
  <2>1. b.use # "written" BY <1>4 DEF Allowed
  <2>2. a.use # "written" BY <2>1 DEF Together
  <2>3. d.use = "read" /\ d.tile = b.tile /\ d.copied = b.copied BY <1>2, <1>4
  <2>4. a.use = "idle" \/ a.use = "read" BY <2>2 DEF PlaceStates
  <2> QED BY <1>1, <2>1, <2>3, <2>4 DEF Together
<1>5. CASE ~ Writes(l, p, ins) /\ ~ Reads(l, p, ins)
  <2>1. d.use = b.use /\ d.tile = b.tile /\ d.copied = b.copied BY <1>2, <1>5
  <2> QED BY <1>1, <2>1 DEF Together
<1> QED BY <1>3, <1>4, <1>5

\* Any number of them.
LEMMA SamePart ==
  ASSUME NEW l, NEW p, NEW s, Len(s) \in Nat, Disciplined(l, p, s),
         NEW i \in 0 .. Len(s), NEW k \in 0 .. Len(s), i <= k, NoSync(s, i + 1, k)
  PROVE  Together(Known(l, p, s)[i], Known(l, p, s)[k])
<1>0. PICK f : f = Known(l, p, s) OBVIOUS
<1>1. PICK m \in Nat : m = k - i /\ k = i + m
  <2>1. k - i \in Nat /\ k = i + (k - i) OBVIOUS
  <2> QED BY <2>1
<1> DEFINE S == {j \in Nat : j <= m => Together(f[i], f[i + j])}
<1>2. 0 \in S
  <2>1. i + 0 = i /\ Together(f[i], f[i]) BY DEF Together
  <2> QED BY <2>1
<1>3. ASSUME NEW j \in Nat, j < m, j \in S PROVE j + 1 \in S
  <2>1. PICK d \in Nat : d = i + j /\ d + 1 = i + (j + 1) /\ d + 1 \in 1 .. Len(s) /\ d \in 0 .. Len(s)
                         /\ d + 1 \in i + 1 .. k /\ (d + 1) - 1 = d
    <3>1. i + j \in Nat /\ (i + j) + 1 = i + (j + 1) BY <1>1
    <3>2. i + j < k BY <1>1, <1>3
    <3> QED BY <3>1, <3>2
  <2>2. f[d + 1] = After(l, p, s[d + 1], f[d]) /\ Allowed(l, p, s[d + 1], f[d])
    BY <1>0, <2>1, KnownIs DEF Disciplined
  <2>3. f[d] \in PlaceStates /\ f[i] \in PlaceStates BY <1>0, <2>1, KnownType
  <2>4. s[d + 1].op # "sync" BY <2>1 DEF NoSync
  <2>5. Together(f[i], f[d]) BY <1>3, <2>1
  <2>6. Together(f[i], f[d + 1]) BY <2>2, <2>3, <2>4, <2>5, TogetherAfter
  <2> QED BY <2>1, <2>6
<1>4. \A j \in 0 .. m : j \in S
  <2> HIDE DEF S
  <2> QED BY <1>2, <1>3, UpTo
<1>5. m \in S BY <1>4
<1> QED BY <1>0, <1>1, <1>5

-----------------------------------------------------------------------------
(* Two warps in the same code.                                             *)

\* Whoever used a place since the barrier knows the tile in it, and so does any warp
\* that is ahead of it by at most one barrier.
LEMMA AheadKnows ==
  ASSUME NEW l, NEW p, NEW s, Len(s) \in Nat, Disciplined(l, p, s),
         NEW i \in 0 .. Len(s), NEW k \in 0 .. Len(s), i <= k,
         \/ NoSync(s, i + 1, k)
         \/ i < k /\ NoSync(s, i + 1, k - 1) /\ s[k].op = "sync"
  PROVE  LET a == Known(l, p, s)[i]
             b == Known(l, p, s)[k]
         IN  a.use # "idle" =>
               /\ b.tile = a.tile /\ b.copied = a.copied
               /\ a.use = "read" => b.age < 0
<1>1. PICK f : f = Known(l, p, s) OBVIOUS
<1>2. f[i] \in PlaceStates /\ f[k] \in PlaceStates BY <1>1, KnownType
<1>3. CASE NoSync(s, i + 1, k)
  <2>1. Together(f[i], f[k]) BY <1>1, <1>3, SamePart
  <2> QED BY <1>1, <1>2, <2>1 DEF Together, PlaceStates
<1>4. CASE i < k /\ NoSync(s, i + 1, k - 1) /\ s[k].op = "sync"
  <2>1. PICK j \in 0 .. Len(s) : j = k - 1 /\ i <= j /\ k \in 1 .. Len(s) BY <1>4
  <2>2. Together(f[i], f[j]) BY <1>1, <1>4, <2>1, SamePart
  <2>3. f[j] \in PlaceStates BY <1>1, KnownType
  <2>4. f[k] = After(l, p, s[k], f[j]) BY <1>1, <2>1, KnownIs
  <2>5. f[k].tile = f[j].tile /\ f[k].copied = f[j].copied /\ f[k].age = f[j].age
    BY <1>4, <2>4 DEF After, Writes
  <2> QED BY <1>1, <1>2, <2>2, <2>3, <2>5 DEF Together, PlaceStates
<1> QED BY <1>3, <1>4

\* What a warp at i, which waits for no one, knows of the place its next instruction
\* reads, the others know as well.
LEMMA ReadersAgree ==
  ASSUME NEW l, NEW p, NEW s, Len(s) \in Nat, Disciplined(l, p, s),
         NEW i \in 0 .. Len(s), i < Len(s), Reads(l, p, s[i + 1]), NEW k \in 0 .. Len(s),
         \/ k <= i /\ NoSync(s, k + 1, i)
         \/ i < k /\ NoSync(s, i + 1, k)
         \/ i < k /\ NoSync(s, i + 1, k - 1) /\ s[k].op = "sync"
  PROVE  LET a == Known(l, p, s)[i]
             b == Known(l, p, s)[k]
         IN  b.tile = a.tile /\ b.age < 0
<1>1. PICK f : f = Known(l, p, s) OBVIOUS
<1>2. f[i] \in PlaceStates /\ f[k] \in PlaceStates BY <1>1, KnownType
<1>3. PICK j \in 1 .. Len(s) : j = i + 1 /\ j - 1 = i /\ j \in 0 .. Len(s) OBVIOUS
<1>4. f[j] = After(l, p, s[j], f[i]) /\ Allowed(l, p, s[j], f[i])
  BY <1>1, <1>3, KnownIs DEF Disciplined
<1>5. f[i].use # "written" BY <1>3, <1>4 DEF Allowed
<1>6. CASE k <= i /\ NoSync(s, k + 1, i)
  <2>1. Together(f[k], f[i]) BY <1>1, <1>6, SamePart
  <2> QED BY <1>1, <1>2, <1>5, <2>1 DEF Together, PlaceStates
<1>7. CASE i < k /\ (NoSync(s, i + 1, k) \/ (NoSync(s, i + 1, k - 1) /\ s[k].op = "sync"))
  <2>1. s[j].op # "sync" /\ ~ Writes(l, p, s[j]) BY <1>3 DEF Reads, Writes
  <2>2. f[j].use = "read" /\ f[j].tile = f[i].tile BY <1>3, <1>4, <2>1 DEF After
  <2>3. j <= k BY <1>3, <1>7
  <2>4. \/ NoSync(s, j + 1, k)
        \/ j < k /\ NoSync(s, j + 1, k - 1) /\ s[k].op = "sync"
    <3>1. j # k \/ s[k].op # "sync" BY <2>1
    <3>2. NoSync(s, i + 1, k) => NoSync(s, j + 1, k) BY <1>3 DEF NoSync
    <3>3. NoSync(s, i + 1, k - 1) => NoSync(s, j + 1, k - 1) BY <1>3 DEF NoSync
    <3>4. j = k => NoSync(s, j + 1, k) BY <1>3 DEF NoSync
    <3> QED BY <1>3, <1>7, <2>3, <3>1, <3>2, <3>3, <3>4
  <2> QED BY <1>1, <1>3, <2>2, <2>3, <2>4, AheadKnows
<1> QED BY <1>6, <1>7

\* Of the place its next instruction writes, the warps that are behind know what it
\* knows and have nothing in flight, and those that are ahead know what it will.
LEMMA WritersAgree ==
  ASSUME NEW l, NEW p, NEW s, Len(s) \in Nat, Disciplined(l, p, s),
         NEW i \in 0 .. Len(s), i < Len(s), Writes(l, p, s[i + 1]), NEW k \in 0 .. Len(s),
         \/ k <= i /\ NoSync(s, k + 1, i)
         \/ i < k /\ NoSync(s, i + 1, k)
         \/ i < k /\ NoSync(s, i + 1, k - 1) /\ s[k].op = "sync"
  PROVE  LET a == Known(l, p, s)[i]
             b == Known(l, p, s)[k]
         IN  IF k <= i THEN b.tile = a.tile /\ b.copied = a.copied /\ b.age < 0
             ELSE b.tile = s[i + 1].tile /\ b.copied = (s[i + 1].op = "load")
<1>1. PICK f : f = Known(l, p, s) OBVIOUS
<1>2. f[i] \in PlaceStates /\ f[k] \in PlaceStates BY <1>1, KnownType
<1>3. PICK j \in 1 .. Len(s) : j = i + 1 /\ j - 1 = i /\ j \in 0 .. Len(s) OBVIOUS
<1>4. f[j] = After(l, p, s[j], f[i]) /\ Allowed(l, p, s[j], f[i])
  BY <1>1, <1>3, KnownIs DEF Disciplined
<1>5. f[i].use = "idle" BY <1>3, <1>4 DEF Allowed
<1>6. CASE k <= i
  <2>1. Together(f[k], f[i]) BY <1>1, <1>6, SamePart
  <2> QED BY <1>1, <1>2, <1>5, <1>6, <2>1 DEF Together, PlaceStates
<1>7. CASE i < k
  <2>1. s[j].op # "sync" BY <1>3 DEF Writes
  <2>2. f[j].use = "written" /\ f[j].tile = s[j].tile /\ f[j].copied = (s[j].op = "load")
    BY <1>3, <1>4 DEF After
  <2>3. j <= k BY <1>3, <1>7
  <2>4. \/ NoSync(s, j + 1, k)
        \/ j < k /\ NoSync(s, j + 1, k - 1) /\ s[k].op = "sync"
    <3>1. j # k \/ s[k].op # "sync" BY <2>1
    <3>2. NoSync(s, i + 1, k) => NoSync(s, j + 1, k) BY <1>3 DEF NoSync
    <3>3. NoSync(s, i + 1, k - 1) => NoSync(s, j + 1, k - 1) BY <1>3 DEF NoSync
    <3>4. j = k => NoSync(s, j + 1, k) BY <1>3 DEF NoSync
    <3> QED BY <1>3, <1>7, <2>3, <3>1, <3>2, <3>3, <3>4
  <2> QED BY <1>1, <1>3, <1>7, <2>2, <2>3, <2>4, AheadKnows
<1> QED BY <1>6, <1>7

\* A warp that waits for no one is at most one barrier behind the others.
LEMMA Where ==
  ASSUME NEW s, NEW i \in Nat, NEW m \in Nat, NEW k \in Nat, NEW n \in Nat, n <= m,
         Between(s, i + 1, m, k + 1, n), Between(s, k + 1, n, i + 1, m)
  PROVE  \/ i <= k /\ NoSync(s, i + 1, k)
         \/ k < i /\ NoSync(s, k + 1, i)
         \/ k < i /\ NoSync(s, k + 1, i - 1) /\ s[i].op = "sync"
<1>1. (k + 1) - 1 = k /\ (i + 1) - 1 = i /\ (i + 1) - 2 = i - 1 OBVIOUS
<1>2. CASE m = n
  BY <1>1, <1>2 DEF Between
<1>3. CASE n < m
  BY <1>1, <1>3 DEF Between
<1> QED BY <1>2, <1>3

\* The warps stay in step when one that waits for no one makes a step.
LEMMA StillInStep ==
  ASSUME NEW s, NEW i \in Nat, NEW m \in Nat, NEW k \in Nat, NEW n \in Nat, n <= m,
         Between(s, i, m, k, n), Between(s, k, n, i, m)
  PROVE  LET n1 == IF s[k].op = "sync" THEN n + 1 ELSE n
         IN  Between(s, i, m, k + 1, n1) /\ Between(s, k + 1, n1, i, m)
<1>0. PICK k1 \in Nat : k1 = k + 1 /\ k1 - 1 = k /\ k1 - 2 = k - 1 OBVIOUS
<1>1. CASE s[k].op # "sync"
  <2>1. Between(s, i, m, k1, n)
    <3>1. ASSUME m = n, i <= k1 PROVE NoSync(s, i, k)
      <4>1. CASE i = k1 BY <1>0, <4>1 DEF NoSync
      <4>2. CASE i <= k
        <5>1. NoSync(s, i, k - 1) BY <3>1, <4>2 DEF Between
        <5> QED BY <1>1, <5>1 DEF NoSync
      <4> QED BY <1>0, <3>1, <4>1, <4>2
    <3> QED BY <1>0, <3>1 DEF Between
  <2>2. Between(s, k1, n, i, m)
    <3>1. ASSUME m = n, k1 <= i PROVE NoSync(s, k1, i - 1)
      <4>1. NoSync(s, k, i - 1) BY <1>0, <3>1 DEF Between
      <4> QED BY <1>0, <4>1 DEF NoSync
    <3>2. ASSUME n < m PROVE m = n + 1 /\ k1 < i /\ NoSync(s, k1, i - 2) /\ s[i - 1].op = "sync"
      <4>1. m = n + 1 /\ k < i /\ NoSync(s, k, i - 2) /\ s[i - 1].op = "sync" BY <3>2 DEF Between
      <4>2. k # i - 1 BY <1>1, <4>1
      <4>3. k1 < i BY <1>0, <4>1, <4>2
      <4> QED BY <1>0, <4>1, <4>3 DEF NoSync
    <3> QED BY <3>1, <3>2 DEF Between
  <2> QED BY <1>0, <1>1, <2>1, <2>2
<1>2. CASE s[k].op = "sync"
  <2>0. PICK n1 \in Nat : n1 = n + 1 OBVIOUS
  <2>1. CASE m = n
    <3>1. i <= k
      <4>1. ASSUME k < i PROVE FALSE
        <5>1. NoSync(s, k, i - 1) BY <2>1, <4>1 DEF Between
        <5> QED BY <1>2, <4>1, <5>1 DEF NoSync
      <4> QED BY <4>1
    <3>2. NoSync(s, i, k - 1) BY <2>1, <3>1 DEF Between
    <3>3. Between(s, i, m, k1, n1) BY <1>0, <1>2, <2>0, <2>1, <3>1, <3>2 DEF Between
    <3>4. Between(s, k1, n1, i, m) BY <2>0, <2>1 DEF Between
    <3> QED BY <1>0, <1>2, <2>0, <3>3, <3>4
  <2>2. CASE n < m
    <3>1. m = n + 1 /\ k < i /\ NoSync(s, k, i - 2) BY <2>2 DEF Between
    <3>2. i = k1
      <4>1. ASSUME k1 < i PROVE FALSE
        <5>1. k <= i - 2 BY <1>0, <4>1
        <5> QED BY <1>2, <3>1, <5>1 DEF NoSync
      <4> QED BY <1>0, <3>1, <4>1
    <3>3. NoSync(s, i, k1 - 1) /\ NoSync(s, k1, i - 1) BY <1>0, <3>2 DEF NoSync
    <3>4. m = n1 BY <2>0, <3>1
    <3> QED BY <1>0, <1>2, <2>0, <3>2, <3>3, <3>4 DEF Between
  <2> QED BY <2>1, <2>2
<1> QED BY <1>1, <1>2

-----------------------------------------------------------------------------
(* The copies of a warp, and what the discipline says of them.             *)

\* If nothing is in flight to a place, no copy outstanding reaches it.
LEMMA NoCopies ==
  ASSUME NEW l, NEW p, NEW a, a.age < 0, NEW issued, NEW committed, NEW T, committed \in Seq(T),
         CopiesKnown(l, p, a, issued, committed)
  PROVE  \A load \in issued \cup UNION Range(committed) : p \notin Places(l, load.buf)
<1>1. PICK d \in Nat : d = Len(committed) /\ DOMAIN committed = 1 .. d BY LenProperties
<1>2. ASSUME NEW load \in issued PROVE p \notin Places(l, load.buf)
  BY <1>2 DEF CopiesKnown, Covered
<1>3. ASSUME NEW load \in UNION Range(committed) PROVE p \notin Places(l, load.buf)
  <2>1. PICK g \in 1 .. d : load \in committed[g] BY <1>1, <1>3 DEF Range
  <2>2. a.age # d - g + 1 BY <1>1
  <2>3. ~ Covered(l, committed[g], p) BY <1>1, <2>2 DEF CopiesKnown
  <2> QED BY <2>1, <2>3 DEF Covered
<1> QED BY <1>2, <1>3

\* A load issues one.
LEMMA CopiesIssued ==
  ASSUME NEW l, NEW p, NEW ins, NEW a \in PlaceStates, Allowed(l, p, ins, a), ins.op = "load",
         NEW issued, NEW committed, NEW T, committed \in Seq(T),
         CopiesKnown(l, p, a, issued, committed)
  PROVE  CopiesKnown(l, p, After(l, p, ins, a), issued \cup {ins}, committed)
<1>1. PICK b : b = After(l, p, ins, a) OBVIOUS
<1>2. PICK d \in Nat : d = Len(committed) BY LenProperties
<1>3. b.depth = a.depth BY <1>1 DEF After
<1>4. CASE Writes(l, p, ins)
  <2>1. a.age < 0
    <3>1. a.use = "idle" BY <1>4 DEF Allowed
    <3> QED BY <3>1 DEF PlaceStates
  <2>2. \A load \in issued \cup UNION Range(committed) : p \notin Places(l, load.buf)
    BY <2>1, NoCopies
  <2>3. b.age = 0 /\ b.tile = ins.tile BY <1>1, <1>4 DEF After
  <2>4. \A g \in 1 .. d : ~ Covered(l, committed[g], p)
    BY <1>2, <2>1 DEF CopiesKnown
  <2>5. p \in Places(l, ins.buf) BY <1>4 DEF Writes
  <2>6. Covered(l, issued \cup {ins}, p) BY <2>5 DEF Covered
  <2>7. \A g \in 1 .. d : b.age # d - g + 1 BY <2>3
  <2>8. \A load \in (issued \cup {ins}) \cup UNION Range(committed) :
          p \in Places(l, load.buf) => load.tile = b.tile
    BY <2>2, <2>3
  <2>9. b.depth = d BY <1>2, <1>3 DEF CopiesKnown
  <2> QED BY <1>1, <1>2, <2>3, <2>4, <2>6, <2>7, <2>8, <2>9 DEF CopiesKnown
<1>5. CASE ~ Writes(l, p, ins)
  <2>1. p \notin Places(l, ins.buf) BY <1>5 DEF Writes
  <2>2. b.age = a.age /\ b.tile = a.tile BY <1>1, <1>5 DEF After
  <2>3. Covered(l, issued \cup {ins}, p) <=> Covered(l, issued, p) BY <2>1 DEF Covered
  <2>4. \A load \in (issued \cup {ins}) \cup UNION Range(committed) :
          p \in Places(l, load.buf) => load.tile = b.tile
    BY <2>1, <2>2 DEF CopiesKnown
  <2> QED BY <1>1, <1>3, <2>2, <2>3, <2>4 DEF CopiesKnown
<1> QED BY <1>4, <1>5

\* A commit makes a group of those issued.
LEMMA CopiesCommitted ==
  ASSUME NEW l, NEW p, NEW ins, NEW a \in PlaceStates, ins.op = "commit",
         NEW issued, NEW committed, NEW T, committed \in Seq(T), issued \in T,
         CopiesKnown(l, p, a, issued, committed)
  PROVE  CopiesKnown(l, p, After(l, p, ins, a), {}, Append(committed, issued))
<1>1. PICK b : b = After(l, p, ins, a) OBVIOUS
<1>2. PICK d \in Nat : d = Len(committed) /\ DOMAIN committed = 1 .. d BY LenProperties
<1>3. PICK groups1 : groups1 = Append(committed, issued) OBVIOUS
<1>4. PICK d1 \in Nat : d1 = d + 1 OBVIOUS
<1>5. /\ Len(groups1) = d1 /\ DOMAIN groups1 = 1 .. d1
      /\ groups1[d1] = issued /\ \A g \in 1 .. d : groups1[g] = committed[g]
  BY <1>2, <1>3, <1>4, AppendProperties, LenProperties
<1>6. a.age \in -1 .. 2 /\ a.depth \in 0 .. 2 BY DEF PlaceStates
<1>7. /\ b.tile = a.tile /\ b.depth = a.depth + 1
      /\ b.age = IF a.age >= 0 THEN a.age + 1 ELSE a.age
  BY <1>1 DEF After, Writes
<1>8. b.depth = d1 BY <1>2, <1>4, <1>7 DEF CopiesKnown
<1>9. b.age # 0 /\ ~ Covered(l, {}, p) BY <1>6, <1>7 DEF Covered
<1>10. ASSUME NEW g \in 1 .. d1 PROVE b.age = d1 - g + 1 <=> Covered(l, groups1[g], p)
  <2>1. CASE g = d1
    <3>1. b.age = d1 - g + 1 <=> a.age = 0 BY <1>4, <1>6, <1>7, <2>1
    <3> QED BY <1>5, <2>1, <3>1 DEF CopiesKnown
  <2>2. CASE g \in 1 .. d
    <3>1. b.age = d1 - g + 1 <=> a.age = d - g + 1 BY <1>4, <1>6, <1>7, <2>2
    <3> QED BY <1>2, <1>5, <2>2, <3>1 DEF CopiesKnown
  <2> QED BY <1>4, <2>1, <2>2
<1>11. ASSUME NEW load \in {} \cup UNION Range(groups1), p \in Places(l, load.buf)
       PROVE  load.tile = b.tile
  <2>1. PICK g \in 1 .. d1 : load \in groups1[g] BY <1>5, <1>11 DEF Range
  <2>2. load \in issued \cup UNION Range(committed)
    <3>1. CASE g = d1 BY <1>5, <2>1, <3>1
    <3>2. CASE g \in 1 .. d
      <4>1. committed[g] \in Range(committed) BY <1>2, <3>2 DEF Range
      <4> QED BY <1>5, <2>1, <3>2, <4>1
    <3> QED BY <1>4, <3>1, <3>2
  <2> QED BY <1>7, <1>11, <2>2 DEF CopiesKnown
<1> HIDE DEF CopiesKnown
<1> QED BY <1>1, <1>3, <1>5, <1>8, <1>9, <1>10, <1>11 DEF CopiesKnown

\* A wait leaves the last groups.
LEMMA CopiesLeft ==
  ASSUME NEW l, NEW p, NEW ins, NEW a \in PlaceStates, ins.op = "wait", ins.n \in Nat,
         NEW issued, NEW committed, NEW T, committed \in Seq(T),
         CopiesKnown(l, p, a, issued, committed)
  PROVE  LET last == Len(committed) - ins.n
         IN  CopiesKnown(l, p, After(l, p, ins, a), issued,
                         SubSeq(committed, (IF last < 0 THEN 0 ELSE last) + 1, Len(committed)))
<1>1. PICK b : b = After(l, p, ins, a) OBVIOUS
<1>2. PICK d \in Nat : d = Len(committed) /\ DOMAIN committed = 1 .. d BY LenProperties
<1>3. PICK n \in Nat : n = ins.n OBVIOUS
<1>4. PICK e \in Nat : e = IF d - n < 0 THEN 0 ELSE d - n
  <2>1. (IF d - n < 0 THEN 0 ELSE d - n) \in Nat OBVIOUS
  <2> QED BY <2>1
<1>5. PICK left : left = SubSeq(committed, e + 1, d) OBVIOUS
<1>6. PICK d1 \in Nat : d1 = d - e
  <2>1. d - e \in Nat BY <1>4
  <2> QED BY <2>1
<1>7. Len(left) = d1 /\ DOMAIN left = 1 .. d1 /\ \A g \in 1 .. d1 : left[g] = committed[g + e]
  <2>1. e + 1 \in Int /\ d \in Int /\ \A g \in e + 1 .. d : g \in 1 .. d OBVIOUS
  <2>2. \A g \in e + 1 .. d : committed[g] \in T BY <1>2, <2>1, ElementOfSeq
  <2>3. /\ left \in Seq(T) /\ Len(left) = IF e + 1 <= d THEN d - (e + 1) + 1 ELSE 0
        /\ \A g \in 1 .. d - (e + 1) + 1 : left[g] = committed[(e + 1) + g - 1]
    BY <1>5, <2>1, <2>2, SubSeqProperties
  <2>4. d - (e + 1) + 1 = d1 BY <1>6
  <2>5. Len(left) = d1 BY <1>6, <2>3, <2>4
  <2>6. \A g \in 1 .. d1 : (e + 1) + g - 1 = g + e OBVIOUS
  <2> QED BY <2>3, <2>4, <2>5, <2>6, LenProperties
<1>8. a.age \in -1 .. 2 /\ a.depth \in 0 .. 2 BY DEF PlaceStates
<1>9. /\ b.tile = a.tile /\ b.depth = IF a.depth > n THEN n ELSE a.depth
      /\ b.age = IF a.age > n THEN -1 ELSE a.age
  BY <1>1, <1>3 DEF After, Writes
<1>10. a.depth = d BY <1>2 DEF CopiesKnown
<1>11. b.depth = d1 BY <1>4, <1>6, <1>9, <1>10
<1>12. b.age = 0 <=> Covered(l, issued, p)
  <2>1. b.age = 0 <=> a.age = 0 BY <1>8, <1>9
  <2> QED BY <2>1 DEF CopiesKnown
<1>13. ASSUME NEW g \in 1 .. d1 PROVE b.age = d1 - g + 1 <=> Covered(l, left[g], p)
  <2>1. g + e \in 1 .. d BY <1>6
  <2>2. a.age = d - (g + e) + 1 <=> Covered(l, left[g], p) BY <1>2, <1>7, <2>1 DEF CopiesKnown
  <2>3. d - (g + e) + 1 = d1 - g + 1 BY <1>6
  <2>4. d1 - g + 1 <= n BY <1>4, <1>6
  <2>5. d1 - g + 1 >= 1 OBVIOUS
  <2>6. b.age = d1 - g + 1 <=> a.age = d1 - g + 1 BY <1>8, <1>9, <2>4, <2>5
  <2> QED BY <2>2, <2>3, <2>6
<1>14. ASSUME NEW load \in issued \cup UNION Range(left), p \in Places(l, load.buf)
       PROVE  load.tile = b.tile
  <2>1. load \in issued \cup UNION Range(committed)
    <3>1. CASE load \in issued BY <3>1
    <3>2. CASE load \in UNION Range(left)
      <4>1. PICK g \in 1 .. d1 : load \in left[g] BY <1>7, <3>2 DEF Range
      <4>2. g + e \in 1 .. d BY <1>6
      <4>3. committed[g + e] \in Range(committed) BY <1>2, <4>2 DEF Range
      <4> QED BY <1>7, <4>1, <4>3
    <3> QED BY <1>14, <3>1, <3>2
  <2> QED BY <1>9, <1>14, <2>1 DEF CopiesKnown
<1>15. CopiesKnown(l, p, b, issued, left)
  BY <1>7, <1>11, <1>12, <1>13, <1>14 DEF CopiesKnown
<1> QED BY <1>1, <1>2, <1>3, <1>4, <1>5, <1>15

\* Other instructions change none.
LEMMA CopiesSame ==
  ASSUME NEW l, NEW p, NEW ins, NEW a \in PlaceStates, Allowed(l, p, ins, a),
         ins.op \notin {"load", "commit", "wait"},
         NEW issued, NEW committed, NEW T, committed \in Seq(T),
         CopiesKnown(l, p, a, issued, committed)
  PROVE  CopiesKnown(l, p, After(l, p, ins, a), issued, committed)
<1>1. PICK b : b = After(l, p, ins, a) OBVIOUS
<1>2. a.age \in -1 .. 2 BY DEF PlaceStates
<1>3. CASE Writes(l, p, ins)
  <2>1. a.age = -1
    <3>1. a.use = "idle" BY <1>3 DEF Allowed
    <3> QED BY <3>1 DEF PlaceStates
  <2>2. \A load \in issued \cup UNION Range(committed) : p \notin Places(l, load.buf)
    <3>1. a.age < 0 BY <2>1
    <3> QED BY <3>1, NoCopies
  <2>3. b.age = a.age /\ b.depth = a.depth BY <1>1, <1>3, <2>1 DEF After
  <2> QED BY <1>1, <2>2, <2>3 DEF CopiesKnown
<1>4. CASE ~ Writes(l, p, ins)
  <2>1. b.age = a.age /\ b.depth = a.depth /\ b.tile = a.tile BY <1>1, <1>4 DEF After
  <2> QED BY <1>1, <2>1 DEF CopiesKnown
<1> QED BY <1>3, <1>4

\* The copies of the first groups.
FirstGroups(committed, k) == UNION {committed[g] : g \in 1 .. k}

\* What a wait completes is what it ends.
LEMMA CopiesDone ==
  ASSUME NEW l, NEW p, NEW n \in Nat, NEW a \in PlaceStates,
         NEW issued, NEW committed, NEW T, committed \in Seq(T),
         CopiesKnown(l, p, a, issued, committed),
         NEW done, done = FirstGroups(committed, Len(committed) - n)
  PROVE  /\ (\E load \in done : p \in Places(l, load.buf)) <=> a.age > n
         /\ \A load \in done : p \in Places(l, load.buf) => load.tile = a.tile
<1>1. PICK d \in Nat : d = Len(committed) /\ DOMAIN committed = 1 .. d BY LenProperties
<1>3. a.age \in -1 .. 2 /\ a.depth \in 0 .. 2 /\ a.age <= a.depth /\ a.depth = d
  BY <1>1 DEF PlaceStates, CopiesKnown
<1>4. \A g \in 1 .. d - n : g \in 1 .. d OBVIOUS
<1>5. ASSUME NEW load \in done, p \in Places(l, load.buf) PROVE a.age > n /\ load.tile = a.tile
  <2>1. PICK g \in 1 .. d - n : load \in committed[g] BY <1>1, <1>5 DEF FirstGroups
  <2>2. g \in 1 .. d BY <1>4
  <2>3. Covered(l, committed[g], p) BY <1>5, <2>1 DEF Covered
  <2>4. a.age = d - g + 1 BY <1>1, <2>2, <2>3 DEF CopiesKnown
  <2>5. committed[g] \in Range(committed) BY <1>1, <2>2 DEF Range
  <2>6. load.tile = a.tile BY <1>5, <2>1, <2>5 DEF CopiesKnown
  <2> QED BY <2>1, <2>4, <2>6
<1>6. ASSUME a.age > n PROVE \E load \in done : p \in Places(l, load.buf)
  <2>1. PICK g \in 1 .. d - n : a.age = d - g + 1
    <3>1. d - a.age + 1 \in 1 .. d - n /\ a.age = d - (d - a.age + 1) + 1 BY <1>3, <1>6
    <3> QED BY <3>1
  <2>2. Covered(l, committed[g], p) BY <1>1, <1>4, <2>1 DEF CopiesKnown
  <2>3. PICK load \in committed[g] : p \in Places(l, load.buf) BY <2>2 DEF Covered
  <2>4. load \in done BY <1>1, <2>1, <2>3 DEF FirstGroups
  <2> QED BY <2>3, <2>4
<1> QED BY <1>5, <1>6

-----------------------------------------------------------------------------
(* What the cells hold when a warp makes a step.                           *)

\* No tile is taken for a copy in flight or for a cell that is torn.
LEMMA TilesApart == InFlight \notin TileSet /\ Torn \notin TileSet
BY DEF TileSet, InFlight, Torn, Tile

\* An instruction that does nothing to a place changes no cell of it: those the warp
\* at i both copies and computes with, copies, or computes with, together with a warp
\* at k.
LEMMA CellsKept ==
  ASSUME NEW l, NEW p, NEW s, Len(s) \in Nat, Disciplined(l, p, s),
         NEW i \in 0 .. Len(s), i < Len(s), ~ Writes(l, p, s[i + 1]), NEW k \in 0 .. Len(s),
         s[i + 1].op = "wait" => ~ (Known(l, p, s)[i].age > s[i + 1].n)
  PROVE  LET a == Known(l, p, s)[i]
             a1 == Known(l, p, s)[i + 1]
             b == Known(l, p, s)[k]
         IN  /\ Held(a1, a1, i + 1, i + 1) = Held(a, a, i, i)
             /\ Held(a1, b, i + 1, k) = Held(a, b, i, k)
             /\ Held(b, a1, k, i + 1) = Held(b, a, k, i)
<1>1. PICK f : f = Known(l, p, s) OBVIOUS
<1>2. PICK a, a1, b : a = f[i] /\ a1 = f[i + 1] /\ b = f[k] OBVIOUS
<1>3. PICK j \in 1 .. Len(s) : j = i + 1 /\ j - 1 = i OBVIOUS
<1>4. a1 = After(l, p, s[j], a) BY <1>1, <1>2, <1>3, KnownIs
<1>5. a \in PlaceStates BY <1>1, <1>2, KnownType
<1>6. a.age \in -1 .. 2 BY <1>5 DEF PlaceStates
<1>7. a1.tile = a.tile /\ a1.copied = a.copied BY <1>3, <1>4 DEF After
<1>8. a1.age = IF s[j].op = "commit" /\ a.age >= 0 THEN a.age + 1 ELSE a.age
  BY <1>1, <1>2, <1>3, <1>4 DEF After
<1>9. a1.age >= 0 <=> a.age >= 0 BY <1>6, <1>8
<1>10. k = j => b = a1 BY <1>2, <1>3
<1>11. k = i => b = a BY <1>2
<1>12. i + 1 >= k <=> i >= k \/ k = j BY <1>3
<1>13. k >= i <=> k >= i + 1 \/ k = i OBVIOUS
<1>14. ~ (i >= j) /\ ~ (i >= i + 1) /\ i >= i BY <1>3
<1>15. Held(a1, a1, i + 1, i + 1) = Held(a, a, i, i) BY <1>7, <1>9 DEF Held
<1>16. Held(a1, b, i + 1, k) = Held(a, b, i, k)
  <2>1. (IF i + 1 >= k THEN a1.copied ELSE b.copied) = (IF i >= k THEN a.copied ELSE b.copied)
    BY <1>7, <1>10, <1>12
  <2> QED BY <1>7, <1>9, <2>1 DEF Held
<1>17. Held(b, a1, k, i + 1) = Held(b, a, k, i)
  <2>1. (IF k >= i + 1 THEN b.copied ELSE a1.copied) = (IF k >= i THEN b.copied ELSE a.copied)
    BY <1>7, <1>11, <1>13
  <2> QED BY <1>7, <2>1 DEF Held
<1> QED BY <1>1, <1>2, <1>15, <1>16, <1>17

\* A wait that ends the copy to a place lets it arrive in every cell the warp copies.
LEMMA CellsArrive ==
  ASSUME NEW l, NEW p, NEW s, Len(s) \in Nat, Disciplined(l, p, s),
         NEW i \in 0 .. Len(s), i < Len(s), s[i + 1].op = "wait",
         Known(l, p, s)[i].age > s[i + 1].n, NEW k \in 0 .. Len(s),
         \/ k <= i
         \/ i < k /\ NoSync(s, i + 1, k)
         \/ i < k /\ NoSync(s, i + 1, k - 1) /\ s[k].op = "sync"
  PROVE  LET a == Known(l, p, s)[i]
             a1 == Known(l, p, s)[i + 1]
             b == Known(l, p, s)[k]
         IN  /\ Held(a, a, i, i) = InFlight /\ Held(a1, a1, i + 1, i + 1) = a.tile
             /\ Held(a, b, i, k) = InFlight /\ Held(a1, b, i + 1, k) = a.tile
             /\ Held(b, a1, k, i + 1) = Held(b, a, k, i)
<1>1. PICK f : f = Known(l, p, s) OBVIOUS
<1>2. PICK a, a1, b : a = f[i] /\ a1 = f[i + 1] /\ b = f[k] OBVIOUS
<1>3. PICK j \in 1 .. Len(s) : j = i + 1 /\ j - 1 = i OBVIOUS
<1>4. a1 = After(l, p, s[j], a) /\ Allowed(l, p, s[j], a)
  BY <1>1, <1>2, <1>3, KnownIs DEF Disciplined
<1>5. a \in PlaceStates BY <1>1, <1>2, KnownType
<1>6. s[j].n \in Nat BY <1>3, <1>4 DEF Allowed
<1>7. a.age >= 0 /\ a.copied /\ a.use = "written" BY <1>1, <1>2, <1>3, <1>5, <1>6 DEF PlaceStates
<1>8. a1.tile = a.tile /\ a1.copied = a.copied /\ ~ (a1.age >= 0)
  BY <1>1, <1>2, <1>3, <1>4 DEF After, Writes
<1>9. ASSUME i < k PROVE b.copied = a.copied
  <2>1. i <= k /\ a.use # "idle" BY <1>7, <1>9
  <2>2. \/ NoSync(s, i + 1, k)
        \/ i < k /\ NoSync(s, i + 1, k - 1) /\ s[k].op = "sync"
    BY <1>9
  <2> QED BY <1>1, <1>2, <2>1, <2>2, AheadKnows
<1>10. k = i => b = a BY <1>2
<1>11. ~ (i >= k) => i < k OBVIOUS
<1>12. ~ (i + 1 >= k) => i < k OBVIOUS
<1>13. k >= i <=> k >= i + 1 \/ k = i OBVIOUS
<1>14. Held(a, a, i, i) = InFlight /\ Held(a1, a1, i + 1, i + 1) = a.tile BY <1>7, <1>8 DEF Held
<1>15. Held(a, b, i, k) = InFlight BY <1>7, <1>9, <1>11 DEF Held
<1>16. Held(a1, b, i + 1, k) = a.tile BY <1>7, <1>8, <1>9, <1>12 DEF Held
<1>17. Held(b, a1, k, i + 1) = Held(b, a, k, i)
  <2>1. (IF k >= i + 1 THEN b.copied ELSE a1.copied) = (IF k >= i THEN b.copied ELSE a.copied)
    BY <1>8, <1>10, <1>13
  <2> QED BY <1>8, <2>1 DEF Held
<1> QED BY <1>1, <1>2, <1>14, <1>15, <1>16, <1>17

\* What is written to a place replaces a tile, not a copy in flight, and reaches the
\* cells the warp writes and no other.
LEMMA CellsWritten ==
  ASSUME NEW l, NEW p, NEW s, Len(s) \in Nat, Disciplined(l, p, s),
         NEW i \in 0 .. Len(s), i < Len(s), Writes(l, p, s[i + 1]), NEW k \in 0 .. Len(s),
         \/ k <= i /\ NoSync(s, k + 1, i)
         \/ i < k /\ NoSync(s, i + 1, k)
         \/ i < k /\ NoSync(s, i + 1, k - 1) /\ s[k].op = "sync"
  PROVE  LET a == Known(l, p, s)[i]
             a1 == Known(l, p, s)[i + 1]
             b == Known(l, p, s)[k]
         IN  /\ Held(a, a, i, i) \in TileSet
             /\ s[i + 1].op = "load" =>
                  /\ Held(a1, a1, i + 1, i + 1) = InFlight
                  /\ Held(a, b, i, k) \in TileSet /\ Held(a1, b, i + 1, k) = InFlight
                  /\ Held(b, a1, k, i + 1) = Held(b, a, k, i)
             /\ s[i + 1].op = "put" =>
                  /\ Held(a1, a1, i + 1, i + 1) = s[i + 1].tile
                  /\ Held(b, a, k, i) \in TileSet /\ Held(b, a1, k, i + 1) = s[i + 1].tile
                  /\ Held(a1, b, i + 1, k) = Held(a, b, i, k)
<1>1. PICK f : f = Known(l, p, s) OBVIOUS
<1>2. PICK a, a1, b : a = f[i] /\ a1 = f[i + 1] /\ b = f[k] OBVIOUS
<1>3. PICK j \in 1 .. Len(s) : j = i + 1 /\ j - 1 = i OBVIOUS
<1>4. a1 = After(l, p, s[j], a) /\ Allowed(l, p, s[j], a)
  BY <1>1, <1>2, <1>3, KnownIs DEF Disciplined
<1>5. a \in PlaceStates BY <1>1, <1>2, KnownType
<1>6. a.tile \in TileSet /\ ~ (a.age >= 0)
  <2>1. a.use = "idle" BY <1>3, <1>4 DEF Allowed
  <2> QED BY <1>5, <2>1 DEF PlaceStates
<1>7. /\ a1.tile = s[j].tile /\ a1.copied = (s[j].op = "load")
      /\ s[j].op = "load" => a1.age = 0
  BY <1>3, <1>4 DEF After
<1>8. IF k <= i THEN b.tile = a.tile /\ b.copied = a.copied /\ ~ (b.age >= 0)
      ELSE b.tile = s[j].tile /\ b.copied = (s[j].op = "load")
  <2>1. f[k] \in PlaceStates BY <1>1, KnownType
  <2>2. b.age \in -1 .. 2 BY <1>2, <2>1 DEF PlaceStates
  <2>3. IF k <= i THEN b.tile = a.tile /\ b.copied = a.copied /\ b.age < 0
        ELSE b.tile = s[j].tile /\ b.copied = (s[j].op = "load")
    BY <1>1, <1>2, <1>3, WritersAgree
  <2> QED BY <2>2, <2>3
<1>9. Held(a, a, i, i) \in TileSet BY <1>6 DEF Held
<1>10. /\ i >= k <=> k <= i
       /\ ~ (i + 1 >= k) => ~ (k <= i)
       /\ k >= i + 1 <=> ~ (k <= i)
       /\ k = i \/ (k >= i <=> ~ (k <= i))
       /\ k = i => b = a /\ k <= i /\ k >= i
  BY <1>2
<1>11. ASSUME s[j].op = "load"
       PROVE  /\ Held(a1, a1, i + 1, i + 1) = InFlight
              /\ Held(a, b, i, k) \in TileSet /\ Held(a1, b, i + 1, k) = InFlight
              /\ Held(b, a1, k, i + 1) = Held(b, a, k, i)
  <2>1. a1.copied /\ a1.age >= 0
    <3>1. a1.copied BY <1>7, <1>11, Zenon
    <3>2. a1.age >= 0 BY <1>7, <1>11
    <3> QED BY <3>1, <3>2
  <2>2. Held(a1, a1, i + 1, i + 1) = InFlight BY <2>1 DEF Held
  <2>3. Held(a, b, i, k) \in TileSet BY <1>6, <1>8, <1>10, <1>11 DEF Held
  <2>4. Held(a1, b, i + 1, k) = InFlight BY <1>8, <1>10, <1>11, <2>1 DEF Held
  <2>5. Held(b, a1, k, i + 1) = Held(b, a, k, i)
    <3>1. CASE k <= i
      <4>1. Held(b, a1, k, i + 1) = b.tile BY <1>8, <1>10, <2>1, <3>1 DEF Held
      <4>2. Held(b, a, k, i) = a.tile BY <1>6, <1>8, <1>10, <3>1 DEF Held
      <4> QED BY <1>8, <3>1, <4>1, <4>2
    <3>2. CASE ~ (k <= i)
      <4>1. k >= i BY <3>2
      <4> QED BY <1>10, <3>2, <4>1, <1>8, <1>11 DEF Held
    <3> QED BY <3>1, <3>2
  <2> QED BY <2>2, <2>3, <2>4, <2>5
<1>12. ASSUME s[j].op = "put"
       PROVE  /\ Held(a1, a1, i + 1, i + 1) = s[j].tile
              /\ Held(b, a, k, i) \in TileSet /\ Held(b, a1, k, i + 1) = s[j].tile
              /\ Held(a1, b, i + 1, k) = Held(a, b, i, k)
  <2>1. ~ a1.copied BY <1>7, <1>12
  <2>2. Held(a1, a1, i + 1, i + 1) = s[j].tile BY <1>7, <2>1 DEF Held
  <2>3. Held(b, a, k, i) \in TileSet
    <3>1. CASE k <= i BY <1>6, <1>8, <1>10, <3>1 DEF Held
    <3>2. CASE ~ (k <= i)
      <4>0. k >= i BY <3>2
      <4>1. ~ b.copied /\ k >= i BY <1>8, <1>12, <3>2, <4>0
      <4> QED BY <1>6, <4>1 DEF Held
    <3> QED BY <3>1, <3>2
  <2>4. Held(b, a1, k, i + 1) = s[j].tile
    <3>1. CASE k <= i BY <1>7, <1>10, <2>1, <3>1 DEF Held
    <3>2. CASE ~ (k <= i)
      <4>1. ~ b.copied BY <1>8, <1>12, <3>2
      <4> QED BY <1>7, <2>1, <4>1 DEF Held
    <3> QED BY <3>1, <3>2
  <2>5. Held(a1, b, i + 1, k) = Held(a, b, i, k)
    <3>1. CASE k <= i
      <4>1. i + 1 >= k /\ i >= k BY <3>1
      <4>2. Held(a1, b, i + 1, k) = b.tile BY <2>1, <4>1 DEF Held
      <4>3. Held(a, b, i, k) = a.tile BY <1>6, <1>8, <3>1, <4>1 DEF Held
      <4> QED BY <1>8, <3>1, <4>2, <4>3
    <3>2. CASE ~ (k <= i)
      <4>1. ~ b.copied /\ ~ (i >= k) BY <1>8, <1>12, <3>2
      <4>2. Held(a1, b, i + 1, k) = b.tile BY <2>1, <4>1 DEF Held
      <4>3. Held(a, b, i, k) = b.tile BY <4>1 DEF Held
      <4> QED BY <4>2, <4>3
    <3> QED BY <3>1, <3>2
  <2> QED BY <2>2, <2>3, <2>4, <2>5
<1> QED BY <1>1, <1>2, <1>3, <1>9, <1>11, <1>12

-----------------------------------------------------------------------------
(* Pieces of code that keep the discipline.                                 *)

\* The states of a place with tile t, use in U, a copy of age g, and d groups of
\* copies outstanding.
At(t, U, g, d) == {a \in PlaceStates : a.tile = t /\ a.use \in U /\ a.age = g /\ a.depth = d}

\* The state may be written; may be read; holds what one warp has put there; a copy
\* to it was issued.
Unused(t, d) == At(t, {"idle"}, -1, d)
Readable(t, d) == At(t, {"idle", "read"}, -1, d)
Stored(t, d) == At(t, {"written"}, -1, d)
Coming(t, g, d) == At(t, {"written"}, g, d)

\* From state a of place p, the piece s keeps the discipline and ends in B.
Leads(l, p, a, s, B) ==
  /\ s \in Seq(Range(s))
  /\ \E f : /\ f[0] = a /\ f[Len(s)] \in B
            /\ \A k \in 1 .. Len(s) : /\ Allowed(l, p, s[k], f[k - 1])
                                      /\ f[k] = After(l, p, s[k], f[k - 1])

\* The empty piece.
LEMMA LeadsNone ==
  ASSUME NEW l, NEW p, NEW B, NEW a \in B
  PROVE  Leads(l, p, a, <<>>, B)
<1>1. PICK f : f = [k \in 0 .. 0 |-> a] OBVIOUS
<1>2. f[0] = a BY <1>1
<1>3. Len(<<>>) = 0 /\ 1 .. 0 = {} /\ <<>> \in Seq(Range(<<>>)) OBVIOUS
<1> QED BY <1>2, <1>3 DEF Leads

\* One instruction.
LEMMA LeadsOne ==
  ASSUME NEW l, NEW p, NEW B, NEW a, NEW ins, Allowed(l, p, ins, a), After(l, p, ins, a) \in B
  PROVE  Leads(l, p, a, <<ins>>, B)
<1>0. PICK s : s = <<ins>> OBVIOUS
<1>1. PICK f : f = [k \in 0 .. 1 |-> IF k = 0 THEN a ELSE After(l, p, ins, a)] OBVIOUS
<1>2. f[0] = a /\ f[1] = After(l, p, ins, a) BY <1>1
<1>3. Len(s) = 1 /\ s[1] = ins /\ DOMAIN s = {1} BY <1>0
<1>4. s \in Seq(Range(s))
  <2>1. Range(s) = {ins} BY <1>3 DEF Range
  <2> QED BY <1>0, <2>1
<1>5. \A k \in 1 .. Len(s) : k = 1 /\ k - 1 = 0 BY <1>3
<1> QED BY <1>0, <1>2, <1>3, <1>4, <1>5 DEF Leads

\* It may end in more states than it does.
LEMMA LeadsMore ==
  ASSUME NEW l, NEW p, NEW B, NEW C, NEW a, NEW s, Leads(l, p, a, s, B), B \subseteq C
  PROVE  Leads(l, p, a, s, C)
BY DEF Leads

\* Under a condition.
LEMMA LeadsIf ==
  ASSUME NEW l, NEW p, NEW B, NEW a, NEW s, NEW condition \in BOOLEAN,
         condition => Leads(l, p, a, s, B), ~ condition => a \in B
  PROVE  Leads(l, p, a, If(condition, s), B)
BY LeadsNone DEF If

\* One piece after the other.
LEMMA LeadsJoin ==
  ASSUME NEW l, NEW p, NEW B, NEW C, NEW a, NEW s, NEW t,
         Leads(l, p, a, s, B), \A b \in B : Leads(l, p, b, t, C)
  PROVE  Leads(l, p, a, s \o t, C)
<1>1. PICK T : T = Range(s) \cup Range(t) OBVIOUS
<1>2. s \in Seq(T) /\ t \in Seq(T)
  <2>1. PICK f : f[Len(s)] \in B BY DEF Leads
  <2>2. s \in Seq(Range(s)) /\ t \in Seq(Range(t)) BY <2>1 DEF Leads
  <2>3. \A X, Y : X \subseteq Y => Seq(X) \subseteq Seq(Y) OBVIOUS
  <2> QED BY <1>1, <2>2, <2>3
<1>3. Range(s \o t) = T BY <1>1, <1>2, JoinRange
<1>4. PICK m \in Nat, n \in Nat : m = Len(s) /\ n = Len(t) BY <1>2, LenProperties
<1>5. PICK r : r = s \o t OBVIOUS
<1>6. /\ r \in Seq(T) /\ Len(r) = m + n
      /\ \A k \in 1 .. m + n : r[k] = IF k <= m THEN s[k] ELSE t[k - m]
  BY <1>2, <1>4, <1>5, ConcatProperties
<1>7. PICK f : /\ f[0] = a /\ f[m] \in B
               /\ \A k \in 1 .. m : Allowed(l, p, s[k], f[k - 1]) /\ f[k] = After(l, p, s[k], f[k - 1])
  BY <1>4 DEF Leads
<1>8. PICK g : /\ g[0] = f[m] /\ g[n] \in C
               /\ \A k \in 1 .. n : Allowed(l, p, t[k], g[k - 1]) /\ g[k] = After(l, p, t[k], g[k - 1])
  BY <1>4, <1>7 DEF Leads
<1>9. PICK h : h = [k \in 0 .. m + n |-> IF k <= m THEN f[k] ELSE g[k - m]] OBVIOUS
<1>10. h[0] = a BY <1>7, <1>9
<1>11. h[m + n] \in C
  <2>1. CASE n = 0
    <3>1. h[m + n] = f[m] BY <1>9, <2>1
    <3> QED BY <1>8, <2>1, <3>1
  <2>2. CASE n # 0
    <3>1. m + n \in 0 .. m + n /\ ~ (m + n <= m) /\ (m + n) - m = n BY <2>2
    <3>2. h[m + n] = g[n] BY <1>9, <3>1
    <3> QED BY <1>8, <3>2
  <2> QED BY <2>1, <2>2
<1>12. ASSUME NEW k \in 1 .. m + n
       PROVE  Allowed(l, p, r[k], h[k - 1]) /\ h[k] = After(l, p, r[k], h[k - 1])
  <2>1. CASE k <= m
    <3>1. k \in 1 .. m /\ k - 1 \in 0 .. m + n /\ k - 1 <= m /\ k \in 0 .. m + n BY <2>1
    <3>2. r[k] = s[k] /\ h[k] = f[k] /\ h[k - 1] = f[k - 1] BY <1>6, <1>9, <2>1, <3>1
    <3> QED BY <1>7, <3>1, <3>2
  <2>2. CASE ~ (k <= m)
    <3>1. PICK j \in 1 .. n : j = k - m
      <4>1. k - m \in 1 .. n BY <2>2
      <4> QED BY <4>1
    <3>2. r[k] = t[j] /\ h[k] = g[j]
      <4>1. k \in 0 .. m + n OBVIOUS
      <4> QED BY <1>6, <1>9, <2>2, <3>1, <4>1
    <3>3. h[k - 1] = g[j - 1]
      <4>1. k - 1 \in 0 .. m + n /\ j - 1 = (k - 1) - m BY <3>1
      <4>2. CASE j = 1
        <5>1. k - 1 = m /\ k - 1 <= m /\ j - 1 = 0 BY <3>1, <4>2
        <5>2. h[k - 1] = f[m] BY <1>9, <4>1, <5>1
        <5> QED BY <1>8, <5>1, <5>2
      <4>3. CASE j # 1
        <5>1. ~ (k - 1 <= m) BY <3>1, <4>3
        <5> QED BY <1>9, <4>1, <5>1
      <4> QED BY <4>2, <4>3
    <3> QED BY <1>8, <3>1, <3>2, <3>3
  <2> QED BY <2>1, <2>2
<1>13. r \in Seq(Range(r)) BY <1>3, <1>5, <1>6
<1> QED BY <1>5, <1>6, <1>10, <1>11, <1>12, <1>13 DEF Leads

\* Two instructions.
LEMMA LeadsTwo ==
  ASSUME NEW l, NEW p, NEW B, NEW C, NEW a, NEW i1, NEW i2,
         Leads(l, p, a, <<i1>>, B), \A b \in B : Leads(l, p, b, <<i2>>, C)
  PROVE  Leads(l, p, a, <<i1, i2>>, C)
<1>1. <<i1, i2>> = <<i1>> \o <<i2>>
  <2>1. PICK s, t, r : s = <<i1>> /\ t = <<i2>> /\ r = s \o t OBVIOUS
  <2>2. s \in Seq({i1, i2}) /\ t \in Seq({i1, i2}) /\ Len(s) = 1 /\ Len(t) = 1 BY <2>1
  <2>3. r \in Seq({i1, i2}) /\ Len(r) = 2 /\ r[1] = i1 /\ r[2] = i2
    BY <2>1, <2>2, ConcatProperties
  <2>4. r = <<r[1], r[2]>> BY <2>3
  <2> QED BY <2>1, <2>3, <2>4
<1>2. Leads(l, p, a, <<i1>> \o <<i2>>, C) BY LeadsJoin
<1> QED BY <1>1, <1>2

\* Three instructions.
LEMMA LeadsThree ==
  ASSUME NEW l, NEW p, NEW B, NEW C, NEW a, NEW i1, NEW i2, NEW i3,
         Leads(l, p, a, <<i1, i2>>, B), \A b \in B : Leads(l, p, b, <<i3>>, C)
  PROVE  Leads(l, p, a, <<i1, i2, i3>>, C)
<1>1. <<i1, i2, i3>> = <<i1, i2>> \o <<i3>> OBVIOUS
<1>2. Leads(l, p, a, <<i1, i2>> \o <<i3>>, C) BY LeadsJoin
<1> QED BY <1>1, <1>2

\* Pieces joined in a row, if each leads on from where the one before ended.
LEMMA LeadsFlatten ==
  ASSUME NEW l, NEW p, NEW a, NEW k \in Nat, NEW segs, DOMAIN segs = 1 .. k,
         segs = [i \in 1 .. k |-> segs[i]], NEW T, a \in T[0],
         \A i \in 1 .. k : \A b \in T[i - 1] : Leads(l, p, b, segs[i], T[i])
  PROVE  Leads(l, p, a, FlattenSeq(segs), T[k])
<1>1. CASE k = 0
  <2>1. segs = <<>> BY <1>1
  <2>2. FlattenSeq(segs) = <<>>
    <3>1. Len(segs) = 0 BY <2>1
    <3> QED BY <2>1, <3>1 DEF FlattenSeq
  <2> QED BY <1>1, <2>2, LeadsNone
<1>2. CASE k # 0
  <2>0. k \in Nat \ {0} BY <1>2
  <2>1. PICK E : E = UNION {Range(segs[i]) : i \in 1 .. k} OBVIOUS
  <2>2. \A i \in 1 .. k : Range(segs[i]) \subseteq E BY <2>1
  <2>3. \A i \in 1 .. k : segs[i] \in Seq(E)
    <3>1. \A X, Y : X \subseteq Y => Seq(X) \subseteq Seq(Y) OBVIOUS
    <3> DEFINE R == {j \in Nat : j <= k => \E b : b \in T[j]}
    <3>2. 0 \in R OBVIOUS
    <3>3. ASSUME NEW j \in Nat, j < k, j \in R PROVE j + 1 \in R
      <4>1. PICK i \in 1 .. k : i = j + 1 /\ i - 1 = j
        <5>1. j + 1 \in 1 .. k /\ (j + 1) - 1 = j BY <3>3
        <5> QED BY <5>1
      <4>2. PICK b : b \in T[i - 1] BY <3>3, <4>1
      <4>3. Leads(l, p, b, segs[i], T[i]) BY <4>2
      <4>4. \E e : e \in T[i] BY <4>3 DEF Leads
      <4> QED BY <4>1, <4>4
    <3>4. \A j \in 0 .. k : j \in R
      <4> HIDE DEF R
      <4> QED BY <3>2, <3>3, UpTo
    <3> SUFFICES ASSUME NEW i \in 1 .. k PROVE segs[i] \in Seq(E) OBVIOUS
    <3>5. i - 1 \in R /\ i - 1 <= k /\ i - 1 \in Nat BY <3>4
    <3>6. PICK b : b \in T[i - 1] BY <3>5
    <3>7. Leads(l, p, b, segs[i], T[i]) BY <3>6
    <3>8. segs[i] \in Seq(Range(segs[i])) BY <3>7 DEF Leads
    <3> QED BY <2>2, <3>1, <3>8
  <2>4. segs \in [1 .. k -> Seq(E)] BY <2>3
  <2>5. PICK f : Joins(f, segs, k, E) /\ FlattenSeq(segs) = f[k] BY <2>0, <2>4, FlattenByParts
  <2> DEFINE S == {j \in Nat : j < k => Leads(l, p, a, f[j + 1], T[j + 1])}
  <2>6. 0 \in S
    <3>1. f[1] = segs[1] /\ 1 \in 1 .. k /\ 1 - 1 = 0 BY <2>0, <2>5 DEF Joins
    <3>2. Leads(l, p, a, segs[1], T[1]) BY <3>1
    <3> QED BY <3>1, <3>2
  <2>7. ASSUME NEW j \in Nat, j < k - 1, j \in S PROVE j + 1 \in S
    <3>1. PICK i \in 1 .. k : i = j + 2 /\ i # 1 /\ i - 1 = j + 1 /\ (j + 1) + 1 = i
      <4>1. j + 2 \in 1 .. k /\ j + 2 # 1 /\ (j + 2) - 1 = j + 1 /\ (j + 1) + 1 = j + 2 BY <2>7
      <4> QED BY <4>1
    <3>2. f[i] = f[i - 1] \o segs[i] BY <2>5, <3>1 DEF Joins
    <3>3. Leads(l, p, a, f[i - 1], T[i - 1]) BY <2>7, <3>1
    <3>4. \A b \in T[i - 1] : Leads(l, p, b, segs[i], T[i]) OBVIOUS
    <3>5. Leads(l, p, a, f[i - 1] \o segs[i], T[i]) BY <3>3, <3>4, LeadsJoin
    <3>6. Leads(l, p, a, f[i], T[i]) BY <3>2, <3>5
    <3> QED BY <3>1, <3>6
  <2>8. \A j \in 0 .. k - 1 : j \in S
    <3> HIDE DEF S
    <3> QED BY <2>0, <2>6, <2>7, UpTo
  <2>9. k - 1 \in S /\ k - 1 < k /\ (k - 1) + 1 = k BY <2>0, <2>8
  <2>10. Leads(l, p, a, f[k], T[k]) BY <2>9
  <2> QED BY <2>5, <2>10
<1> QED BY <1>1, <1>2

\* A code that leads on from the state in which a place is at first keeps the
\* discipline.
LEMMA LeadsDisciplined ==
  ASSUME NEW l, NEW p, NEW s, NEW B, Leads(l, p, Fresh, s, B)
  PROVE  Disciplined(l, p, s)
<1>1. PICK m \in Nat : m = Len(s)
  <2>1. s \in Seq(Range(s)) BY DEF Leads
  <2> QED BY <2>1, LenProperties
<1>2. PICK f : /\ f[0] = Fresh
               /\ \A k \in 1 .. m : Allowed(l, p, s[k], f[k - 1]) /\ f[k] = After(l, p, s[k], f[k - 1])
  BY <1>1 DEF Leads
<1>3. PICK g : g = Known(l, p, s) OBVIOUS
<1>4. g[0] = Fresh /\ \A k \in 1 .. m : g[k] = After(l, p, s[k], g[k - 1])
  BY <1>1, <1>3, KnownIs
<1> DEFINE S == {j \in Nat : j <= m => f[j] = g[j]}
<1>5. 0 \in S BY <1>2, <1>4
<1>6. ASSUME NEW j \in Nat, j < m, j \in S PROVE j + 1 \in S
  <2>1. j + 1 \in 1 .. m /\ (j + 1) - 1 = j BY <1>6
  <2> QED BY <1>2, <1>4, <1>6, <2>1
<1>7. \A j \in 0 .. m : j \in S
  <2> HIDE DEF S
  <2> QED BY <1>5, <1>6, UpTo
<1>8. ASSUME NEW k \in 1 .. m PROVE Allowed(l, p, s[k], g[k - 1])
  <2>1. k - 1 \in S /\ k - 1 <= m BY <1>7
  <2>2. f[k - 1] = g[k - 1] BY <2>1
  <2> QED BY <1>2, <2>2
<1> QED BY <1>1, <1>3, <1>8 DEF Disciplined

\* An instruction that does nothing to place p.
Aside(l, p, ins) ==
  /\ ins.op \in {"load", "put", "use", "userows", "fetch", "emit"}
  /\ ins.op # "emit" => ins.buf \in Buffers /\ p \notin Places(l, ins.buf)

\* It leaves the place as it was.
LEMMA LeadsAside ==
  ASSUME NEW l, NEW p, NEW B, NEW a \in B, a \in PlaceStates, NEW ins, Aside(l, p, ins)
  PROVE  Leads(l, p, a, <<ins>>, B)
<1>1. ~ Writes(l, p, ins) /\ ~ Reads(l, p, ins) BY DEF Aside, Writes, Reads
<1>2. ins.op # "commit" /\ ins.op # "wait" /\ ins.op # "sync" BY DEF Aside
<1>3. Allowed(l, p, ins, a) BY <1>1, <1>2 DEF Allowed, Aside
<1>4. After(l, p, ins, a) = [tile |-> a.tile, copied |-> a.copied, use |-> a.use, age |-> a.age, depth |-> a.depth]
  BY <1>1, <1>2 DEF After
<1>5. After(l, p, ins, a) = a BY <1>4 DEF PlaceStates
<1> QED BY <1>3, <1>5, LeadsOne

\* The fields of a state.
LEMMA StateIs ==
  ASSUME NEW a \in PlaceStates
  PROVE  /\ a.tile \in TileSet /\ a.use \in {"idle", "read", "written"}
         /\ a.age \in -1 .. 2 /\ a.depth \in 0 .. 2 /\ a.age <= a.depth
         /\ a.age >= 0 => a.use = "written"
BY DEF PlaceStates

\* The fields of a state after an instruction that may be.
LEMMA LeadsTo ==
  ASSUME NEW l, NEW p, NEW a \in PlaceStates, NEW ins, Allowed(l, p, ins, a), NEW b,
         b = After(l, p, ins, a), NEW t, NEW U, NEW g, NEW d,
         b.tile = t, b.use \in U, b.age = g, b.depth = d
  PROVE  Leads(l, p, a, <<ins>>, At(t, U, g, d))
<1>1. b \in PlaceStates BY AfterIs
<1>2. b \in At(t, U, g, d) BY <1>1 DEF At
<1> QED BY <1>2, LeadsOne

\* A read, of the tile that is there or elsewhere.
LEMMA ReadIs ==
  ASSUME NEW l, NEW p, NEW t, NEW d, NEW a \in Readable(t, d), NEW ins,
         ins.op \in {"use", "userows", "fetch"}, ins.buf \in Buffers,
         p \in Places(l, ins.buf) => ins.tile = t
  PROVE  Leads(l, p, a, <<ins>>, Readable(t, d))
<1>1. a \in PlaceStates /\ a.tile = t /\ a.use \in {"idle", "read"} /\ a.age = -1 /\ a.depth = d
  BY DEF Readable, At
<1>2. CASE p \notin Places(l, ins.buf)
  <2>1. Aside(l, p, ins) BY <1>2 DEF Aside
  <2> QED BY <1>1, <2>1, LeadsAside
<1>3. CASE p \in Places(l, ins.buf)
  <2>1. Reads(l, p, ins) /\ ~ Writes(l, p, ins) BY <1>3 DEF Reads, Writes
  <2>2. ins.op # "commit" /\ ins.op # "wait" /\ ins.op # "sync" OBVIOUS
  <2>3. Allowed(l, p, ins, a) BY <1>1, <1>3, <2>1, <2>2 DEF Allowed
  <2>4. PICK b : b = After(l, p, ins, a) OBVIOUS
  <2>5. b.tile = t /\ b.use \in {"idle", "read"} /\ b.age = -1 /\ b.depth = d
    BY <1>1, <2>1, <2>2, <2>4 DEF After
  <2> QED BY <1>1, <2>3, <2>4, <2>5, LeadsTo DEF Readable
<1> QED BY <1>2, <1>3

\* A write of a warp's rows, here or elsewhere.
LEMMA PutIs ==
  ASSUME NEW l, NEW p, NEW t, NEW d, NEW a \in Unused(t, d), NEW buf \in Buffers, NEW tile \in TileSet
  PROVE  Leads(l, p, a, <<Put(buf, tile)>>, IF p \in Places(l, buf) THEN Stored(tile, d) ELSE Unused(t, d))
<1>1. a \in PlaceStates /\ a.tile = t /\ a.use = "idle" /\ a.age = -1 /\ a.depth = d
  BY DEF Unused, At
<1>0. PICK ins : ins = Put(buf, tile) OBVIOUS
<1>2. ins = Put(buf, tile) /\ ins.op = "put" /\ ins.buf = buf /\ ins.tile = tile BY <1>0 DEF Put
<1>3. CASE p \notin Places(l, buf)
  <2>1. Aside(l, p, ins) BY <1>2, <1>3 DEF Aside
  <2>2. Leads(l, p, a, <<ins>>, Unused(t, d)) BY <1>1, <2>1, LeadsAside
  <2> QED BY <1>2, <1>3, <2>2
<1>4. CASE p \in Places(l, buf)
  <2>1. Writes(l, p, ins) /\ ~ Reads(l, p, ins) BY <1>2, <1>4 DEF Reads, Writes
  <2>2. Allowed(l, p, ins, a) BY <1>1, <1>2, <2>1 DEF Allowed
  <2>3. PICK b : b = After(l, p, ins, a) OBVIOUS
  <2>4. b.tile = tile /\ b.use \in {"written"} /\ b.age = -1 /\ b.depth = d
    BY <1>1, <1>2, <2>1, <2>3 DEF After
  <2>5. Leads(l, p, a, <<ins>>, Stored(tile, d)) BY <1>1, <2>2, <2>3, <2>4, LeadsTo DEF Stored
  <2> QED BY <1>2, <1>4, <2>5
<1> QED BY <1>3, <1>4

\* A copy, here or elsewhere.
LEMMA LoadIs ==
  ASSUME NEW l, NEW p, NEW t, NEW d, NEW a \in Unused(t, d), NEW buf \in Buffers, NEW tile \in TileSet,
         NEW bounds
  PROVE  Leads(l, p, a, <<Load(buf, tile, bounds)>>,
               IF p \in Places(l, buf) THEN Coming(tile, 0, d) ELSE Unused(t, d))
<1>1. a \in PlaceStates /\ a.tile = t /\ a.use = "idle" /\ a.age = -1 /\ a.depth = d
  BY DEF Unused, At
<1>0. PICK ins : ins = Load(buf, tile, bounds) OBVIOUS
<1>2. ins = Load(buf, tile, bounds) /\ ins.op = "load" /\ ins.buf = buf /\ ins.tile = tile
  BY <1>0 DEF Load
<1>3. CASE p \notin Places(l, buf)
  <2>1. Aside(l, p, ins) BY <1>2, <1>3 DEF Aside
  <2>2. Leads(l, p, a, <<ins>>, Unused(t, d)) BY <1>1, <2>1, LeadsAside
  <2> QED BY <1>2, <1>3, <2>2
<1>4. CASE p \in Places(l, buf)
  <2>1. Writes(l, p, ins) /\ ~ Reads(l, p, ins) BY <1>2, <1>4 DEF Reads, Writes
  <2>2. Allowed(l, p, ins, a) BY <1>1, <1>2, <2>1 DEF Allowed
  <2>3. PICK b : b = After(l, p, ins, a) OBVIOUS
  <2>4. b.tile = tile /\ b.use \in {"written"} /\ b.age = 0 /\ b.depth = d
    BY <1>1, <1>2, <2>1, <2>3 DEF After
  <2>5. Leads(l, p, a, <<ins>>, Coming(tile, 0, d)) BY <1>1, <2>2, <2>3, <2>4, LeadsTo DEF Coming
  <2> QED BY <1>2, <1>4, <2>5
<1> QED BY <1>3, <1>4

\* A commit makes the copies that are under way older.
LEMMA CommitIs ==
  ASSUME NEW l, NEW p, NEW t, NEW U, NEW g, NEW d, d < 2, NEW a \in At(t, U, g, d)
  PROVE  Leads(l, p, a, <<Commit>>, At(t, U, IF g >= 0 THEN g + 1 ELSE g, d + 1))
<1>1. a \in PlaceStates /\ a.tile = t /\ a.use \in U /\ a.age = g /\ a.depth = d BY DEF At
<1>0. PICK ins : ins = Commit OBVIOUS
<1>2. ins = Commit /\ ins.op = "commit" BY <1>0 DEF Commit
<1>3. ~ Writes(l, p, ins) /\ ~ Reads(l, p, ins) BY <1>2 DEF Writes, Reads
<1>4. Allowed(l, p, ins, a) BY <1>1, <1>2, <1>3 DEF Allowed
<1>5. PICK b : b = After(l, p, ins, a) OBVIOUS
<1>6. b.tile = t /\ b.use \in U /\ b.age = (IF g >= 0 THEN g + 1 ELSE g) /\ b.depth = d + 1
  BY <1>1, <1>2, <1>3, <1>5 DEF After
<1> QED BY <1>1, <1>2, <1>4, <1>5, <1>6, LeadsTo

\* After a barrier a place that no copy is on its way to is unused.
LEMMA SyncIs ==
  ASSUME NEW l, NEW p, NEW t, NEW U, NEW d, NEW a \in At(t, U, -1, d)
  PROVE  Leads(l, p, a, <<Sync>>, Unused(t, d))
<1>1. a \in PlaceStates /\ a.tile = t /\ a.age = -1 /\ a.depth = d BY DEF At
<1>0. PICK ins : ins = Sync OBVIOUS
<1>2. ins = Sync /\ ins.op = "sync" BY <1>0 DEF Sync
<1>3. ~ Writes(l, p, ins) /\ ~ Reads(l, p, ins) BY <1>2 DEF Writes, Reads
<1>4. Allowed(l, p, ins, a) BY <1>1, <1>2, <1>3 DEF Allowed
<1>5. PICK b : b = After(l, p, ins, a) OBVIOUS
<1>6. b.tile = t /\ b.use \in {"idle"} /\ b.age = -1 /\ b.depth = d
  BY <1>1, <1>2, <1>3, <1>5 DEF After
<1> QED BY <1>1, <1>2, <1>4, <1>5, <1>6, LeadsTo DEF Unused

\* A copy that is on its way is not over at a barrier.
LEMMA SyncComing ==
  ASSUME NEW l, NEW p, NEW t, NEW g, NEW d, NEW a \in Coming(t, g, d), g >= 0
  PROVE  Leads(l, p, a, <<Sync>>, Coming(t, g, d))
<1>1. a \in PlaceStates /\ a.tile = t /\ a.use \in {"written"} /\ a.age = g /\ a.depth = d
  BY DEF Coming, At
<1>0. PICK ins : ins = Sync OBVIOUS
<1>2. ins = Sync /\ ins.op = "sync" BY <1>0 DEF Sync
<1>3. ~ Writes(l, p, ins) /\ ~ Reads(l, p, ins) BY <1>2 DEF Writes, Reads
<1>4. Allowed(l, p, ins, a) BY <1>1, <1>2, <1>3 DEF Allowed
<1>5. PICK b : b = After(l, p, ins, a) OBVIOUS
<1>6. b.tile = t /\ b.use \in {"written"} /\ b.age = g /\ b.depth = d
  <2>1. ~ (a.age < 0) BY <1>1, StateIs
  <2> QED BY <1>1, <1>2, <1>3, <1>5, <2>1 DEF After
<1> QED BY <1>1, <1>2, <1>4, <1>5, <1>6, LeadsTo DEF Coming

\* A wait for all groups: every copy that was committed is over.
LEMMA WaitIs ==
  ASSUME NEW l, NEW p, NEW a \in PlaceStates, a.age # 0
  PROVE  Leads(l, p, a, <<Wait(0)>>, At(a.tile, {"idle", "read", "written"}, -1, 0))
<1>0. PICK ins : ins = Wait(0) OBVIOUS
<1>1. ins = Wait(0) /\ ins.op = "wait" /\ ins.n = 0 BY <1>0 DEF Wait
<1>2. ~ Writes(l, p, ins) /\ ~ Reads(l, p, ins) BY <1>1 DEF Writes, Reads
<1>3. Allowed(l, p, ins, a) BY <1>1, <1>2 DEF Allowed
<1>4. PICK b : b = After(l, p, ins, a) OBVIOUS
<1>5. b.tile = a.tile /\ b.use = a.use BY <1>1, <1>2, <1>4 DEF After
<1>6. b.age = (IF a.age > 0 THEN -1 ELSE a.age) /\ b.depth = (IF a.depth > 0 THEN 0 ELSE a.depth)
  BY <1>1, <1>2, <1>4 DEF After
<1>7. b.age = -1 /\ b.depth = 0 BY <1>6, StateIs
<1>8. b.use \in {"idle", "read", "written"} BY <1>5, StateIs
<1> QED BY <1>1, <1>3, <1>4, <1>5, <1>7, <1>8, LeadsTo

\* What an iteration begins with: all groups arrive, and all warps are there.
LEMMA TopIs ==
  ASSUME NEW l, NEW p, NEW a \in PlaceStates, a.age # 0
  PROVE  Leads(l, p, a, <<Wait(0), Sync>>, Unused(a.tile, 0))
<1>1. PICK i1, i2, t : i1 = Wait(0) /\ i2 = Sync /\ t = a.tile OBVIOUS
<1>2. Leads(l, p, a, <<i1>>, At(t, {"idle", "read", "written"}, -1, 0)) BY <1>1, WaitIs
<1>3. \A b \in At(t, {"idle", "read", "written"}, -1, 0) : Leads(l, p, b, <<i2>>, Unused(t, 0))
  BY <1>1, SyncIs
<1>4. Leads(l, p, a, <<i1, i2>>, Unused(t, 0)) BY <1>2, <1>3, LeadsTwo
<1> QED BY <1>1, <1>4

\* What is unused is readable.
LEMMA UnusedReadable ==
  ASSUME NEW t, NEW d
  PROVE  Unused(t, d) \subseteq Readable(t, d)
BY DEF Unused, Readable, At

\* A copy of its own group, to a place that is unused.
LEMMA CopyIs ==
  ASSUME NEW l, NEW p, NEW t, NEW d, d < 2, NEW a \in Unused(t, d), NEW buf \in Buffers,
         NEW tile \in TileSet, NEW bounds
  PROVE  Leads(l, p, a, <<Load(buf, tile, bounds), Commit>>,
               IF p \in Places(l, buf) THEN Coming(tile, 1, d + 1) ELSE Unused(t, d + 1))
<1>1. PICK i1, i2 : i1 = Load(buf, tile, bounds) /\ i2 = Commit OBVIOUS
<1>2. CASE p \in Places(l, buf)
  <2>1. Leads(l, p, a, <<i1>>, Coming(tile, 0, d)) BY <1>1, <1>2, LoadIs
  <2>2. ASSUME NEW b \in Coming(tile, 0, d) PROVE Leads(l, p, b, <<i2>>, Coming(tile, 1, d + 1))
    <3>1. PICK g : g = 0 OBVIOUS
    <3>2. b \in At(tile, {"written"}, g, d) BY <3>1 DEF Coming
    <3>3. Leads(l, p, b, <<i2>>, At(tile, {"written"}, IF g >= 0 THEN g + 1 ELSE g, d + 1))
      BY <1>1, <3>2, CommitIs
    <3>4. (IF g >= 0 THEN g + 1 ELSE g) = 1 BY <3>1
    <3> QED BY <3>3, <3>4 DEF Coming
  <2>3. Leads(l, p, a, <<i1, i2>>, Coming(tile, 1, d + 1)) BY <2>1, <2>2, LeadsTwo
  <2> QED BY <1>1, <1>2, <2>3
<1>3. CASE p \notin Places(l, buf)
  <2>1. Leads(l, p, a, <<i1>>, Unused(t, d)) BY <1>1, <1>3, LoadIs
  <2>2. ASSUME NEW b \in Unused(t, d) PROVE Leads(l, p, b, <<i2>>, Unused(t, d + 1))
    <3>1. PICK g : g = -1 OBVIOUS
    <3>2. b \in At(t, {"idle"}, g, d) BY <3>1 DEF Unused
    <3>3. Leads(l, p, b, <<i2>>, At(t, {"idle"}, IF g >= 0 THEN g + 1 ELSE g, d + 1))
      BY <1>1, <3>2, CommitIs
    <3>4. (IF g >= 0 THEN g + 1 ELSE g) = -1 BY <3>1
    <3> QED BY <3>3, <3>4 DEF Unused
  <2>3. Leads(l, p, a, <<i1, i2>>, Unused(t, d + 1)) BY <2>1, <2>2, LeadsTwo
  <2> QED BY <1>1, <1>3, <2>3
<1> QED BY <1>2, <1>3

\* A copy of its own group to another place, while one to this place is under way.
LEMMA CopyAside ==
  ASSUME NEW l, NEW p, NEW t, NEW g, g >= 0, NEW d, d < 2, NEW a \in Coming(t, g, d), NEW buf \in Buffers,
         p \notin Places(l, buf), NEW tile, NEW bounds
  PROVE  Leads(l, p, a, <<Load(buf, tile, bounds), Commit>>, Coming(t, g + 1, d + 1))
<1>1. PICK i1, i2 : i1 = Load(buf, tile, bounds) /\ i2 = Commit OBVIOUS
<1>2. Aside(l, p, i1) BY <1>1 DEF Load, Aside
<1>3. a \in PlaceStates BY DEF Coming, At
<1>4. Leads(l, p, a, <<i1>>, Coming(t, g, d)) BY <1>2, <1>3, LeadsAside
<1>5. ASSUME NEW b \in Coming(t, g, d) PROVE Leads(l, p, b, <<i2>>, Coming(t, g + 1, d + 1))
  <2>1. b \in At(t, {"written"}, g, d) BY DEF Coming
  <2>2. Leads(l, p, b, <<i2>>, At(t, {"written"}, IF g >= 0 THEN g + 1 ELSE g, d + 1))
    BY <1>1, <2>1, CommitIs
  <2> QED BY <2>2 DEF Coming
<1>6. Leads(l, p, a, <<i1, i2>>, Coming(t, g + 1, d + 1)) BY <1>4, <1>5, LeadsTwo
<1> QED BY <1>1, <1>6

-----------------------------------------------------------------------------
(* The discipline of the forward kernels.                                   *)

\* What the kernels write to a place is a tile.
LEMMA TilesAre ==
  ASSUME NEW n \in Int
  PROVE  \A name \in {"Q", "K", "V", "O", "dO", "P", "dS", "dK", "dV"} : Tile(name, n) \in TileSet
BY DEF TileSet, Tile

\* An instruction that computes, and reads no more of place p than the tile t in it.
Reading(l, p, t, ins) ==
  /\ ins.op \in {"use", "userows", "fetch", "emit"}
  /\ ins.op # "emit" => ins.buf \in Buffers /\ (p \in Places(l, ins.buf) => ins.tile = t)

\* It leaves the place readable.
LEMMA LeadsReading ==
  ASSUME NEW l, NEW p, NEW t, NEW d, NEW a \in Readable(t, d), NEW ins, Reading(l, p, t, ins)
  PROVE  Leads(l, p, a, <<ins>>, Readable(t, d))
<1>1. CASE ins.op = "emit"
  <2>1. Aside(l, p, ins) BY <1>1 DEF Aside
  <2>2. a \in PlaceStates BY DEF Readable, At
  <2> QED BY <2>1, <2>2, LeadsAside
<1>2. CASE ins.op # "emit" BY <1>2, ReadIs DEF Reading
<1> QED BY <1>1, <1>2

\* The reads of the kernels.
LEMMA ReadingIs ==
  ASSUME NEW l, NEW p, NEW t, NEW buf \in Buffers, NEW tile, p \in Places(l, buf) => tile = t
  PROVE  /\ Reading(l, p, t, Use(buf, tile)) /\ Reading(l, p, t, UseRows(buf, tile))
         /\ Reading(l, p, t, Fetch(buf, tile))
BY DEF Reading, Use, UseRows, Fetch

\* What only computes from registers.
LEMMA EmitIs ==
  ASSUME NEW l, NEW p, NEW what
  PROVE  (\A t : Reading(l, p, t, Emit(what))) /\ Aside(l, p, Emit(what))
BY DEF Reading, Aside, Emit

\* Reads of other places.
LEMMA AsideIs ==
  ASSUME NEW l, NEW p, NEW buf \in Buffers, p \notin Places(l, buf), NEW tile
  PROVE  /\ Aside(l, p, Use(buf, tile)) /\ Aside(l, p, UseRows(buf, tile))
         /\ Aside(l, p, Fetch(buf, tile)) /\ Aside(l, p, Put(buf, tile))
BY DEF Aside, Use, UseRows, Fetch, Put

\* Where the forward kernels have their buffers: V and the output by themselves, Q and
\* K in one place only if the traits let them share it.
LEMMA ForwardPlaces ==
  ASSUME NEW l \in Launches, l.kernel # "bwd", NEW p
  PROVE  /\ p \in Places(l, "sV") => p \notin Places(l, "sQ") /\ p \notin Places(l, "sK") /\ p \notin Places(l, "sO")
         /\ p \in Places(l, "sQ") /\ p \in Places(l, "sK") => l.traits = "share"
<1>1. \A buf \in {"sQ", "sK", "sV", "sO"} : Places(l, buf) = KernelPlaces(l, buf)
  BY KernelsRun DEF Buffers
<1>2. /\ Places(l, "sQ") = {"q"}
      /\ Places(l, "sK") = IF l.traits = "share" THEN {"q"} ELSE {"k"}
      /\ Places(l, "sV") = {"v", "v2"}
      /\ Places(l, "sO") = IF l.kernel = "split" /\ l.num > 1 THEN {"q", "k"} ELSE {"q"}
  BY <1>1 DEF KernelPlaces
<1> QED BY <1>2

\* What is known of a place before block n of keys; block n below the first one is
\* the end of the loops.
ForwardBefore(l, p, n) ==
  {a \in PlaceStates :
     /\ a.age # 0
     /\ n >= FwdMin(l) => /\ p \in Places(l, "sK") => a.tile = Tile("K", n)
                          /\ l.traits = "plain" /\ p \in Places(l, "sQ") => a.tile = Tile("Q", l.block)
     /\ n < FwdMin(l) => a.age = -1 /\ (p \notin Places(l, "sV") => a.use = "idle")}

\* The scores.
LEMMA ScoreLeads ==
  ASSUME NEW l, NEW p, NEW n, NEW t, NEW d, NEW a \in Readable(t, d),
         p \in Places(l, "sK") => t = Tile("K", n),
         l.traits = "plain" /\ p \in Places(l, "sQ") => t = Tile("Q", l.block)
  PROVE  Leads(l, p, a, ScoreGemm(l, n), Readable(t, d))
<1>1. PICK i1, i2 : i1 = UseRows("sQ", Tile("Q", l.block)) /\ i2 = Use("sK", Tile("K", n)) OBVIOUS
<1>2. PICK plain \in BOOLEAN : plain = (l.traits = "plain") OBVIOUS
<1>3. "sQ" \in Buffers /\ "sK" \in Buffers BY DEF Buffers
<1>4. plain => Leads(l, p, a, <<i1>>, Readable(t, d))
  <2>1. plain => Reading(l, p, t, i1) BY <1>1, <1>2, <1>3, ReadingIs
  <2> QED BY <2>1, LeadsReading
<1>5. Leads(l, p, a, If(plain, <<i1>>), Readable(t, d)) BY <1>4, LeadsIf
<1>6. \A b \in Readable(t, d) : Leads(l, p, b, <<i2>>, Readable(t, d))
  <2>1. Reading(l, p, t, i2) BY <1>1, <1>3, ReadingIs
  <2> QED BY <2>1, LeadsReading
<1>7. Leads(l, p, a, If(plain, <<i1>>) \o <<i2>>, Readable(t, d)) BY <1>5, <1>6, LeadsJoin
<1> QED BY <1>1, <1>2, <1>7 DEF ScoreGemm

\* They pass by the place of V.
LEMMA ScoreAside ==
  ASSUME NEW l, NEW p, NEW n, NEW B, B \subseteq PlaceStates, NEW a \in B,
         p \notin Places(l, "sK"), p \notin Places(l, "sQ")
  PROVE  Leads(l, p, a, ScoreGemm(l, n), B)
<1>1. PICK i1, i2 : i1 = UseRows("sQ", Tile("Q", l.block)) /\ i2 = Use("sK", Tile("K", n)) OBVIOUS
<1>2. PICK plain \in BOOLEAN : plain = (l.traits = "plain") OBVIOUS
<1>3. "sQ" \in Buffers /\ "sK" \in Buffers BY DEF Buffers
<1>4. Aside(l, p, i1) /\ Aside(l, p, i2) BY <1>1, <1>3, AsideIs
<1>5. \A b \in B : Leads(l, p, b, <<i1>>, B) /\ Leads(l, p, b, <<i2>>, B) BY <1>4, LeadsAside
<1>6. Leads(l, p, a, If(plain, <<i1>>), B) BY <1>5, LeadsIf
<1>7. Leads(l, p, a, If(plain, <<i1>>) \o <<i2>>, B) BY <1>5, <1>6, LeadsJoin
<1> QED BY <1>1, <1>2, <1>7 DEF ScoreGemm

\* The next keys come to the place of K.
LEMMA PrefetchLeads ==
  ASSUME NEW l, NEW p, NEW n \in Int, NEW t, NEW a \in Unused(t, 0)
  PROVE  Leads(l, p, a, PrefetchK(l, n),
               IF n > FwdMin(l)
               THEN IF p \in Places(l, "sK") THEN Coming(Tile("K", n - 1), 1, 1) ELSE Unused(t, 1)
               ELSE Unused(t, 0))
<1>1. CASE n > FwdMin(l)
  <2>1. PICK buf \in Buffers : buf = "sK" BY DEF Buffers
  <2>2. PICK tile \in TileSet : tile = Tile("K", n - 1)
    <3>1. n - 1 \in Int OBVIOUS
    <3>2. Tile("K", n - 1) \in TileSet BY <3>1, TilesAre
    <3> QED BY <3>2
  <2>3. PICK z, o : z = 0 /\ o = 1 /\ z < 2 /\ z + 1 = o OBVIOUS
  <2>4. Leads(l, p, a, <<Load(buf, tile, "all"), Commit>>,
              IF p \in Places(l, buf) THEN Coming(tile, 1, z + 1) ELSE Unused(t, z + 1))
    BY <2>3, CopyIs
  <2>5. PrefetchK(l, n) = <<Load(buf, tile, "all"), Commit>> BY <1>1, <2>1, <2>2 DEF PrefetchK
  <2> QED BY <1>1, <2>1, <2>2, <2>3, <2>4, <2>5
<1>2. CASE ~ (n > FwdMin(l)) BY <1>2, LeadsNone DEF PrefetchK
<1> QED BY <1>1, <1>2

\* V, and what an iteration gives to the softmax.
LEMMA ValuesLeads ==
  ASSUME NEW l, NEW p, NEW n, NEW what, NEW t, NEW d, NEW a \in Readable(t, d),
         p \in Places(l, "sV") => t = Tile("V", n)
  PROVE  Leads(l, p, a, <<Use("sV", Tile("V", n)), Emit(what)>>, Readable(t, d))
<1>1. PICK i1, i2 : i1 = Use("sV", Tile("V", n)) /\ i2 = Emit(what) OBVIOUS
<1>2. "sV" \in Buffers BY DEF Buffers
<1>3. Reading(l, p, t, i1) /\ Reading(l, p, t, i2) BY <1>1, <1>2, ReadingIs, EmitIs
<1>4. \A b \in Readable(t, d) : Leads(l, p, b, <<i1>>, Readable(t, d)) /\ Leads(l, p, b, <<i2>>, Readable(t, d))
  BY <1>3, LeadsReading
<1>5. Leads(l, p, a, <<i1, i2>>, Readable(t, d)) BY <1>4, LeadsTwo
<1> QED BY <1>1, <1>5

\* They pass by all other places.
LEMMA ValuesAside ==
  ASSUME NEW l, NEW p, NEW n, NEW what, NEW B, B \subseteq PlaceStates, NEW a \in B, p \notin Places(l, "sV")
  PROVE  Leads(l, p, a, <<Use("sV", Tile("V", n)), Emit(what)>>, B)
<1>1. PICK i1, i2 : i1 = Use("sV", Tile("V", n)) /\ i2 = Emit(what) OBVIOUS
<1>2. "sV" \in Buffers BY DEF Buffers
<1>3. Aside(l, p, i1) /\ Aside(l, p, i2) BY <1>1, <1>2, AsideIs, EmitIs
<1>4. \A b \in B : Leads(l, p, b, <<i1>>, B) /\ Leads(l, p, b, <<i2>>, B) BY <1>3, LeadsAside
<1>5. Leads(l, p, a, <<i1, i2>>, B) BY <1>4, LeadsTwo
<1> QED BY <1>1, <1>5

\* An iteration leads to the next.
LEMMA ForwardStepLeads ==
  ASSUME NEW l \in Launches, l.kernel # "bwd", NEW p, NEW n \in Nat, FwdMin(l) <= n,
         NEW masking \in BOOLEAN, NEW a \in ForwardBefore(l, p, n)
  PROVE  Leads(l, p, a, ForwardStep(l, n, masking), ForwardBefore(l, p, n - 1))
<1>1. FwdMin(l) \in Nat BY LaunchesAreValid, ForwardRange
<1>a. PICK live \in BOOLEAN : live = LiveForward(l, n, masking) BY DEF LiveForward
<1>b. PICK bounds :
        bounds = IF masking /\ n = FwdMax(l) - 1 /\ ~ l.even THEN "clear" ELSE "all"
  OBVIOUS
<1>2. PICK what : what = [tile |-> n, masking |-> masking] OBVIOUS
<1>3. PICK s1, s2, s3, s4, s5 :
        /\ s1 = <<Wait(0), Sync>>
        /\ s2 = <<Load("sV", Tile("V", n), bounds), Commit>>
        /\ s3 = If(live, ScoreGemm(l, n))
        /\ s4 = PrefetchK(l, n)
        /\ s5 = If(live, <<Use("sV", Tile("V", n)), Emit(what)>>)
  OBVIOUS
<1>c. ForwardStep(l, n, masking) = ((((s1 \o s2) \o s3) \o s1) \o s4) \o s5
  <2>1. PICK i1, i2, i3, i4 :
          i1 = Wait(0) /\ i2 = Sync /\ i3 = Load("sV", Tile("V", n), bounds) /\ i4 = Commit
    OBVIOUS
  <2>2. <<i1, i2, i3, i4>> = <<i1, i2>> \o <<i3, i4>> OBVIOUS
  <2>3. s1 = <<i1, i2>> /\ s2 = <<i3, i4>> BY <1>3, <2>1
  <2> QED BY <1>a, <1>b, <1>2, <1>3, <2>1, <2>2, <2>3 DEF ForwardStep, LiveForward
<1>4. PICK t : t = a.tile OBVIOUS
<1>5. a \in PlaceStates /\ a.age # 0 BY DEF ForwardBefore
<1>6. Leads(l, p, a, s1, Unused(t, 0)) BY <1>3, <1>4, <1>5, TopIs
<1>7. PICK V \in TileSet : V = Tile("V", n)
  <2>1. Tile("V", n) \in TileSet BY TilesAre
  <2> QED BY <2>1
<1>8. PICK buf \in Buffers : buf = "sV" BY DEF Buffers
<1>9. PICK z, o : z = 0 /\ o = 1 /\ z < 2 /\ z + 1 = o OBVIOUS
<1>10. \A b \in Unused(t, z) :
         Leads(l, p, b, <<Load(buf, V, bounds), Commit>>,
               IF p \in Places(l, buf) THEN Coming(V, 1, z + 1) ELSE Unused(t, z + 1))
  BY <1>9, CopyIs
<1>11. PICK next : next = ForwardBefore(l, p, n - 1) OBVIOUS
<1>12. CASE p \in Places(l, "sV")
  <2>1. p \notin Places(l, "sQ") /\ p \notin Places(l, "sK") BY <1>12, ForwardPlaces
  <2>2. \A b \in Unused(t, 0) : Leads(l, p, b, s2, Coming(V, 1, 1))
    BY <1>3, <1>7, <1>8, <1>9, <1>10, <1>12
  <2>3. Coming(V, 1, 1) \subseteq PlaceStates BY DEF Coming, At
  <2>4. \A b \in Coming(V, 1, 1) : Leads(l, p, b, s3, Coming(V, 1, 1))
    BY <1>3, <2>1, <2>3, ScoreAside, LeadsIf
  <2>5. \A b \in Coming(V, 1, 1) : Leads(l, p, b, s1, Unused(V, 0))
    <3>1. \A b \in Coming(V, 1, 1) : b \in PlaceStates /\ b.age # 0 /\ b.tile = V BY DEF Coming, At
    <3> QED BY <1>3, <3>1, TopIs
  <2>6. PICK d : d = IF n > FwdMin(l) THEN 1 ELSE 0 OBVIOUS
  <2>7. \A b \in Unused(V, 0) : Leads(l, p, b, s4, Unused(V, d))
    <3>1. \A b \in Unused(V, 0) :
            Leads(l, p, b, PrefetchK(l, n),
                  IF n > FwdMin(l)
                  THEN IF p \in Places(l, "sK") THEN Coming(Tile("K", n - 1), 1, 1) ELSE Unused(V, 1)
                  ELSE Unused(V, 0))
      BY PrefetchLeads
    <3> QED BY <1>3, <2>1, <2>6, <3>1
  <2>8. \A b \in Unused(V, d) : Leads(l, p, b, s5, Readable(V, d))
    <3>1. \A b \in Unused(V, d) : b \in Readable(V, d) BY UnusedReadable
    <3> QED BY <1>3, <1>7, <3>1, ValuesLeads, LeadsIf
  <2>9. Readable(V, d) \subseteq next
    <3>1. ASSUME NEW b \in Readable(V, d) PROVE b \in next
      <4>1. b \in PlaceStates /\ b.age = -1 BY DEF Readable, At
      <4>2. l.traits = "plain" /\ p \in Places(l, "sQ") => FALSE BY <2>1
      <4> QED BY <1>11, <1>12, <2>1, <4>1, <4>2 DEF ForwardBefore
    <3> QED BY <3>1
  <2>10. Leads(l, p, a, s1 \o s2, Coming(V, 1, 1)) BY <1>6, <2>2, LeadsJoin
  <2>11. Leads(l, p, a, (s1 \o s2) \o s3, Coming(V, 1, 1)) BY <2>4, <2>10, LeadsJoin
  <2>12. Leads(l, p, a, ((s1 \o s2) \o s3) \o s1, Unused(V, 0)) BY <2>5, <2>11, LeadsJoin
  <2>13. Leads(l, p, a, (((s1 \o s2) \o s3) \o s1) \o s4, Unused(V, d)) BY <2>7, <2>12, LeadsJoin
  <2>14. Leads(l, p, a, ((((s1 \o s2) \o s3) \o s1) \o s4) \o s5, Readable(V, d)) BY <2>8, <2>13, LeadsJoin
  <2>15. Leads(l, p, a, ((((s1 \o s2) \o s3) \o s1) \o s4) \o s5, next) BY <2>9, <2>14, LeadsMore
  <2> QED BY <1>c, <1>11, <2>15
<1>13. CASE p \notin Places(l, "sV")
  <2>1. \A b \in Unused(t, 0) : Leads(l, p, b, s2, Unused(t, 1))
    BY <1>3, <1>7, <1>8, <1>9, <1>10, <1>13
  <2>2. /\ p \in Places(l, "sK") => t = Tile("K", n)
        /\ l.traits = "plain" /\ p \in Places(l, "sQ") => t = Tile("Q", l.block)
    <3>1. n >= FwdMin(l) BY <1>1
    <3> QED BY <1>4, <3>1 DEF ForwardBefore
  <2>3. \A b \in Unused(t, 1) : Leads(l, p, b, s3, Readable(t, 1))
    <3>1. \A b \in Unused(t, 1) : b \in Readable(t, 1) BY UnusedReadable
    <3>2. \A b \in Readable(t, 1) : Leads(l, p, b, ScoreGemm(l, n), Readable(t, 1)) BY <2>2, ScoreLeads
    <3> QED BY <1>3, <3>1, <3>2, LeadsIf
  <2>4. \A b \in Readable(t, 1) : Leads(l, p, b, s1, Unused(t, 0))
    <3>1. \A b \in Readable(t, 1) : b \in PlaceStates /\ b.age # 0 /\ b.tile = t BY DEF Readable, At
    <3> QED BY <1>3, <3>1, TopIs
  <2>5. \A b \in Unused(t, 0) : Leads(l, p, b, s4, next)
    <3>1. \A b \in Unused(t, 0) :
            Leads(l, p, b, PrefetchK(l, n),
                  IF n > FwdMin(l)
                  THEN IF p \in Places(l, "sK") THEN Coming(Tile("K", n - 1), 1, 1) ELSE Unused(t, 1)
                  ELSE Unused(t, 0))
      BY PrefetchLeads
    <3>2. CASE n > FwdMin(l)
      <4>1. ~ (n - 1 < FwdMin(l)) BY <1>1, <3>2
      <4>2. CASE p \in Places(l, "sK")
        <5>1. \A b \in Unused(t, 0) : Leads(l, p, b, s4, Coming(Tile("K", n - 1), 1, 1)) BY <1>3, <3>1, <3>2, <4>2
        <5>2. l.traits = "plain" /\ p \in Places(l, "sQ") => FALSE BY <4>2, ForwardPlaces
        <5>3. Coming(Tile("K", n - 1), 1, 1) \subseteq next
          BY <1>11, <4>1, <5>2 DEF Coming, At, ForwardBefore
        <5> QED BY <5>1, <5>3, LeadsMore
      <4>3. CASE p \notin Places(l, "sK")
        <5>1. \A b \in Unused(t, 0) : Leads(l, p, b, s4, Unused(t, 1)) BY <1>3, <3>1, <3>2, <4>3
        <5>2. Unused(t, 1) \subseteq next
          BY <1>11, <2>2, <4>1, <4>3 DEF Unused, At, ForwardBefore
        <5> QED BY <5>1, <5>2, LeadsMore
      <4> QED BY <4>2, <4>3
    <3>3. CASE ~ (n > FwdMin(l))
      <4>1. ~ (n - 1 >= FwdMin(l)) BY <1>1, <3>3
      <4>2. \A b \in Unused(t, 0) : Leads(l, p, b, s4, Unused(t, 0)) BY <1>3, <3>1, <3>3
      <4>3. Unused(t, 0) \subseteq next BY <1>11, <4>1 DEF Unused, At, ForwardBefore
      <4> QED BY <4>2, <4>3, LeadsMore
    <3> QED BY <3>2, <3>3
  <2>6. \A b \in next : Leads(l, p, b, s5, next)
    <3>1. next \subseteq PlaceStates BY <1>11 DEF ForwardBefore
    <3> QED BY <1>3, <1>13, <3>1, ValuesAside, LeadsIf
  <2>10. Leads(l, p, a, s1 \o s2, Unused(t, 1)) BY <1>6, <2>1, LeadsJoin
  <2>11. Leads(l, p, a, (s1 \o s2) \o s3, Readable(t, 1)) BY <2>3, <2>10, LeadsJoin
  <2>12. Leads(l, p, a, ((s1 \o s2) \o s3) \o s1, Unused(t, 0)) BY <2>4, <2>11, LeadsJoin
  <2>13. Leads(l, p, a, (((s1 \o s2) \o s3) \o s1) \o s4, next) BY <2>5, <2>12, LeadsJoin
  <2>14. Leads(l, p, a, ((((s1 \o s2) \o s3) \o s1) \o s4) \o s5, next) BY <2>6, <2>13, LeadsJoin
  <2> QED BY <1>c, <1>11, <2>14
<1> QED BY <1>12, <1>13

\* A wait for all groups but one.
LEMMA WaitOneIs ==
  ASSUME NEW l, NEW p, NEW t, NEW U, NEW g, NEW a \in At(t, U, g, 2)
  PROVE  Leads(l, p, a, <<Wait(1)>>, At(t, U, IF g > 1 THEN -1 ELSE g, 1))
<1>1. a \in PlaceStates /\ a.tile = t /\ a.use \in U /\ a.age = g /\ a.depth = 2 BY DEF At
<1>0. PICK ins : ins = Wait(1) OBVIOUS
<1>2. ins = Wait(1) /\ ins.op = "wait" /\ ins.n = 1 BY <1>0 DEF Wait
<1>3. ~ Writes(l, p, ins) /\ ~ Reads(l, p, ins) BY <1>2 DEF Writes, Reads
<1>4. Allowed(l, p, ins, a) BY <1>2, <1>3 DEF Allowed
<1>5. PICK b : b = After(l, p, ins, a) OBVIOUS
<1>6. b.tile = t /\ b.use \in U /\ b.age = (IF g > 1 THEN -1 ELSE g) /\ b.depth = 1
  BY <1>1, <1>2, <1>3, <1>5 DEF After
<1> QED BY <1>1, <1>2, <1>4, <1>5, <1>6, LeadsTo

\* A commit after a copy.
LEMMA CommitComing ==
  ASSUME NEW l, NEW p, NEW t, NEW g, g >= 0, NEW d, d < 2, NEW a \in Coming(t, g, d)
  PROVE  Leads(l, p, a, <<Commit>>, Coming(t, g + 1, d + 1))
<1>1. a \in At(t, {"written"}, g, d) BY DEF Coming
<1>2. Leads(l, p, a, <<Commit>>, At(t, {"written"}, IF g >= 0 THEN g + 1 ELSE g, d + 1)) BY <1>1, CommitIs
<1> QED BY <1>2 DEF Coming

\* A commit without a copy to the place.
LEMMA CommitUnused ==
  ASSUME NEW l, NEW p, NEW t, NEW d, d < 2, NEW a \in Unused(t, d)
  PROVE  Leads(l, p, a, <<Commit>>, Unused(t, d + 1))
<1>1. PICK g : g = -1 OBVIOUS
<1>2. a \in At(t, {"idle"}, g, d) BY <1>1 DEF Unused
<1>3. Leads(l, p, a, <<Commit>>, At(t, {"idle"}, IF g >= 0 THEN g + 1 ELSE g, d + 1)) BY <1>2, CommitIs
<1>4. (IF g >= 0 THEN g + 1 ELSE g) = -1 BY <1>1
<1> QED BY <1>3, <1>4 DEF Unused

\* A barrier after reads.
LEMMA SyncReadable ==
  ASSUME NEW l, NEW p, NEW t, NEW d, NEW a \in Readable(t, d)
  PROVE  Leads(l, p, a, <<Sync>>, Unused(t, d))
BY SyncIs DEF Readable

\* Q is loaded first.
LEMMA FirstLoad ==
  ASSUME NEW l, NEW p, NEW Q \in TileSet, NEW bounds
  PROVE  Leads(l, p, Fresh, <<Load("sQ", Q, bounds)>>,
               IF p \in Places(l, "sQ") THEN Coming(Q, 0, 0) ELSE Unused(Nothing, 0))
<1>1. PICK t, d : t = Nothing /\ d = 0 OBVIOUS
<1>2. PICK buf \in Buffers : buf = "sQ" BY DEF Buffers
<1>3. Fresh \in Unused(t, d) BY <1>1, FreshIs DEF Unused, At, Fresh
<1>4. Leads(l, p, Fresh, <<Load(buf, Q, bounds)>>, IF p \in Places(l, buf) THEN Coming(Q, 0, d) ELSE Unused(t, d))
  BY <1>3, LoadIs
<1> QED BY <1>1, <1>2, <1>4

\* The prologue that shares the place of Q with K: Q is read before K is loaded.
LEMMA SharedPrologue ==
  ASSUME NEW l, NEW p, NEW Q \in TileSet,
         NEW a \in IF p \in Places(l, "sQ") THEN Coming(Q, 1, 1) ELSE Unused(Nothing, 1)
  PROVE  Leads(l, p, a, <<Wait(0), Sync, UseRows("sQ", Q), Sync>>,
               Unused(IF p \in Places(l, "sQ") THEN Q ELSE Nothing, 0))
<1>1. PICK u : u = IF p \in Places(l, "sQ") THEN Q ELSE Nothing OBVIOUS
<1>2. a \in PlaceStates /\ a.age # 0 /\ a.tile = u
  <2>1. CASE p \in Places(l, "sQ") BY <1>1, <2>1 DEF Coming, At
  <2>2. CASE p \notin Places(l, "sQ") BY <1>1, <2>2 DEF Unused, At
  <2> QED BY <2>1, <2>2
<1>3. PICK i1, i2, i3 : i1 = Wait(0) /\ i2 = Sync /\ i3 = UseRows("sQ", Q) OBVIOUS
<1>4. PICK s1, s2 : s1 = <<i1, i2>> /\ s2 = <<i3, i2>> OBVIOUS
<1>5. <<i1, i2, i3, i2>> = <<i1, i2>> \o <<i3, i2>> OBVIOUS
<1>6. Leads(l, p, a, s1, Unused(u, 0)) BY <1>2, <1>3, <1>4, TopIs
<1>7. \A b \in Unused(u, 0) : Leads(l, p, b, s2, Unused(u, 0))
  <2>1. "sQ" \in Buffers BY DEF Buffers
  <2>2. Reading(l, p, u, i3) BY <1>1, <1>3, <2>1, ReadingIs
  <2>3. \A b \in Unused(u, 0) : Leads(l, p, b, <<i3>>, Readable(u, 0))
    <3>1. \A b \in Unused(u, 0) : b \in Readable(u, 0) BY UnusedReadable
    <3> QED BY <2>2, <3>1, LeadsReading
  <2>4. \A b \in Readable(u, 0) : Leads(l, p, b, <<i2>>, Unused(u, 0)) BY <1>3, SyncReadable
  <2> QED BY <1>4, <2>3, <2>4, LeadsTwo
<1>8. Leads(l, p, a, s1 \o s2, Unused(u, 0)) BY <1>6, <1>7, LeadsJoin
<1> QED BY <1>1, <1>3, <1>4, <1>5, <1>8

\* The loads of K while those of Q are under way.
LEMMA KeysAfterQueries ==
  ASSUME NEW l, NEW p, NEW Q \in TileSet, NEW K \in TileSet, NEW bounds,
         ~ (p \in Places(l, "sQ") /\ p \in Places(l, "sK")), NEW d \in {0, 1},
         NEW a \in IF p \in Places(l, "sQ") THEN Coming(Q, d, d) ELSE Unused(Nothing, d)
  PROVE  Leads(l, p, a, <<Load("sK", K, bounds), Commit>>,
               IF p \in Places(l, "sQ") THEN Coming(Q, d + 1, d + 1)
               ELSE IF p \in Places(l, "sK") THEN Coming(K, 1, d + 1) ELSE Unused(Nothing, d + 1))
<1>1. PICK buf \in Buffers : buf = "sK" BY DEF Buffers
<1>2. d >= 0 /\ d < 2 OBVIOUS
<1>3. CASE p \in Places(l, "sQ")
  <2>1. a \in Coming(Q, d, d) /\ p \notin Places(l, buf) BY <1>1, <1>3
  <2>2. Leads(l, p, a, <<Load(buf, K, bounds), Commit>>, Coming(Q, d + 1, d + 1)) BY <1>2, <2>1, CopyAside
  <2> QED BY <1>1, <1>3, <2>2
<1>4. CASE p \notin Places(l, "sQ")
  <2>1. PICK t : t = Nothing OBVIOUS
  <2>2. a \in Unused(t, d) BY <1>4, <2>1
  <2>3. Leads(l, p, a, <<Load(buf, K, bounds), Commit>>,
              IF p \in Places(l, buf) THEN Coming(K, 1, d + 1) ELSE Unused(t, d + 1)) BY <1>2, <2>2, CopyIs
  <2> QED BY <1>1, <1>4, <2>1, <2>3
<1> QED BY <1>3, <1>4

\* Q goes to registers while K is still under way.
LEMMA QueriesToRegisters ==
  ASSUME NEW l, NEW p, NEW Q \in TileSet, NEW K \in TileSet,
         ~ (p \in Places(l, "sQ") /\ p \in Places(l, "sK")),
         NEW a \in IF p \in Places(l, "sQ") THEN Coming(Q, 2, 2)
                   ELSE IF p \in Places(l, "sK") THEN Coming(K, 1, 2) ELSE Unused(Nothing, 2)
  PROVE  Leads(l, p, a, <<Wait(1), Sync, UseRows("sQ", Q)>>,
               IF p \in Places(l, "sK") THEN Coming(K, 1, 1)
               ELSE Readable(IF p \in Places(l, "sQ") THEN Q ELSE Nothing, 1))
<1>1. PICK i1, i2, i3 : i1 = Wait(1) /\ i2 = Sync /\ i3 = UseRows("sQ", Q) OBVIOUS
<1>2. "sQ" \in Buffers BY DEF Buffers
<1>3. CASE p \in Places(l, "sK")
  <2>1. PICK g, d : g = 1 /\ d = 1 OBVIOUS
  <2>2. a \in At(K, {"written"}, g, 2) BY <1>3, <2>1 DEF Coming
  <2>3. Leads(l, p, a, <<i1>>, At(K, {"written"}, IF g > 1 THEN -1 ELSE g, 1)) BY <1>1, <2>2, WaitOneIs
  <2>4. Leads(l, p, a, <<i1>>, Coming(K, g, d)) BY <2>1, <2>3 DEF Coming
  <2>5. \A b \in Coming(K, g, d) : Leads(l, p, b, <<i2>>, Coming(K, g, d)) BY <1>1, <2>1, SyncComing
  <2>6. Aside(l, p, i3) BY <1>1, <1>2, <1>3, AsideIs
  <2>7. \A b \in Coming(K, g, d) : Leads(l, p, b, <<i3>>, Coming(K, g, d))
    <3>1. \A b \in Coming(K, g, d) : b \in PlaceStates BY DEF Coming, At
    <3> QED BY <2>6, <3>1, LeadsAside
  <2>8. Leads(l, p, a, <<i1, i2>>, Coming(K, g, d)) BY <2>4, <2>5, LeadsTwo
  <2>9. Leads(l, p, a, <<i1, i2, i3>>, Coming(K, g, d)) BY <2>7, <2>8, LeadsThree
  <2> QED BY <1>1, <1>3, <2>1, <2>9
<1>4. CASE p \notin Places(l, "sK")
  <2>1. PICK u, U, g : /\ u = IF p \in Places(l, "sQ") THEN Q ELSE Nothing
                       /\ U = IF p \in Places(l, "sQ") THEN {"written"} ELSE {"idle"}
                       /\ g = IF p \in Places(l, "sQ") THEN 2 ELSE -1
    OBVIOUS
  <2>2. a \in At(u, U, g, 2)
    <3>1. CASE p \in Places(l, "sQ") BY <2>1, <3>1 DEF Coming
    <3>2. CASE p \notin Places(l, "sQ") BY <1>4, <2>1, <3>2 DEF Unused
    <3> QED BY <3>1, <3>2
  <2>3. Leads(l, p, a, <<i1>>, At(u, U, IF g > 1 THEN -1 ELSE g, 1)) BY <1>1, <2>2, WaitOneIs
  <2>4. (IF g > 1 THEN -1 ELSE g) = -1 BY <2>1
  <2>5. Leads(l, p, a, <<i1>>, At(u, U, -1, 1)) BY <2>3, <2>4
  <2>6. \A b \in At(u, U, -1, 1) : Leads(l, p, b, <<i2>>, Unused(u, 1)) BY <1>1, SyncIs
  <2>7. \A b \in Unused(u, 1) : Leads(l, p, b, <<i3>>, Readable(u, 1))
    <3>1. Reading(l, p, u, i3) BY <1>1, <1>2, <2>1, ReadingIs
    <3>2. \A b \in Unused(u, 1) : b \in Readable(u, 1) BY UnusedReadable
    <3> QED BY <3>1, <3>2, LeadsReading
  <2>8. Leads(l, p, a, <<i1, i2>>, Unused(u, 1)) BY <2>5, <2>6, LeadsTwo
  <2>9. Leads(l, p, a, <<i1, i2, i3>>, Readable(u, 1)) BY <2>7, <2>8, LeadsThree
  <2> QED BY <1>1, <1>4, <2>1, <2>9
<1> QED BY <1>3, <1>4

\* The prologue, whatever the traits, leads to the first iteration.
LEMMA ForwardPrologueLeads ==
  ASSUME NEW l \in Launches, l.kernel # "bwd", FwdMin(l) < FwdMax(l), NEW p
  PROVE  Leads(l, p, Fresh, ForwardPrologue(l), ForwardBefore(l, p, FwdMax(l) - 1))
<1>1. ValidLaunch(l) BY LaunchesAreValid
<1>2. PICK k \in Int : k = FwdMax(l) - 1 /\ ~ (k < FwdMin(l))
  <2>1. FwdMin(l) \in Nat /\ FwdMax(l) \in Int BY <1>1, ForwardRange
  <2>2. FwdMax(l) - 1 \in Int /\ ~ (FwdMax(l) - 1 < FwdMin(l)) BY <2>1
  <2> QED BY <2>2
<1>3. PICK Q \in TileSet, K \in TileSet : Q = Tile("Q", l.block) /\ K = Tile("K", k)
  <2>1. l.block \in Int BY <1>1, LaunchIs
  <2>2. Tile("Q", l.block) \in TileSet /\ Tile("K", k) \in TileSet BY <2>1, TilesAre
  <2> QED BY <2>2
<1>4. PICK edge : edge = IF l.even THEN "all" ELSE "skip" OBVIOUS
<1>5. PICK c1 \in BOOLEAN, c2 \in BOOLEAN, c3 \in BOOLEAN :
        c1 = (l.traits # "plain") /\ c2 = (l.traits = "share") /\ c3 = (l.traits = "qregs")
  OBVIOUS
<1>6. PICK s1, s2, s3, s4, s5 :
        /\ s1 = <<Load("sQ", Q, edge)>>
        /\ s2 = <<Commit>>
        /\ s3 = <<Wait(0), Sync, UseRows("sQ", Q), Sync>>
        /\ s4 = <<Load("sK", K, edge), Commit>>
        /\ s5 = <<Wait(1), Sync, UseRows("sQ", Q)>>
  OBVIOUS
<1>7. ForwardPrologue(l) = (((s1 \o If(c1, s2)) \o If(c2, s3)) \o s4) \o If(c3, s5)
  BY <1>2, <1>3, <1>4, <1>5, <1>6 DEF ForwardPrologue
<1>8. PICK HQ \in BOOLEAN, HK \in BOOLEAN : (HQ <=> p \in Places(l, "sQ")) /\ (HK <=> p \in Places(l, "sK"))
  OBVIOUS
<1>9. PICK B1, B2, next :
        /\ B1 = IF p \in Places(l, "sQ") THEN Coming(Q, 0, 0) ELSE Unused(Nothing, 0)
        /\ B2 = IF p \in Places(l, "sQ") THEN Coming(Q, 1, 1) ELSE Unused(Nothing, 1)
        /\ next = ForwardBefore(l, p, k)
  OBVIOUS
<1>10. Leads(l, p, Fresh, s1, B1) BY <1>6, <1>9, FirstLoad
<1>11. \A b \in B1 : Leads(l, p, b, s2, B2)
  <2>1. PICK z, o : z = 0 /\ o = 1 /\ z < 2 /\ z + 1 = o /\ z >= 0 OBVIOUS
  <2>2. \A b \in Coming(Q, z, z) : Leads(l, p, b, <<Commit>>, Coming(Q, z + 1, z + 1)) BY <2>1, CommitComing
  <2>3. \A b \in Unused(Nothing, z) : Leads(l, p, b, <<Commit>>, Unused(Nothing, z + 1))
    BY <2>1, CommitUnused
  <2> QED BY <1>6, <1>9, <2>1, <2>2, <2>3
<1>12. ASSUME NEW b \in PlaceStates, b.age # 0, p \in Places(l, "sK") => b.tile = K,
              l.traits = "plain" /\ p \in Places(l, "sQ") => b.tile = Q
       PROVE  b \in next
  BY <1>2, <1>3, <1>9, <1>12 DEF ForwardBefore
<1>13. CASE l.traits = "share"
  <2>1. PICK u : u = IF p \in Places(l, "sQ") THEN Q ELSE Nothing OBVIOUS
  <2>2. PICK C : C = IF p \in Places(l, "sK") THEN Coming(K, 1, 1) ELSE Unused(u, 1) OBVIOUS
  <2>3. \A b \in B2 : Leads(l, p, b, s3, Unused(u, 0)) BY <1>6, <1>9, <2>1, SharedPrologue
  <2>4. \A b \in Unused(u, 0) : Leads(l, p, b, s4, C)
    <3>1. PICK z, o : z = 0 /\ o = 1 /\ z < 2 /\ z + 1 = o OBVIOUS
    <3>2. PICK buf \in Buffers : buf = "sK" BY DEF Buffers
    <3>3. \A b \in Unused(u, z) : Leads(l, p, b, <<Load(buf, K, edge), Commit>>,
                                        IF p \in Places(l, buf) THEN Coming(K, 1, z + 1) ELSE Unused(u, z + 1))
      BY <3>1, CopyIs
    <3> QED BY <1>6, <2>2, <3>1, <3>2, <3>3
  <2>5. C \subseteq next
    <3>1. \A b \in C : b \in PlaceStates /\ b.age # 0 /\ (p \in Places(l, "sK") => b.tile = K)
      BY <2>2 DEF Coming, Unused, At
    <3> QED BY <1>12, <1>13, <3>1
  <2>6. If(c1, s2) = s2 /\ If(c2, s3) = s3 /\ If(c3, s5) = <<>> BY <1>5, <1>13 DEF If
  <2>7. \A b \in Unused(u, 0) : Leads(l, p, b, s4, next) BY <2>4, <2>5, LeadsMore
  <2>8. \A b \in next : Leads(l, p, b, <<>>, next) BY LeadsNone
  <2>9. Leads(l, p, Fresh, s1 \o s2, B2) BY <1>10, <1>11, LeadsJoin
  <2>10. Leads(l, p, Fresh, (s1 \o s2) \o s3, Unused(u, 0)) BY <2>3, <2>9, LeadsJoin
  <2>11. Leads(l, p, Fresh, ((s1 \o s2) \o s3) \o s4, next) BY <2>7, <2>10, LeadsJoin
  <2>12. Leads(l, p, Fresh, (((s1 \o s2) \o s3) \o s4) \o <<>>, next) BY <2>8, <2>11, LeadsJoin
  <2> QED BY <1>2, <1>7, <1>9, <2>6, <2>12
<1>14. CASE l.traits # "share"
  <2>1. ~ (p \in Places(l, "sQ") /\ p \in Places(l, "sK")) BY <1>14, ForwardPlaces
  <2>2. PICK z \in {0, 1}, o \in {0, 1}, w \in {2} :
          z = 0 /\ o = 1 /\ w = 2 /\ z + 1 = o /\ o + 1 = w
    OBVIOUS
  <2>3. CASE l.traits = "plain"
    <3>1. If(c1, s2) = <<>> /\ If(c2, s3) = <<>> /\ If(c3, s5) = <<>> BY <1>5, <2>3 DEF If
    <3>2. PICK C : C = IF p \in Places(l, "sQ") THEN Coming(Q, o, o)
                       ELSE IF p \in Places(l, "sK") THEN Coming(K, 1, o) ELSE Unused(Nothing, o)
      OBVIOUS
    <3>3. \A b \in B1 : Leads(l, p, b, s4, C)
      <4>1. ASSUME NEW b \in IF p \in Places(l, "sQ") THEN Coming(Q, z, z) ELSE Unused(Nothing, z)
            PROVE  Leads(l, p, b, <<Load("sK", K, edge), Commit>>,
                         IF p \in Places(l, "sQ") THEN Coming(Q, z + 1, z + 1)
                         ELSE IF p \in Places(l, "sK") THEN Coming(K, 1, z + 1) ELSE Unused(Nothing, z + 1))
        BY <2>1, KeysAfterQueries
      <4> QED BY <1>6, <1>9, <2>2, <3>2, <4>1
    <3>4. C \subseteq next
      <4>1. \A b \in C : b \in PlaceStates /\ b.age # 0 /\ (p \in Places(l, "sK") => b.tile = K)
                         /\ (p \in Places(l, "sQ") => b.tile = Q)
        BY <2>1, <2>2, <3>2 DEF Coming, Unused, At
      <4> QED BY <1>12, <4>1
    <3>5. \A b \in B1 : Leads(l, p, b, <<>>, B1) BY LeadsNone
    <3>6. \A b \in next : Leads(l, p, b, <<>>, next) BY LeadsNone
    <3>7. \A b \in B1 : Leads(l, p, b, s4, next) BY <3>3, <3>4, LeadsMore
    <3>8. Leads(l, p, Fresh, s1 \o <<>>, B1) BY <1>10, <3>5, LeadsJoin
    <3>9. Leads(l, p, Fresh, (s1 \o <<>>) \o <<>>, B1) BY <3>5, <3>8, LeadsJoin
    <3>10. Leads(l, p, Fresh, ((s1 \o <<>>) \o <<>>) \o s4, next) BY <3>7, <3>9, LeadsJoin
    <3>11. Leads(l, p, Fresh, (((s1 \o <<>>) \o <<>>) \o s4) \o <<>>, next) BY <3>6, <3>10, LeadsJoin
    <3> QED BY <1>2, <1>7, <1>9, <3>1, <3>11
  <2>4. CASE l.traits # "plain"
    <3>0. l.traits = "qregs" BY <1>1, <1>14, <2>4 DEF ValidLaunch
    <3>1. If(c1, s2) = s2 /\ If(c2, s3) = <<>> /\ If(c3, s5) = s5 BY <1>5, <3>0 DEF If
    <3>2. PICK C, D :
            /\ C = IF p \in Places(l, "sQ") THEN Coming(Q, w, w)
                   ELSE IF p \in Places(l, "sK") THEN Coming(K, 1, w) ELSE Unused(Nothing, w)
            /\ D = IF p \in Places(l, "sK") THEN Coming(K, 1, 1)
                   ELSE Readable(IF p \in Places(l, "sQ") THEN Q ELSE Nothing, 1)
      OBVIOUS
    <3>3. \A b \in B2 : Leads(l, p, b, s4, C)
      <4>1. ASSUME NEW b \in IF p \in Places(l, "sQ") THEN Coming(Q, o, o) ELSE Unused(Nothing, o)
            PROVE  Leads(l, p, b, <<Load("sK", K, edge), Commit>>,
                         IF p \in Places(l, "sQ") THEN Coming(Q, o + 1, o + 1)
                         ELSE IF p \in Places(l, "sK") THEN Coming(K, 1, o + 1) ELSE Unused(Nothing, o + 1))
        BY <2>1, KeysAfterQueries
      <4> QED BY <1>6, <1>9, <2>2, <3>2, <4>1
    <3>4. \A b \in C : Leads(l, p, b, s5, D) BY <1>6, <2>1, <2>2, <3>2, QueriesToRegisters
    <3>5. D \subseteq next
      <4>1. \A b \in D : b \in PlaceStates /\ b.age # 0 /\ (p \in Places(l, "sK") => b.tile = K)
        BY <3>2 DEF Coming, Readable, At
      <4> QED BY <1>12, <2>4, <4>1
    <3>6. \A b \in B2 : Leads(l, p, b, <<>>, B2) BY LeadsNone
    <3>7. \A b \in C : Leads(l, p, b, s5, next) BY <3>4, <3>5, LeadsMore
    <3>8. Leads(l, p, Fresh, s1 \o s2, B2) BY <1>10, <1>11, LeadsJoin
    <3>9. Leads(l, p, Fresh, (s1 \o s2) \o <<>>, B2) BY <3>6, <3>8, LeadsJoin
    <3>10. Leads(l, p, Fresh, ((s1 \o s2) \o <<>>) \o s4, C) BY <3>3, <3>9, LeadsJoin
    <3>11. Leads(l, p, Fresh, (((s1 \o s2) \o <<>>) \o s4) \o s5, next) BY <3>7, <3>10, LeadsJoin
    <3> QED BY <1>2, <1>7, <1>9, <3>1, <3>11
  <2> QED BY <2>3, <2>4
<1> QED BY <1>13, <1>14

\* The output takes the place of what is no longer used.
LEMMA ForwardEpilogueLeads ==
  ASSUME NEW l \in Launches, l.kernel # "bwd", NEW p, NEW n \in Int, n < FwdMin(l),
         NEW a \in ForwardBefore(l, p, n)
  PROVE  Leads(l, p, a, ForwardEpilogue(l), PlaceStates)
<1>1. PICK wait \in BOOLEAN : wait = (l.traits = "share" \/ (l.kernel = "split" /\ l.num > 1)) OBVIOUS
<1>2. PICK O \in TileSet : O = Tile("O", l.block)
  <2>1. l.block \in Int BY LaunchesAreValid, LaunchIs
  <2>2. Tile("O", l.block) \in TileSet BY <2>1, TilesAre
  <2> QED BY <2>2
<1>3. PICK i1, i2, i3 : i1 = Put("sO", O) /\ i2 = Sync /\ i3 = Fetch("sO", O) OBVIOUS
<1>4. ForwardEpilogue(l) = If(wait, <<i2>>) \o <<i1, i2, i3>> BY <1>1, <1>2, <1>3 DEF ForwardEpilogue
<1>5. PICK buf \in Buffers : buf = "sO" BY DEF Buffers
<1>6. PICK t, d : t = a.tile /\ d = a.depth OBVIOUS
<1>7. a \in PlaceStates /\ a.age = -1 /\ (p \notin Places(l, "sV") => a.use = "idle")
  BY DEF ForwardBefore
<1>8. CASE p \in Places(l, buf)
  <2>1. a \in Unused(t, d)
    <3>1. p \notin Places(l, "sV") BY <1>5, <1>8, ForwardPlaces
    <3> QED BY <1>6, <1>7, <3>1 DEF Unused, At
  <2>2. \A b \in Unused(t, d) : Leads(l, p, b, <<i2>>, Unused(t, d))
    <3>1. \A b \in Unused(t, d) : b \in Readable(t, d) BY UnusedReadable
    <3> QED BY <1>3, <3>1, SyncReadable
  <2>3. Leads(l, p, a, If(wait, <<i2>>), Unused(t, d)) BY <2>1, <2>2, LeadsIf
  <2>4. \A b \in Unused(t, d) : Leads(l, p, b, <<i1>>, Stored(O, d))
    <3>1. \A b \in Unused(t, d) :
            Leads(l, p, b, <<Put(buf, O)>>, IF p \in Places(l, buf) THEN Stored(O, d) ELSE Unused(t, d))
      BY PutIs
    <3> QED BY <1>3, <1>5, <1>8, <3>1
  <2>5. \A b \in Stored(O, d) : Leads(l, p, b, <<i2>>, Unused(O, d))
    BY <1>3, SyncIs DEF Stored
  <2>6. \A b \in Unused(O, d) : Leads(l, p, b, <<i3>>, Readable(O, d))
    <3>1. \A b \in Unused(O, d) : b \in Readable(O, d) BY UnusedReadable
    <3>2. Reading(l, p, O, i3) BY <1>3, <1>5, ReadingIs
    <3> QED BY <3>1, <3>2, LeadsReading
  <2>7. \A b \in Unused(t, d) : Leads(l, p, b, <<i1, i2, i3>>, Readable(O, d))
    <3>1. \A b \in Unused(t, d) : Leads(l, p, b, <<i1, i2>>, Unused(O, d)) BY <2>4, <2>5, LeadsTwo
    <3> QED BY <2>6, <3>1, LeadsThree
  <2>8. Leads(l, p, a, If(wait, <<i2>>) \o <<i1, i2, i3>>, Readable(O, d)) BY <2>3, <2>7, LeadsJoin
  <2>9. Readable(O, d) \subseteq PlaceStates BY DEF Readable, At
  <2>10. Leads(l, p, a, If(wait, <<i2>>) \o <<i1, i2, i3>>, PlaceStates) BY <2>8, <2>9, LeadsMore
  <2> QED BY <1>4, <2>10
<1>9. CASE p \notin Places(l, buf)
  <2>1. PICK B : B = At(t, {"idle", "read", "written"}, -1, d) OBVIOUS
  <2>2. a \in B
    <3>1. a.use \in {"idle", "read", "written"} BY <1>7, StateIs
    <3> QED BY <1>6, <1>7, <2>1, <3>1 DEF At
  <2>3. \A b \in B : b \in PlaceStates BY <2>1 DEF At
  <2>4. \A b \in B : Leads(l, p, b, <<i2>>, B)
    <3>1. \A b \in B : Leads(l, p, b, <<i2>>, Unused(t, d)) BY <1>3, <2>1, SyncIs
    <3>2. Unused(t, d) \subseteq B BY <2>1 DEF Unused, At
    <3> QED BY <3>1, <3>2, LeadsMore
  <2>5. Aside(l, p, i1) /\ Aside(l, p, i3) BY <1>3, <1>5, <1>9, AsideIs
  <2>6. \A b \in B : Leads(l, p, b, <<i1>>, B) /\ Leads(l, p, b, <<i3>>, B) BY <2>3, <2>5, LeadsAside
  <2>7. \A b \in B : Leads(l, p, b, <<i1, i2, i3>>, B)
    <3>1. \A b \in B : Leads(l, p, b, <<i1, i2>>, B) BY <2>4, <2>6, LeadsTwo
    <3> QED BY <2>6, <3>1, LeadsThree
  <2>8. Leads(l, p, a, If(wait, <<i2>>), B) BY <2>2, <2>4, LeadsIf
  <2>9. Leads(l, p, a, If(wait, <<i2>>) \o <<i1, i2, i3>>, B) BY <2>7, <2>8, LeadsJoin
  <2>10. B \subseteq PlaceStates BY <2>3
  <2>11. Leads(l, p, a, If(wait, <<i2>>) \o <<i1, i2, i3>>, PlaceStates) BY <2>9, <2>10, LeadsMore
  <2> QED BY <1>4, <2>11
<1> QED BY <1>8, <1>9

\* The forward kernels keep the discipline.
LEMMA ForwardDisciplined ==
  ASSUME NEW l \in Launches, l.kernel # "bwd", NEW w, NEW p
  PROVE  Disciplined(l, p, ForwardCode(l, w))
<1>1. ValidLaunch(l) BY LaunchesAreValid
<1>2. CASE ~ (l.block * l.M < l.sq /\ FwdMin(l) < FwdMax(l))
  <2>1. ForwardCode(l, w) = <<>> BY <1>1, <1>2, ForwardCodeIs
  <2>2. Disciplined(l, p, <<>>)
    <3>1. \A k \in 1 .. Len(<<>>) : FALSE OBVIOUS
    <3> QED BY <3>1 DEF Disciplined
  <2> QED BY <2>1, <2>2
<1>3. CASE l.block * l.M < l.sq /\ FwdMin(l) < FwdMax(l)
  <2>1. PICK hi \in Nat, last \in Nat, lo \in Nat :
          hi = FwdMax(l) /\ last = LastMasked(l) /\ lo = FwdMin(l) /\ lo <= last /\ last < hi
    <3>1. /\ FwdMin(l) \in Nat /\ FwdMax(l) \in Int /\ LastMasked(l) \in Nat
          /\ FwdMin(l) <= LastMasked(l) /\ LastMasked(l) < FwdMax(l)
      BY <1>1, <1>3, ForwardRange, LastMaskedIs
    <3>2. FwdMax(l) \in Nat BY <3>1
    <3> QED BY <3>1, <3>2
  <2>2. PICK s1, s2, s3, s4 :
          /\ s1 = ForwardPrologue(l)
          /\ s2 = FlattenSeq([i \in 1 .. hi - last |-> ForwardStep(l, hi - i, TRUE)])
          /\ s3 = FlattenSeq([i \in 1 .. last - lo |-> ForwardStep(l, last - i, FALSE)])
          /\ s4 = ForwardEpilogue(l)
    OBVIOUS
  <2>3. PICK yes \in BOOLEAN, no \in BOOLEAN : yes = TRUE /\ no = FALSE OBVIOUS
  <2>4. ASSUME NEW k \in Nat, NEW top \in Nat, lo <= top - k, NEW masking \in BOOLEAN,
               NEW a \in ForwardBefore(l, p, top - 1)
        PROVE  Leads(l, p, a, FlattenSeq([i \in 1 .. k |-> ForwardStep(l, top - i, masking)]),
                     ForwardBefore(l, p, top - k - 1))
    <3>1. PICK segs, T : /\ segs = [i \in 1 .. k |-> ForwardStep(l, top - i, masking)]
                         /\ T = [i \in 0 .. k |-> ForwardBefore(l, p, top - i - 1)]
      OBVIOUS
    <3>2. DOMAIN segs = 1 .. k /\ segs = [i \in 1 .. k |-> segs[i]] BY <3>1
    <3>3. T[0] = ForwardBefore(l, p, top - 1) /\ T[k] = ForwardBefore(l, p, top - k - 1)
      <4>1. 0 \in 0 .. k /\ k \in 0 .. k /\ top - 0 - 1 = top - 1 OBVIOUS
      <4> QED BY <3>1, <4>1
    <3>4. ASSUME NEW i \in 1 .. k PROVE \A b \in T[i - 1] : Leads(l, p, b, segs[i], T[i])
      <4>1. PICK n \in Nat : n = top - i /\ lo <= n
        <5>1. top - i \in Nat /\ lo <= top - i BY <2>4
        <5> QED BY <5>1
      <4>2. i - 1 \in 0 .. k /\ i \in 0 .. k /\ top - (i - 1) - 1 = n /\ top - i - 1 = n - 1 BY <4>1
      <4>3. T[i - 1] = ForwardBefore(l, p, n) /\ T[i] = ForwardBefore(l, p, n - 1)
            /\ segs[i] = ForwardStep(l, n, masking)
        BY <3>1, <4>1, <4>2
      <4>4. \A b \in ForwardBefore(l, p, n) : Leads(l, p, b, ForwardStep(l, n, masking), ForwardBefore(l, p, n - 1))
        BY <2>1, <4>1, ForwardStepLeads
      <4> QED BY <4>3, <4>4
    <3>6. Leads(l, p, a, FlattenSeq(segs), T[k]) BY <2>4, <3>2, <3>3, <3>4, LeadsFlatten
    <3> QED BY <3>1, <3>3, <3>6
  <2>5. PICK A, B, C :
          /\ A = ForwardBefore(l, p, hi - 1) /\ B = ForwardBefore(l, p, last - 1) /\ C = ForwardBefore(l, p, lo - 1)
    OBVIOUS
  <2>6. Leads(l, p, Fresh, s1, A) BY <1>3, <2>1, <2>2, <2>5, ForwardPrologueLeads
  <2>7. \A a \in A : Leads(l, p, a, s2, B)
    <3>1. PICK k \in Nat : k = hi - last /\ lo <= hi - k /\ hi - k - 1 = last - 1
      <4>1. hi - last \in Nat /\ lo <= hi - (hi - last) /\ hi - (hi - last) - 1 = last - 1 BY <2>1
      <4> QED BY <4>1
    <3>2. \A a \in ForwardBefore(l, p, hi - 1) :
            Leads(l, p, a, FlattenSeq([i \in 1 .. k |-> ForwardStep(l, hi - i, yes)]),
                  ForwardBefore(l, p, hi - k - 1))
      BY <2>4, <3>1
    <3> QED BY <2>2, <2>3, <2>5, <3>1, <3>2
  <2>8. \A a \in B : Leads(l, p, a, s3, C)
    <3>1. PICK k \in Nat : k = last - lo /\ lo <= last - k /\ last - k - 1 = lo - 1
      <4>1. last - lo \in Nat /\ lo <= last - (last - lo) /\ last - (last - lo) - 1 = lo - 1 BY <2>1
      <4> QED BY <4>1
    <3>2. \A a \in ForwardBefore(l, p, last - 1) :
            Leads(l, p, a, FlattenSeq([i \in 1 .. k |-> ForwardStep(l, last - i, no)]),
                  ForwardBefore(l, p, last - k - 1))
      BY <2>4, <3>1
    <3> QED BY <2>2, <2>3, <2>5, <3>1, <3>2
  <2>9. \A a \in C : Leads(l, p, a, s4, PlaceStates)
    <3>1. PICK n \in Int : n = lo - 1 /\ n < lo
      <4>1. lo - 1 \in Int /\ lo - 1 < lo OBVIOUS
      <4> QED BY <4>1
    <3> QED BY <2>1, <2>2, <2>5, <3>1, ForwardEpilogueLeads
  <2>10. Leads(l, p, Fresh, s1 \o s2, B) BY <2>6, <2>7, LeadsJoin
  <2>11. Leads(l, p, Fresh, (s1 \o s2) \o s3, C) BY <2>8, <2>10, LeadsJoin
  <2>12. Leads(l, p, Fresh, ((s1 \o s2) \o s3) \o s4, PlaceStates) BY <2>9, <2>11, LeadsJoin
  <2>13. ForwardCode(l, w) = ((s1 \o s2) \o s3) \o s4
    <3>1. l.block * l.M < l.sq /\ ~ (l.block * l.M >= l.sq)
      <4>1. PICK m \in Nat, M \in Nat, sq \in Nat : m = l.block /\ M = l.M /\ sq = l.sq
        BY <1>1, LaunchIs, ShapeIs
      <4> QED BY <1>3, <4>1
    <3>2. ~ (FwdMax(l) <= FwdMin(l)) BY <2>1
    <3> QED BY <2>1, <2>2, <3>1, <3>2 DEF ForwardCode
  <2> QED BY <2>12, <2>13, LeadsDisciplined
<1> QED BY <1>2, <1>3

-----------------------------------------------------------------------------
(* The discipline of the backward kernel.                                   *)

\* Where it has its buffers: each by itself, but for P and dS, which lie where V was
\* if V is kept in registers.
LEMMA BackwardPlaces ==
  ASSUME NEW l \in Launches, l.kernel = "bwd", NEW p
  PROVE  /\ p \in Places(l, "sP") =>
              /\ p \notin Places(l, "sQ") /\ p \notin Places(l, "sQ2") /\ p \notin Places(l, "sdO")
              /\ p \notin Places(l, "sK") /\ p \notin Places(l, "sdS")
              /\ ~ VInRegs(l) => p \notin Places(l, "sV")
         /\ p \in Places(l, "sdS") =>
              /\ p \notin Places(l, "sQ") /\ p \notin Places(l, "sQ2") /\ p \notin Places(l, "sdO")
              /\ p \notin Places(l, "sK")
              /\ ~ VInRegs(l) => p \notin Places(l, "sV")
         /\ p \in Places(l, "sQ") =>
              /\ p \notin Places(l, "sQ2") /\ p \notin Places(l, "sdO") /\ p \notin Places(l, "sK")
              /\ p \notin Places(l, "sV")
         /\ p \in Places(l, "sQ2") =>
              p \notin Places(l, "sdO") /\ p \notin Places(l, "sK") /\ p \notin Places(l, "sV")
         /\ p \in Places(l, "sdO") => p \notin Places(l, "sK") /\ p \notin Places(l, "sV")
         /\ p \in Places(l, "sK") => p \notin Places(l, "sV")
         /\ p \in Places(l, "sdK") => p \notin Places(l, "sdV")
<1>1. \A buf \in {"sQ", "sQ2", "sdO", "sK", "sV", "sdS", "sP", "sdK", "sdV"} :
        Places(l, buf) = KernelPlaces(l, buf)
  BY KernelsRun DEF Buffers
<1>2. /\ Places(l, "sQ") = {"q"} /\ Places(l, "sQ2") = {"q2"} /\ Places(l, "sdO") = {"do"}
      /\ Places(l, "sK") = {"k"} /\ Places(l, "sV") = {"v", "v2"}
      /\ Places(l, "sdS") = IF VInRegs(l) THEN {"v"} ELSE {"ds"}
      /\ Places(l, "sP") = IF VInRegs(l) THEN {"v2"} ELSE {"p"}
      /\ Places(l, "sdK") = {"k"} /\ Places(l, "sdV") = {"v", "v2"}
  <2>1. l.traits # "share"
    <3>1. ValidLaunch(l) BY LaunchesAreValid
    <3> QED BY <3>1 DEF ValidLaunch
  <2> QED BY <1>1, <2>1 DEF KernelPlaces
<1> QED BY <1>2

\* The buffer of sQ that holds block m of queries.
Slot(l, m) == IF DoubleBuffer(l) THEN m % 2 ELSE 0

\* It is one of two; with two, the next block is in the other.
LEMMA SlotIs ==
  ASSUME NEW l, NEW m \in Int
  PROVE  /\ QSlot(Slot(l, m)) \in {"sQ", "sQ2"}
         /\ ~ DoubleBuffer(l) => QSlot(Slot(l, m)) = "sQ"
         /\ DoubleBuffer(l) => QSlot(Slot(l, m)) # QSlot(Slot(l, m - 1))
         /\ DoubleBuffer(l) => Slot(l, m - 1) = IF m % 2 = 0 THEN Slot(l, m) + 1 ELSE Slot(l, m) - 1
<1>1. m % 2 \in {0, 1} /\ (m - 1) % 2 = 1 - (m % 2) OBVIOUS
<1> QED BY <1>1 DEF Slot, QSlot

\* The pointers into sQ move from one buffer to the other as the blocks do.
LEMMA SlotsFollow ==
  ASSUME NEW l, ValidLaunch(l), NEW n \in Nat, NEW first \in Nat,
         NEW k \in 0 .. first - MBlockMin(l, n)
  PROVE  PointersFrom(l, n, first)[k].q = Slot(l, first - k) /\ PointersFrom(l, n, first)[k].qt = Slot(l, first - k)
<1>1. PICK lo \in Nat : lo = MBlockMin(l, n)
  <2>1. PICK z \in Nat : z = 0 OBVIOUS
  <2> QED BY <2>1, LaunchIs, BackwardBlocks
<1>2. PICK ptr : ptr = PointersFrom(l, n, first) /\ PointersUpTo(ptr, l, n, first, first)
  BY PointersAre
<1> DEFINE Good == {i \in Nat : i <= first - lo => ptr[i].q = Slot(l, first - i) /\ ptr[i].qt = Slot(l, first - i)}
<1>3. 0 \in Good
  <2>1. ptr[0] = BackwardPointers(l, first) BY <1>2 DEF PointersUpTo
  <2>2. ptr[0].q = Slot(l, first) /\ ptr[0].qt = Slot(l, first) BY <2>1 DEF BackwardPointers, Slot
  <2> QED BY <2>2
<1>4. ASSUME NEW i \in Nat, i < first - lo, i \in Good PROVE i + 1 \in Good
  <2>1. i + 1 \in 0 .. first /\ i + 1 # 0 /\ (i + 1) - 1 = i BY <1>1, <1>4
  <2>2. PICK m \in Nat : m = first - i /\ m > MBlockMin(l, n) /\ m - 1 = first - (i + 1)
    <3>1. first - i \in Nat /\ first - i > lo /\ (first - i) - 1 = first - (i + 1) BY <1>1, <1>4
    <3> QED BY <1>1, <3>1
  <2>3. ptr[i + 1] = Advanced(l, n, m, ptr[i]) BY <1>2, <2>1, <2>2 DEF PointersUpTo
  <2>4. PICK q : q = Slot(l, m) /\ ptr[i].q = q /\ ptr[i].qt = q BY <1>4, <2>2
  <2>5. CASE DoubleBuffer(l)
    <3>1. Slot(l, m - 1) = IF m % 2 = 0 THEN q + 1 ELSE q - 1 BY <2>4, <2>5, SlotIs
    <3>2. q \in Int BY <2>4 DEF Slot
    <3>3. ptr[i + 1].q = q + (IF m % 2 = 0 THEN 1 ELSE -1) /\ ptr[i + 1].qt = q + (IF m % 2 = 0 THEN 1 ELSE -1)
      BY <2>2, <2>3, <2>4, <2>5 DEF Advanced
    <3>4. ptr[i + 1].q = Slot(l, m - 1) /\ ptr[i + 1].qt = Slot(l, m - 1) BY <3>1, <3>2, <3>3
    <3> QED BY <2>2, <3>4
  <2>6. CASE ~ DoubleBuffer(l)
    <3>1. ptr[i + 1].q = q /\ ptr[i + 1].qt = q BY <2>3, <2>4, <2>6 DEF Advanced
    <3>2. Slot(l, m - 1) = q BY <2>4, <2>6 DEF Slot
    <3> QED BY <2>2, <3>1, <3>2
  <2> QED BY <2>5, <2>6
<1>5. k \in Nat /\ k <= first - lo /\ first - lo \in Nat BY <1>1
<1>6. k \in Good
  <2> HIDE DEF Good
  <2>1. \A i \in 0 .. first - lo : i \in Good BY <1>3, <1>4, <1>5, UpTo
  <2> QED BY <1>5, <2>1
<1> QED BY <1>2, <1>5, <1>6

\* Where they point after the iteration of block m, if there is another.
LEMMA NextSlot ==
  ASSUME NEW l, NEW n, NEW m \in Int, m > MBlockMin(l, n), NEW ptr, ptr.q = Slot(l, m)
  PROVE  Advanced(l, n, m, ptr).q = Slot(l, m - 1)
<1>1. PICK q \in Int : q = Slot(l, m)
  <2>1. Slot(l, m) \in Int BY DEF Slot
  <2> QED BY <2>1
<1>2. CASE DoubleBuffer(l)
  <2>1. Slot(l, m - 1) = IF m % 2 = 0 THEN q + 1 ELSE q - 1 BY <1>1, <1>2, SlotIs
  <2>2. Advanced(l, n, m, ptr).q = q + (IF m % 2 = 0 THEN 1 ELSE -1) BY <1>1, <1>2 DEF Advanced
  <2> QED BY <1>1, <2>1, <2>2
<1>3. CASE ~ DoubleBuffer(l)
  <2>1. Advanced(l, n, m, ptr).q = q BY <1>1, <1>3 DEF Advanced
  <2> QED BY <1>1, <1>3, <2>1 DEF Slot
<1> QED BY <1>2, <1>3

\* A copy to other places.
LEMMA LoadAside ==
  ASSUME NEW l, NEW p, NEW buf \in Buffers, p \notin Places(l, buf), NEW tile, NEW bounds
  PROVE  Aside(l, p, Load(buf, tile, bounds))
BY DEF Aside, Load

\* Two reads, here or elsewhere.
LEMMA ReadingTwo ==
  ASSUME NEW l, NEW p, NEW t, NEW d, NEW a \in Readable(t, d), NEW i1, NEW i2,
         Reading(l, p, t, i1), Reading(l, p, t, i2)
  PROVE  Leads(l, p, a, <<i1, i2>>, Readable(t, d))
<1>1. \A b \in Readable(t, d) : Leads(l, p, b, <<i1>>, Readable(t, d)) /\ Leads(l, p, b, <<i2>>, Readable(t, d))
  BY LeadsReading
<1> QED BY <1>1, LeadsTwo

\* Three.
LEMMA ReadingThree ==
  ASSUME NEW l, NEW p, NEW t, NEW d, NEW a \in Readable(t, d), NEW i1, NEW i2, NEW i3,
         Reading(l, p, t, i1), Reading(l, p, t, i2), Reading(l, p, t, i3)
  PROVE  Leads(l, p, a, <<i1, i2, i3>>, Readable(t, d))
<1>1. Leads(l, p, a, <<i1, i2>>, Readable(t, d)) BY ReadingTwo
<1>2. \A b \in Readable(t, d) : Leads(l, p, b, <<i3>>, Readable(t, d)) BY LeadsReading
<1> QED BY <1>1, <1>2, LeadsThree

\* Two instructions that leave the place alone.
LEMMA AsideTwo ==
  ASSUME NEW l, NEW p, NEW B, B \subseteq PlaceStates, NEW a \in B, NEW i1, NEW i2,
         Aside(l, p, i1), Aside(l, p, i2)
  PROVE  Leads(l, p, a, <<i1, i2>>, B)
<1>1. \A b \in B : Leads(l, p, b, <<i1>>, B) /\ Leads(l, p, b, <<i2>>, B) BY LeadsAside
<1> QED BY <1>1, LeadsTwo

\* Three.
LEMMA AsideThree ==
  ASSUME NEW l, NEW p, NEW B, B \subseteq PlaceStates, NEW a \in B, NEW i1, NEW i2, NEW i3,
         Aside(l, p, i1), Aside(l, p, i2), Aside(l, p, i3)
  PROVE  Leads(l, p, a, <<i1, i2, i3>>, B)
<1>1. Leads(l, p, a, <<i1, i2>>, B) BY AsideTwo
<1>2. \A b \in B : Leads(l, p, b, <<i3>>, B) BY LeadsAside
<1> QED BY <1>1, <1>2, LeadsThree

\* A group of copies to other places: one more is outstanding.
LEMMA CopyElsewhere ==
  ASSUME NEW l, NEW p, NEW t, NEW U, NEW d, d < 2, NEW a \in At(t, U, -1, d), NEW buf \in Buffers,
         p \notin Places(l, buf), NEW tile, NEW bounds
  PROVE  Leads(l, p, a, <<Load(buf, tile, bounds), Commit>>, At(t, U, -1, d + 1))
<1>1. PICK i1, i2, g, B : i1 = Load(buf, tile, bounds) /\ i2 = Commit /\ g = -1 /\ B = At(t, U, g, d) OBVIOUS
<1>2. Aside(l, p, i1) BY <1>1, LoadAside
<1>3. \A b \in B : b \in PlaceStates BY <1>1 DEF At
<1>4. Leads(l, p, a, <<i1>>, B) BY <1>1, <1>2, <1>3, LeadsAside
<1>5. \A b \in B : Leads(l, p, b, <<i2>>, At(t, U, -1, d + 1))
  <2>1. \A b \in At(t, U, g, d) : Leads(l, p, b, <<i2>>, At(t, U, IF g >= 0 THEN g + 1 ELSE g, d + 1))
    BY <1>1, CommitIs
  <2>2. (IF g >= 0 THEN g + 1 ELSE g) = -1 BY <1>1
  <2> QED BY <1>1, <2>1, <2>2
<1>6. Leads(l, p, a, <<i1, i2>>, At(t, U, -1, d + 1)) BY <1>4, <1>5, LeadsTwo
<1> QED BY <1>1, <1>6

\* S and P, dP and dS, and the next Q: P and dS are put where nothing is read any
\* more, and the next Q comes to the buffer that this iteration does not read.
LEMMA BackwardScoresLead ==
  ASSUME NEW l \in Launches, l.kernel = "bwd", NEW p, NEW n \in Int, NEW m \in Int, NEW ptr, NEW next,
         NEW q1 \in {"sQ", "sQ2"}, q1 = QSlot(ptr.q), NEW q2 \in {"sQ", "sQ2"}, q2 = QSlot(next.q),
         NEW flip \in BOOLEAN, flip <=> (DoubleBuffer(l) /\ m > MBlockMin(l, n)), flip => q1 # q2,
         NEW t, NEW a \in Unused(t, 0),
         p \in Places(l, q1) => t = Tile("Q", m), p \in Places(l, "sK") => t = Tile("K", n),
         p \in Places(l, "sdO") => t = Tile("dO", m),
         ~ VInRegs(l) /\ p \in Places(l, "sV") => t = Tile("V", n),
         NEW u, u = (IF p \in Places(l, "sP") THEN Tile("P", m)
                     ELSE IF p \in Places(l, "sdS") THEN Tile("dS", m) ELSE t),
         NEW d1, d1 = (IF flip THEN 1 ELSE 0)
  PROVE  /\ flip /\ p \in Places(l, q2) =>
              Leads(l, p, a, BackwardScores(l, n, m, ptr, next), Coming(Tile("Q", m - 1), 1, 1))
         /\ ~ (flip /\ p \in Places(l, q2)) =>
              Leads(l, p, a, BackwardScores(l, n, m, ptr, next), Unused(u, d1))
<1>1. PICK live \in BOOLEAN, outside \in BOOLEAN : live = ~ Skipped(l, m, n) /\ outside = ~ VInRegs(l)
  BY DEF Skipped, VInRegs
<1>2. PICK P \in TileSet, S \in TileSet, Q \in TileSet :
        P = Tile("P", m) /\ S = Tile("dS", m) /\ Q = Tile("Q", m - 1)
  <2>1. m - 1 \in Int OBVIOUS
  <2>2. Tile("P", m) \in TileSet /\ Tile("dS", m) \in TileSet /\ Tile("Q", m - 1) \in TileSet BY <2>1, TilesAre
  <2> QED BY <2>2
<1>3. PICK i1, i2, i3, i4, i5, i6, i7 :
        /\ i1 = Use(q1, Tile("Q", m)) /\ i2 = Use("sK", Tile("K", n)) /\ i3 = Put("sP", P)
        /\ i4 = Use("sdO", Tile("dO", m)) /\ i5 = Use("sV", Tile("V", n))
        /\ i6 = Put("sdS", S) /\ i7 = Sync
  OBVIOUS
<1>4. PICK d : d = <<Load(q2, Q, "all"), Commit>> OBVIOUS
<1>5. BackwardScores(l, n, m, ptr, next) =
        (((If(live, <<i1, i2>>) \o <<i3>>) \o If(live, <<i4>> \o If(outside, <<i5>>))) \o If(flip, d)) \o <<i6, i7>>
  BY <1>1, <1>2, <1>3, <1>4 DEF BackwardScores, If
<1>6. /\ q1 \in Buffers /\ q2 \in Buffers /\ "sK" \in Buffers /\ "sP" \in Buffers /\ "sdO" \in Buffers
      /\ "sV" \in Buffers /\ "sdS" \in Buffers
  BY DEF Buffers
<1>7. PICK s1, s2, s3, s4, s5 :
        /\ s1 = If(live, <<i1, i2>>) /\ s2 = <<i3>> /\ s3 = If(live, <<i4>> \o If(outside, <<i5>>))
        /\ s4 = If(flip, d) /\ s5 = <<i6, i7>>
  OBVIOUS
<1>8. PICK z, o, e : z = 0 /\ o = 1 /\ z < 2 /\ z + 1 = o /\ e = IF flip THEN o ELSE z OBVIOUS
<1>9. ASSUME NEW x, NEW U, p \notin Places(l, q2), NEW b \in At(x, U, -1, z)
      PROVE  Leads(l, p, b, s4, At(x, U, -1, e))
  <2>1. CASE flip
    <3>1. Leads(l, p, b, d, At(x, U, -1, z + 1)) BY <1>4, <1>6, <1>8, <1>9, CopyElsewhere
    <3> QED BY <1>7, <1>8, <2>1, <3>1 DEF If
  <2>2. CASE ~ flip
    <3>1. s4 = <<>> /\ b \in At(x, U, -1, e) BY <1>7, <1>8, <1>9, <2>2 DEF If
    <3> QED BY <3>1, LeadsNone
  <2> QED BY <2>1, <2>2
<1>10. ASSUME NEW x, NEW U, NEW b \in At(x, U, -1, z), ~ flip
       PROVE  Leads(l, p, b, s4, At(x, U, -1, e))
  <2>1. s4 = <<>> /\ b \in At(x, U, -1, e) BY <1>7, <1>8, <1>10 DEF If
  <2> QED BY <2>1, LeadsNone
<1>11. ASSUME NEW B, B \subseteq PlaceStates, p \notin Places(l, q1), p \notin Places(l, "sK")
       PROVE  \A b \in B : Leads(l, p, b, s1, B)
  <2>1. Aside(l, p, i1) /\ Aside(l, p, i2) BY <1>3, <1>6, <1>11, AsideIs
  <2> QED BY <1>7, <1>11, <2>1, AsideTwo, LeadsIf
<1>12. ASSUME NEW B, B \subseteq PlaceStates, p \notin Places(l, "sdO"), outside => p \notin Places(l, "sV")
       PROVE  \A b \in B : Leads(l, p, b, s3, B)
  <2>1. Aside(l, p, i4) BY <1>3, <1>6, <1>12, AsideIs
  <2>2. outside => Aside(l, p, i5) BY <1>3, <1>6, <1>12, AsideIs
  <2>3. \A b \in B : Leads(l, p, b, <<i4>>, B) BY <1>12, <2>1, LeadsAside
  <2>4. \A b \in B : Leads(l, p, b, If(outside, <<i5>>), B) BY <1>12, <2>2, LeadsAside, LeadsIf
  <2>5. \A b \in B : Leads(l, p, b, <<i4>> \o If(outside, <<i5>>), B) BY <2>3, <2>4, LeadsJoin
  <2> QED BY <1>7, <2>5, LeadsIf
<1>13. CASE p \in Places(l, "sP")
  <2>1. /\ p \notin Places(l, q1) /\ p \notin Places(l, q2) /\ p \notin Places(l, "sdO")
        /\ p \notin Places(l, "sK") /\ p \notin Places(l, "sdS") /\ (outside => p \notin Places(l, "sV"))
    BY <1>1, <1>13, BackwardPlaces
  <2>2. Unused(t, z) \subseteq PlaceStates /\ Stored(P, z) \subseteq PlaceStates /\ Stored(P, e) \subseteq PlaceStates
    BY DEF Unused, Stored, At
  <2>3. Leads(l, p, a, s1, Unused(t, z)) BY <1>8, <1>11, <2>1, <2>2
  <2>4. \A b \in Unused(t, z) : Leads(l, p, b, s2, Stored(P, z))
    <3>1. PICK buf \in Buffers : buf = "sP" BY <1>6
    <3>2. \A b \in Unused(t, z) :
            Leads(l, p, b, <<Put(buf, P)>>, IF p \in Places(l, buf) THEN Stored(P, z) ELSE Unused(t, z))
      BY PutIs
    <3> QED BY <1>3, <1>7, <1>13, <3>1, <3>2
  <2>5. \A b \in Stored(P, z) : Leads(l, p, b, s3, Stored(P, z)) BY <1>12, <2>1, <2>2
  <2>6. \A b \in Stored(P, z) : Leads(l, p, b, s4, Stored(P, e)) BY <1>9, <2>1 DEF Stored
  <2>7. \A b \in Stored(P, e) : Leads(l, p, b, s5, Unused(P, e))
    <3>1. Aside(l, p, i6) BY <1>3, <1>6, <2>1, AsideIs
    <3>2. \A b \in Stored(P, e) : Leads(l, p, b, <<i6>>, Stored(P, e)) BY <2>2, <3>1, LeadsAside
    <3>3. \A b \in Stored(P, e) : Leads(l, p, b, <<i7>>, Unused(P, e)) BY <1>3, SyncIs DEF Stored
    <3> QED BY <1>7, <3>2, <3>3, LeadsTwo
  <2>8. Leads(l, p, a, s1 \o s2, Stored(P, z)) BY <2>3, <2>4, LeadsJoin
  <2>9. Leads(l, p, a, (s1 \o s2) \o s3, Stored(P, z)) BY <2>5, <2>8, LeadsJoin
  <2>10. Leads(l, p, a, ((s1 \o s2) \o s3) \o s4, Stored(P, e)) BY <2>6, <2>9, LeadsJoin
  <2>11. Leads(l, p, a, (((s1 \o s2) \o s3) \o s4) \o s5, Unused(P, e)) BY <2>7, <2>10, LeadsJoin
  <2> QED BY <1>2, <1>5, <1>7, <1>8, <1>13, <2>1, <2>11
<1>14. CASE p \in Places(l, "sdS")
  <2>1. /\ p \notin Places(l, q1) /\ p \notin Places(l, q2) /\ p \notin Places(l, "sdO")
        /\ p \notin Places(l, "sK") /\ p \notin Places(l, "sP") /\ (outside => p \notin Places(l, "sV"))
    BY <1>1, <1>14, BackwardPlaces
  <2>2. Unused(t, z) \subseteq PlaceStates BY DEF Unused, At
  <2>3. Leads(l, p, a, s1, Unused(t, z)) BY <1>8, <1>11, <2>1, <2>2
  <2>4. \A b \in Unused(t, z) : Leads(l, p, b, s2, Unused(t, z))
    <3>1. Aside(l, p, i3) BY <1>3, <1>6, <2>1, AsideIs
    <3> QED BY <1>7, <2>2, <3>1, LeadsAside
  <2>5. \A b \in Unused(t, z) : Leads(l, p, b, s3, Unused(t, z)) BY <1>12, <2>1, <2>2
  <2>6. \A b \in Unused(t, z) : Leads(l, p, b, s4, Unused(t, e)) BY <1>9, <2>1 DEF Unused
  <2>7. \A b \in Unused(t, e) : Leads(l, p, b, s5, Unused(S, e))
    <3>1. PICK buf \in Buffers : buf = "sdS" BY <1>6
    <3>2. \A b \in Unused(t, e) :
            Leads(l, p, b, <<Put(buf, S)>>, IF p \in Places(l, buf) THEN Stored(S, e) ELSE Unused(t, e))
      BY PutIs
    <3>3. \A b \in Unused(t, e) : Leads(l, p, b, <<i6>>, Stored(S, e)) BY <1>3, <1>14, <3>1, <3>2
    <3>4. \A b \in Stored(S, e) : Leads(l, p, b, <<i7>>, Unused(S, e)) BY <1>3, SyncIs DEF Stored
    <3> QED BY <1>7, <3>3, <3>4, LeadsTwo
  <2>8. Leads(l, p, a, s1 \o s2, Unused(t, z)) BY <2>3, <2>4, LeadsJoin
  <2>9. Leads(l, p, a, (s1 \o s2) \o s3, Unused(t, z)) BY <2>5, <2>8, LeadsJoin
  <2>10. Leads(l, p, a, ((s1 \o s2) \o s3) \o s4, Unused(t, e)) BY <2>6, <2>9, LeadsJoin
  <2>11. Leads(l, p, a, (((s1 \o s2) \o s3) \o s4) \o s5, Unused(S, e)) BY <2>7, <2>10, LeadsJoin
  <2> QED BY <1>2, <1>5, <1>7, <1>8, <1>14, <2>1, <2>11
<1>15. CASE p \notin Places(l, "sP") /\ p \notin Places(l, "sdS") /\ flip /\ p \in Places(l, q2)
  <2>1. /\ p \notin Places(l, q1) /\ p \notin Places(l, "sdO") /\ p \notin Places(l, "sK")
        /\ p \notin Places(l, "sV")
    BY <1>15, BackwardPlaces
  <2>2. Unused(t, z) \subseteq PlaceStates /\ Coming(Q, o, o) \subseteq PlaceStates BY DEF Unused, Coming, At
  <2>3. Leads(l, p, a, s1, Unused(t, z)) BY <1>8, <1>11, <2>1, <2>2
  <2>4. \A b \in Unused(t, z) : Leads(l, p, b, s2, Unused(t, z))
    <3>1. Aside(l, p, i3) BY <1>3, <1>6, <1>15, AsideIs
    <3> QED BY <1>7, <2>2, <3>1, LeadsAside
  <2>5. \A b \in Unused(t, z) : Leads(l, p, b, s3, Unused(t, z)) BY <1>12, <2>1, <2>2
  <2>6. \A b \in Unused(t, z) : Leads(l, p, b, s4, Coming(Q, o, o))
    <3>1. PICK buf \in Buffers : buf = q2 BY <1>6
    <3>2. PICK bounds : bounds = "all" OBVIOUS
    <3>3. \A b \in Unused(t, z) :
            Leads(l, p, b, <<Load(buf, Q, bounds), Commit>>,
                  IF p \in Places(l, buf) THEN Coming(Q, 1, z + 1) ELSE Unused(t, z + 1))
      BY <1>8, CopyIs
    <3>4. s4 = d BY <1>7, <1>15 DEF If
    <3>5. \A b \in Unused(t, z) : Leads(l, p, b, d, Coming(Q, o, o))
      BY <1>4, <1>8, <1>15, <3>1, <3>2, <3>3
    <3> QED BY <3>4, <3>5
  <2>7. \A b \in Coming(Q, o, o) : Leads(l, p, b, s5, Coming(Q, o, o))
    <3>1. Aside(l, p, i6) BY <1>3, <1>6, <1>15, AsideIs
    <3>2. \A b \in Coming(Q, o, o) : Leads(l, p, b, <<i6>>, Coming(Q, o, o)) BY <2>2, <3>1, LeadsAside
    <3>3. \A b \in Coming(Q, o, o) : Leads(l, p, b, <<i7>>, Coming(Q, o, o)) BY <1>3, <1>8, SyncComing
    <3> QED BY <1>7, <3>2, <3>3, LeadsTwo
  <2>8. Leads(l, p, a, s1 \o s2, Unused(t, z)) BY <2>3, <2>4, LeadsJoin
  <2>9. Leads(l, p, a, (s1 \o s2) \o s3, Unused(t, z)) BY <2>5, <2>8, LeadsJoin
  <2>10. Leads(l, p, a, ((s1 \o s2) \o s3) \o s4, Coming(Q, o, o)) BY <2>6, <2>9, LeadsJoin
  <2>11. Leads(l, p, a, (((s1 \o s2) \o s3) \o s4) \o s5, Coming(Q, o, o)) BY <2>7, <2>10, LeadsJoin
  <2> QED BY <1>2, <1>5, <1>7, <1>8, <1>15, <2>11
<1>16. CASE p \notin Places(l, "sP") /\ p \notin Places(l, "sdS") /\ ~ (flip /\ p \in Places(l, q2))
  <2>1. Readable(t, z) \subseteq PlaceStates /\ Readable(t, e) \subseteq PlaceStates BY DEF Readable, At
  <2>2. a \in Readable(t, z) BY <1>8, UnusedReadable
  <2>3. Leads(l, p, a, s1, Readable(t, z))
    <3>1. Reading(l, p, t, i1) /\ Reading(l, p, t, i2) BY <1>3, <1>6, ReadingIs
    <3>2. Leads(l, p, a, <<i1, i2>>, Readable(t, z)) BY <2>2, <3>1, ReadingTwo
    <3> QED BY <1>7, <2>2, <3>2, LeadsIf
  <2>4. \A b \in Readable(t, z) : Leads(l, p, b, s2, Readable(t, z))
    <3>1. Aside(l, p, i3) BY <1>3, <1>6, <1>16, AsideIs
    <3> QED BY <1>7, <2>1, <3>1, LeadsAside
  <2>5. \A b \in Readable(t, z) : Leads(l, p, b, s3, Readable(t, z))
    <3>1. Reading(l, p, t, i4) BY <1>3, <1>6, ReadingIs
    <3>2. outside => Reading(l, p, t, i5) BY <1>1, <1>3, <1>6, ReadingIs
    <3>3. \A b \in Readable(t, z) : Leads(l, p, b, <<i4>>, Readable(t, z)) BY <3>1, LeadsReading
    <3>4. \A b \in Readable(t, z) : Leads(l, p, b, If(outside, <<i5>>), Readable(t, z))
      BY <3>2, LeadsReading, LeadsIf
    <3>5. \A b \in Readable(t, z) : Leads(l, p, b, <<i4>> \o If(outside, <<i5>>), Readable(t, z))
      BY <3>3, <3>4, LeadsJoin
    <3> QED BY <1>7, <3>5, LeadsIf
  <2>6. \A b \in Readable(t, z) : Leads(l, p, b, s4, Readable(t, e))
    <3>1. CASE flip BY <1>9, <1>16, <3>1 DEF Readable
    <3>2. CASE ~ flip BY <1>10, <3>2 DEF Readable
    <3> QED BY <3>1, <3>2
  <2>7. \A b \in Readable(t, e) : Leads(l, p, b, s5, Unused(t, e))
    <3>1. Aside(l, p, i6) BY <1>3, <1>6, <1>16, AsideIs
    <3>2. \A b \in Readable(t, e) : Leads(l, p, b, <<i6>>, Readable(t, e)) BY <2>1, <3>1, LeadsAside
    <3>3. \A b \in Readable(t, e) : Leads(l, p, b, <<i7>>, Unused(t, e)) BY <1>3, SyncReadable
    <3> QED BY <1>7, <3>2, <3>3, LeadsTwo
  <2>8. Leads(l, p, a, s1 \o s2, Readable(t, z)) BY <2>3, <2>4, LeadsJoin
  <2>9. Leads(l, p, a, (s1 \o s2) \o s3, Readable(t, z)) BY <2>5, <2>8, LeadsJoin
  <2>10. Leads(l, p, a, ((s1 \o s2) \o s3) \o s4, Readable(t, e)) BY <2>6, <2>9, LeadsJoin
  <2>11. Leads(l, p, a, (((s1 \o s2) \o s3) \o s4) \o s5, Unused(t, e)) BY <2>7, <2>10, LeadsJoin
  <2> QED BY <1>5, <1>7, <1>8, <1>16, <2>11
<1> QED BY <1>13, <1>14, <1>15, <1>16

\* One instruction, then two.
LEMMA OneThenTwo ==
  ASSUME NEW i1, NEW i2, NEW i3
  PROVE  <<i1, i2, i3>> = <<i1>> \o <<i2, i3>>
<1>1. PICK s, t, r : s = <<i1>> /\ t = <<i2, i3>> /\ r = s \o t OBVIOUS
<1>2. s \in Seq({i1, i2, i3}) /\ t \in Seq({i1, i2, i3}) /\ Len(s) = 1 /\ Len(t) = 2 BY <1>1
<1>3. r \in Seq({i1, i2, i3}) /\ Len(r) = 3 /\ r[1] = i1 /\ r[2] = i2 /\ r[3] = i3
  BY <1>1, <1>2, ConcatProperties
<1>4. r = <<r[1], r[2], r[3]>> BY <1>3
<1> QED BY <1>1, <1>3, <1>4

\* dV: the next dO comes where all warps have read this one.
LEMMA BackwardDVLeads ==
  ASSUME NEW l, NEW p, NEW n, NEW m \in Int, NEW more \in BOOLEAN, more <=> m > MBlockMin(l, n),
         NEW t, NEW d \in {0, 1}, NEW a \in Unused(t, d),
         p \in Places(l, "sP") => t = Tile("P", m), p \in Places(l, "sdO") => t = Tile("dO", m)
  PROVE  Leads(l, p, a, BackwardDV(l, n, m),
               IF more THEN IF p \in Places(l, "sdO") THEN Coming(Tile("dO", m - 1), 1, d + 1) ELSE Unused(t, d + 1)
               ELSE Unused(t, d))
<1>1. PICK live \in BOOLEAN : live = ~ Skipped(l, m, n) BY DEF Skipped
<1>2. PICK O \in TileSet : O = Tile("dO", m - 1)
  <2>1. m - 1 \in Int OBVIOUS
  <2>2. Tile("dO", m - 1) \in TileSet BY <2>1, TilesAre
  <2> QED BY <2>2
<1>3. PICK i1, i2, i3, i4, bounds :
        /\ i1 = Use("sP", Tile("P", m)) /\ i2 = Use("sdO", Tile("dO", m))
        /\ i3 = Emit([out |-> "dV", tile |-> m]) /\ i4 = Sync /\ bounds = "all"
  OBVIOUS
<1>4. PICK c1 : c1 = <<Load("sdO", O, bounds), Commit>> OBVIOUS
<1>5. PICK s1, s2, s3 : s1 = If(live, <<i1, i2, i3>>) /\ s2 = <<i4>> /\ s3 = If(more, c1) OBVIOUS
<1>6. BackwardDV(l, n, m) = (s1 \o s2) \o s3 BY <1>1, <1>2, <1>3, <1>4, <1>5 DEF BackwardDV, If
<1>7. "sP" \in Buffers /\ "sdO" \in Buffers BY DEF Buffers
<1>8. a \in Readable(t, d) BY UnusedReadable
<1>9. Leads(l, p, a, s1, Readable(t, d))
  <2>1. Reading(l, p, t, i1) /\ Reading(l, p, t, i2) /\ Reading(l, p, t, i3) BY <1>3, <1>7, ReadingIs, EmitIs
  <2>2. Leads(l, p, a, <<i1, i2, i3>>, Readable(t, d)) BY <1>8, <2>1, ReadingThree
  <2> QED BY <1>5, <1>8, <2>2, LeadsIf
<1>10. \A b \in Readable(t, d) : Leads(l, p, b, s2, Unused(t, d)) BY <1>3, <1>5, SyncReadable
<1>11. Leads(l, p, a, s1 \o s2, Unused(t, d)) BY <1>9, <1>10, LeadsJoin
<1>12. CASE more
  <2>1. s3 = c1 BY <1>5, <1>12 DEF If
  <2>2. PICK buf \in Buffers : buf = "sdO" BY <1>7
  <2>3. \A b \in Unused(t, d) :
          Leads(l, p, b, <<Load(buf, O, bounds), Commit>>,
                IF p \in Places(l, buf) THEN Coming(O, 1, d + 1) ELSE Unused(t, d + 1))
    BY CopyIs
  <2>4. PICK C : C = IF p \in Places(l, "sdO") THEN Coming(O, 1, d + 1) ELSE Unused(t, d + 1) OBVIOUS
  <2>5. \A b \in Unused(t, d) : Leads(l, p, b, s3, C) BY <1>4, <2>1, <2>2, <2>3, <2>4
  <2>6. Leads(l, p, a, (s1 \o s2) \o s3, C) BY <1>11, <2>5, LeadsJoin
  <2> QED BY <1>2, <1>6, <1>12, <2>4, <2>6
<1>13. CASE ~ more
  <2>1. s3 = <<>> BY <1>5, <1>13 DEF If
  <2>2. \A b \in Unused(t, d) : Leads(l, p, b, s3, Unused(t, d)) BY <2>1, LeadsNone
  <2>3. Leads(l, p, a, (s1 \o s2) \o s3, Unused(t, d)) BY <1>11, <2>2, LeadsJoin
  <2> QED BY <1>6, <1>13, <2>3
<1> QED BY <1>12, <1>13

\* A copy that is under way, in another place, gets older by the group of dO.
LEMMA BackwardDVAside ==
  ASSUME NEW l, NEW p, NEW n, NEW m \in Int, m > MBlockMin(l, n),
         NEW t, NEW g \in {0, 1}, NEW d \in {0, 1}, NEW a \in Coming(t, g, d),
         p \notin Places(l, "sP"), p \notin Places(l, "sdO")
  PROVE  Leads(l, p, a, BackwardDV(l, n, m), Coming(t, g + 1, d + 1))
<1>1. PICK live \in BOOLEAN, more \in BOOLEAN : live = ~ Skipped(l, m, n) /\ more = TRUE BY DEF Skipped
<1>2. PICK i1, i2, i3, i4, tile, bounds :
        /\ i1 = Use("sP", Tile("P", m)) /\ i2 = Use("sdO", Tile("dO", m))
        /\ i3 = Emit([out |-> "dV", tile |-> m]) /\ i4 = Sync
        /\ tile = Tile("dO", m - 1) /\ bounds = "all"
  OBVIOUS
<1>3. PICK s1, s2, s3 : s1 = If(live, <<i1, i2, i3>>) /\ s2 = <<i4>> /\ s3 = <<Load("sdO", tile, bounds), Commit>>
  OBVIOUS
<1>4. BackwardDV(l, n, m) = (s1 \o s2) \o s3 BY <1>1, <1>2, <1>3 DEF BackwardDV, If
<1>5. "sP" \in Buffers /\ "sdO" \in Buffers BY DEF Buffers
<1>6. Coming(t, g, d) \subseteq PlaceStates BY DEF Coming, At
<1>7. Leads(l, p, a, s1, Coming(t, g, d))
  <2>1. Aside(l, p, i1) /\ Aside(l, p, i2) /\ Aside(l, p, i3) BY <1>2, <1>5, AsideIs, EmitIs
  <2>2. Leads(l, p, a, <<i1, i2, i3>>, Coming(t, g, d)) BY <1>6, <2>1, AsideThree
  <2> QED BY <1>3, <2>2, LeadsIf
<1>8. \A b \in Coming(t, g, d) : Leads(l, p, b, s2, Coming(t, g, d)) BY <1>2, <1>3, SyncComing
<1>9. \A b \in Coming(t, g, d) : Leads(l, p, b, s3, Coming(t, g + 1, d + 1))
  <2>1. PICK buf \in Buffers : buf = "sdO" BY <1>5
  <2>2. g >= 0 /\ d < 2 /\ p \notin Places(l, buf) BY <2>1
  <2>3. \A b \in Coming(t, g, d) : Leads(l, p, b, <<Load(buf, tile, bounds), Commit>>, Coming(t, g + 1, d + 1))
    BY <2>2, CopyAside
  <2> QED BY <1>3, <2>1, <2>3
<1>10. Leads(l, p, a, s1 \o s2, Coming(t, g, d)) BY <1>7, <1>8, LeadsJoin
<1>11. Leads(l, p, a, (s1 \o s2) \o s3, Coming(t, g + 1, d + 1)) BY <1>9, <1>10, LeadsJoin
<1> QED BY <1>4, <1>11

\* dQ and dK, and the next Q if there is one buffer for it.
LEMMA BackwardDQDKLeads ==
  ASSUME NEW l, NEW p, NEW n, NEW m \in Int, NEW ptr, NEW next,
         NEW q1 \in {"sQ", "sQ2"}, q1 = QSlot(ptr.qt),
         NEW more \in BOOLEAN, more <=> (~ DoubleBuffer(l) /\ m > MBlockMin(l, n)),
         NEW t, NEW d \in {0, 1, 2}, more => d < 2, NEW a \in Unused(t, d),
         p \in Places(l, "sdS") => t = Tile("dS", m), p \in Places(l, "sK") => t = Tile("K", n),
         p \in Places(l, q1) => t = Tile("Q", m)
  PROVE  /\ more /\ p \in Places(l, "sQ") =>
              Leads(l, p, a, BackwardDQDK(l, n, m, ptr, next), Coming(Tile("Q", m - 1), 1, d + 1))
         /\ more /\ p \notin Places(l, "sQ") =>
              Leads(l, p, a, BackwardDQDK(l, n, m, ptr, next), Unused(t, d + 1))
         /\ ~ more => Leads(l, p, a, BackwardDQDK(l, n, m, ptr, next), Readable(t, d))
<1>1. PICK live \in BOOLEAN : live = ~ Skipped(l, m, n) BY DEF Skipped
<1>2. PICK Q \in TileSet : Q = Tile("Q", m - 1)
  <2>1. m - 1 \in Int OBVIOUS
  <2>2. Tile("Q", m - 1) \in TileSet BY <2>1, TilesAre
  <2> QED BY <2>2
<1>3. PICK i1, i2, i3, i4, i5, i6, bounds :
        /\ i1 = Use("sdS", Tile("dS", m)) /\ i2 = Use("sK", Tile("K", n))
        /\ i3 = Emit([out |-> "dQ", tile |-> m, at |-> next.dq, stats |-> ptr.stats, zero |-> ~ live])
        /\ i4 = Use(q1, Tile("Q", m)) /\ i5 = Emit([out |-> "dK", tile |-> m]) /\ i6 = Sync /\ bounds = "all"
  OBVIOUS
<1>4. PICK j1, j2 : j1 = Load("sQ", Q, bounds) /\ j2 = Commit OBVIOUS
<1>5. PICK s1, s2, s3, s4 :
        s1 = If(live, <<i1, i2>>) /\ s2 = <<i3>> /\ s3 = If(live, <<i1, i4, i5>>) /\ s4 = If(more, <<i6, j1, j2>>)
  OBVIOUS
<1>6. BackwardDQDK(l, n, m, ptr, next) = ((s1 \o s2) \o s3) \o s4
  BY <1>1, <1>2, <1>3, <1>4, <1>5 DEF BackwardDQDK, If
<1>7. "sdS" \in Buffers /\ "sK" \in Buffers /\ q1 \in Buffers /\ "sQ" \in Buffers BY DEF Buffers
<1>8. PICK B : B = Readable(t, d) OBVIOUS
<1>9. a \in B BY <1>8, UnusedReadable
<1>10. \A b \in B : Leads(l, p, b, s1, B) /\ Leads(l, p, b, s2, B) /\ Leads(l, p, b, s3, B)
  <2>1. Reading(l, p, t, i1) /\ Reading(l, p, t, i2) /\ Reading(l, p, t, i4) BY <1>3, <1>7, ReadingIs
  <2>2. Reading(l, p, t, i3) /\ Reading(l, p, t, i5) BY <1>3, EmitIs
  <2>3. \A b \in B : Leads(l, p, b, <<i1, i2>>, B) BY <1>8, <2>1, ReadingTwo
  <2>4. \A b \in B : Leads(l, p, b, <<i1, i4, i5>>, B) BY <1>8, <2>1, <2>2, ReadingThree
  <2>5. \A b \in B : Leads(l, p, b, s2, B) BY <1>5, <1>8, <2>2, LeadsReading
  <2> QED BY <1>5, <2>3, <2>4, <2>5, LeadsIf
<1>11. Leads(l, p, a, s1 \o s2, B) BY <1>9, <1>10, LeadsJoin
<1>12. Leads(l, p, a, (s1 \o s2) \o s3, B) BY <1>10, <1>11, LeadsJoin
<1>13. CASE more
  <2>1. PICK C : C = IF p \in Places(l, "sQ") THEN Coming(Q, 1, d + 1) ELSE Unused(t, d + 1) OBVIOUS
  <2>2. \A b \in B : Leads(l, p, b, <<i6>>, Unused(t, d)) BY <1>3, <1>8, SyncReadable
  <2>3. \A b \in Unused(t, d) : Leads(l, p, b, <<j1, j2>>, C)
    <3>1. PICK buf \in Buffers : buf = "sQ" BY <1>7
    <3>2. \A b \in Unused(t, d) :
            Leads(l, p, b, <<Load(buf, Q, bounds), Commit>>,
                  IF p \in Places(l, buf) THEN Coming(Q, 1, d + 1) ELSE Unused(t, d + 1))
      BY <1>13, CopyIs
    <3> QED BY <1>4, <2>1, <3>1, <3>2
  <2>4. \A b \in B : Leads(l, p, b, <<i6>> \o <<j1, j2>>, C) BY <2>2, <2>3, LeadsJoin
  <2>5. s4 = <<i6>> \o <<j1, j2>>
    <3>1. <<i6, j1, j2>> = <<i6>> \o <<j1, j2>> BY OneThenTwo
    <3> QED BY <1>5, <1>13, <3>1 DEF If
  <2>6. Leads(l, p, a, ((s1 \o s2) \o s3) \o s4, C) BY <1>12, <2>4, <2>5, LeadsJoin
  <2> QED BY <1>2, <1>6, <1>13, <2>1, <2>6
<1>14. CASE ~ more
  <2>1. s4 = <<>> BY <1>5, <1>14 DEF If
  <2>2. \A b \in B : Leads(l, p, b, s4, B) BY <2>1, LeadsNone
  <2>3. Leads(l, p, a, ((s1 \o s2) \o s3) \o s4, B) BY <1>12, <2>2, LeadsJoin
  <2> QED BY <1>6, <1>8, <1>14, <2>3
<1> QED BY <1>13, <1>14

\* A copy that is under way, in another place, may get older by the group of Q.
LEMMA BackwardDQDKAside ==
  ASSUME NEW l, NEW p, NEW n, NEW m \in Int, NEW ptr, NEW next,
         NEW q1 \in {"sQ", "sQ2"}, q1 = QSlot(ptr.qt),
         NEW more \in BOOLEAN, more <=> (~ DoubleBuffer(l) /\ m > MBlockMin(l, n)),
         NEW t, NEW g \in {0, 1, 2}, NEW d \in {0, 1, 2}, more => d < 2, NEW a \in Coming(t, g, d),
         p \notin Places(l, "sdS"), p \notin Places(l, "sK"), p \notin Places(l, q1),
         more => p \notin Places(l, "sQ")
  PROVE  Leads(l, p, a, BackwardDQDK(l, n, m, ptr, next),
               IF more THEN Coming(t, g + 1, d + 1) ELSE Coming(t, g, d))
<1>1. PICK live \in BOOLEAN : live = ~ Skipped(l, m, n) BY DEF Skipped
<1>2. PICK i1, i2, i3, i4, i5, i6, tile, bounds :
        /\ i1 = Use("sdS", Tile("dS", m)) /\ i2 = Use("sK", Tile("K", n))
        /\ i3 = Emit([out |-> "dQ", tile |-> m, at |-> next.dq, stats |-> ptr.stats, zero |-> ~ live])
        /\ i4 = Use(q1, Tile("Q", m)) /\ i5 = Emit([out |-> "dK", tile |-> m]) /\ i6 = Sync
        /\ tile = Tile("Q", m - 1) /\ bounds = "all"
  OBVIOUS
<1>3. PICK j1, j2 : j1 = Load("sQ", tile, bounds) /\ j2 = Commit OBVIOUS
<1>4. PICK s1, s2, s3, s4 :
        s1 = If(live, <<i1, i2>>) /\ s2 = <<i3>> /\ s3 = If(live, <<i1, i4, i5>>) /\ s4 = If(more, <<i6, j1, j2>>)
  OBVIOUS
<1>5. BackwardDQDK(l, n, m, ptr, next) = ((s1 \o s2) \o s3) \o s4
  BY <1>1, <1>2, <1>3, <1>4 DEF BackwardDQDK, If
<1>6. "sdS" \in Buffers /\ "sK" \in Buffers /\ q1 \in Buffers /\ "sQ" \in Buffers BY DEF Buffers
<1>7. PICK B : B = Coming(t, g, d) OBVIOUS
<1>8. B \subseteq PlaceStates BY <1>7 DEF Coming, At
<1>9. \A b \in B : Leads(l, p, b, s1, B) /\ Leads(l, p, b, s2, B) /\ Leads(l, p, b, s3, B)
  <2>1. Aside(l, p, i1) /\ Aside(l, p, i2) /\ Aside(l, p, i4) BY <1>2, <1>6, AsideIs
  <2>2. Aside(l, p, i3) /\ Aside(l, p, i5) BY <1>2, EmitIs
  <2>3. \A b \in B : Leads(l, p, b, <<i1, i2>>, B) BY <1>8, <2>1, AsideTwo
  <2>4. \A b \in B : Leads(l, p, b, <<i1, i4, i5>>, B) BY <1>8, <2>1, <2>2, AsideThree
  <2>5. \A b \in B : Leads(l, p, b, s2, B) BY <1>4, <1>8, <2>2, LeadsAside
  <2> QED BY <1>4, <2>3, <2>4, <2>5, LeadsIf
<1>10. Leads(l, p, a, s1 \o s2, B) BY <1>7, <1>9, LeadsJoin
<1>11. Leads(l, p, a, (s1 \o s2) \o s3, B) BY <1>9, <1>10, LeadsJoin
<1>12. CASE more
  <2>1. \A b \in B : Leads(l, p, b, <<i6>>, B) BY <1>2, <1>7, SyncComing
  <2>2. \A b \in B : Leads(l, p, b, <<j1, j2>>, Coming(t, g + 1, d + 1))
    <3>1. PICK buf \in Buffers : buf = "sQ" BY <1>6
    <3>2. g >= 0 /\ d < 2 /\ p \notin Places(l, buf) BY <1>12, <3>1
    <3>3. \A b \in Coming(t, g, d) : Leads(l, p, b, <<Load(buf, tile, bounds), Commit>>, Coming(t, g + 1, d + 1))
      BY <3>2, CopyAside
    <3> QED BY <1>3, <1>7, <3>1, <3>3
  <2>3. \A b \in B : Leads(l, p, b, <<i6>> \o <<j1, j2>>, Coming(t, g + 1, d + 1)) BY <2>1, <2>2, LeadsJoin
  <2>4. s4 = <<i6>> \o <<j1, j2>>
    <3>1. <<i6, j1, j2>> = <<i6>> \o <<j1, j2>> BY OneThenTwo
    <3> QED BY <1>4, <1>12, <3>1 DEF If
  <2>5. Leads(l, p, a, ((s1 \o s2) \o s3) \o s4, Coming(t, g + 1, d + 1)) BY <1>11, <2>3, <2>4, LeadsJoin
  <2> QED BY <1>5, <1>12, <2>5
<1>13. CASE ~ more
  <2>1. s4 = <<>> BY <1>4, <1>13 DEF If
  <2>2. \A b \in B : Leads(l, p, b, s4, B) BY <2>1, LeadsNone
  <2>3. Leads(l, p, a, ((s1 \o s2) \o s3) \o s4, B) BY <1>11, <2>2, LeadsJoin
  <2> QED BY <1>5, <1>7, <1>13, <2>3
<1> QED BY <1>12, <1>13

\* What is known of a place before block m of queries; block m below the first one is
\* the end of the loop.
BackwardBefore(l, p, m) ==
  {a \in PlaceStates :
     /\ a.age # 0
     /\ m >= MBlockMin(l, l.block) =>
          /\ p \in Places(l, QSlot(Slot(l, m))) => a.tile = Tile("Q", m)
          /\ p \in Places(l, "sdO") => a.tile = Tile("dO", m)
          /\ p \in Places(l, "sK") => a.tile = Tile("K", l.block)
          /\ ~ VInRegs(l) /\ p \in Places(l, "sV") => a.tile = Tile("V", l.block)
     /\ m < MBlockMin(l, l.block) => a.age = -1}

\* An iteration leads to the next.
LEMMA BackwardStepLeads ==
  ASSUME NEW l \in Launches, l.kernel = "bwd", NEW p, NEW m \in Nat, MBlockMin(l, l.block) <= m,
         NEW ptr, ptr.q = Slot(l, m), ptr.qt = Slot(l, m), NEW a \in BackwardBefore(l, p, m)
  PROVE  Leads(l, p, a, BackwardStep(l, l.block, m, ptr), BackwardBefore(l, p, m - 1))
<1>1. PICK n \in Nat : n = l.block BY LaunchesAreValid, LaunchIs
<1>2. PICK lo \in Nat : lo = MBlockMin(l, n) /\ lo <= m
  <2>1. PICK z \in Nat : z = 0 OBVIOUS
  <2> QED BY <1>1, <2>1, LaunchesAreValid, LaunchIs, BackwardBlocks
<1>3. PICK more \in BOOLEAN, flip \in BOOLEAN, late \in BOOLEAN :
        /\ more <=> m > lo
        /\ flip <=> (DoubleBuffer(l) /\ m > lo)
        /\ late <=> (~ DoubleBuffer(l) /\ m > lo)
  OBVIOUS
<1>4. PICK next : next = Advanced(l, n, m, ptr) OBVIOUS
<1>5. PICK q1 \in {"sQ", "sQ2"} : q1 = QSlot(Slot(l, m)) BY SlotIs
<1>6. PICK q2 \in {"sQ", "sQ2"} : q2 = QSlot(next.q) /\ (more => q2 = QSlot(Slot(l, m - 1)))
  <2>1. CASE more
    <3>1. next.q = Slot(l, m - 1) BY <1>2, <1>3, <1>4, <2>1, NextSlot
    <3>2. m - 1 \in Int OBVIOUS
    <3>3. QSlot(Slot(l, m - 1)) \in {"sQ", "sQ2"} BY <3>2, SlotIs
    <3> QED BY <3>1, <3>3
  <2>2. CASE ~ more
    <3>1. QSlot(next.q) \in {"sQ", "sQ2"} BY DEF QSlot
    <3> QED BY <2>2, <3>1
  <2> QED BY <2>1, <2>2
<1>7. /\ flip => q1 # q2
      /\ late => q1 = "sQ" /\ q2 = "sQ"
  <2>1. m - 1 \in Int OBVIOUS
  <2>2. flip => q1 # q2 BY <1>3, <1>5, <1>6, SlotIs
  <2>3. late => q1 = "sQ" BY <1>3, <1>5, SlotIs
  <2>4. late => q2 = "sQ" BY <1>3, <1>6, <2>1, SlotIs
  <2> QED BY <2>2, <2>3, <2>4
<1>8. PICK s1, s2, s3, s4 :
        /\ s1 = TopOfLoop(l)
        /\ s2 = BackwardScores(l, n, m, ptr, next)
        /\ s3 = BackwardDV(l, n, m)
        /\ s4 = BackwardDQDK(l, n, m, ptr, next)
  OBVIOUS
<1>9. BackwardStep(l, l.block, m, ptr) = ((s1 \o s2) \o s3) \o s4 BY <1>1, <1>4, <1>8 DEF BackwardStep
<1>10. PICK t : t = a.tile OBVIOUS
<1>11. /\ a \in PlaceStates /\ a.age # 0
       /\ p \in Places(l, q1) => t = Tile("Q", m)
       /\ p \in Places(l, "sdO") => t = Tile("dO", m)
       /\ p \in Places(l, "sK") => t = Tile("K", n)
       /\ ~ VInRegs(l) /\ p \in Places(l, "sV") => t = Tile("V", n)
  <2>1. m >= MBlockMin(l, l.block) BY <1>1, <1>2
  <2> QED BY <1>1, <1>5, <1>10, <2>1 DEF BackwardBefore
<1>12. Leads(l, p, a, s1, Unused(t, 0)) BY <1>8, <1>10, <1>11, TopIs DEF TopOfLoop
<1>13. PICK after : after = BackwardBefore(l, p, m - 1) OBVIOUS
<1>14. ASSUME NEW b \in PlaceStates, b.age # 0,
              more => /\ p \in Places(l, q2) => b.tile = Tile("Q", m - 1)
                      /\ p \in Places(l, "sdO") => b.tile = Tile("dO", m - 1)
                      /\ p \in Places(l, "sK") => b.tile = Tile("K", n)
                      /\ ~ VInRegs(l) /\ p \in Places(l, "sV") => b.tile = Tile("V", n),
              ~ more => b.age = -1
       PROVE  b \in after
  <2>1. CASE more
    <3>1. m - 1 >= lo BY <1>2, <1>3, <2>1
    <3>2. ~ (m - 1 < lo) BY <1>2, <1>3, <2>1
    <3> QED BY <1>1, <1>2, <1>6, <1>13, <1>14, <2>1, <3>1, <3>2 DEF BackwardBefore
  <2>2. CASE ~ more
    <3>1. ~ (m - 1 >= lo) BY <1>2, <1>3, <2>2
    <3> QED BY <1>1, <1>2, <1>13, <1>14, <2>2, <3>1 DEF BackwardBefore
  <2> QED BY <2>1, <2>2
<1>15. PICK u, z, o, w, e :
         /\ z = 0 /\ o = 1 /\ w = 2 /\ e = IF flip THEN 1 ELSE 0
         /\ u = IF p \in Places(l, "sP") THEN Tile("P", m)
                ELSE IF p \in Places(l, "sdS") THEN Tile("dS", m) ELSE t
  OBVIOUS
<1>16. PICK Q, O : Q = Tile("Q", m - 1) /\ O = Tile("dO", m - 1) OBVIOUS
<1>17. \A b \in Unused(t, 0) :
         /\ flip /\ p \in Places(l, q2) => Leads(l, p, b, s2, Coming(Q, 1, 1))
         /\ ~ (flip /\ p \in Places(l, q2)) => Leads(l, p, b, s2, Unused(u, e))
  <2>1. n \in Int /\ m \in Int /\ q1 = QSlot(ptr.q) /\ (flip <=> (DoubleBuffer(l) /\ m > MBlockMin(l, n)))
    BY <1>2, <1>3, <1>5
  <2>2. \A b \in Unused(t, 0) :
          /\ flip /\ p \in Places(l, q2) =>
               Leads(l, p, b, BackwardScores(l, n, m, ptr, next), Coming(Tile("Q", m - 1), 1, 1))
          /\ ~ (flip /\ p \in Places(l, q2)) =>
               Leads(l, p, b, BackwardScores(l, n, m, ptr, next), Unused(u, e))
    BY <1>6, <1>7, <1>11, <1>15, <2>1, BackwardScoresLead
  <2> QED BY <1>8, <1>16, <2>2
<1>18. CASE flip /\ p \in Places(l, q2)
  <2>1. /\ p \notin Places(l, "sP") /\ p \notin Places(l, "sdS") /\ p \notin Places(l, "sdO")
        /\ p \notin Places(l, "sK") /\ p \notin Places(l, q1) /\ p \notin Places(l, "sV")
    BY <1>7, <1>18, BackwardPlaces
  <2>2. more /\ ~ late /\ m > MBlockMin(l, n) BY <1>2, <1>3, <1>18
  <2>3. \A b \in Unused(t, 0) : Leads(l, p, b, s2, Coming(Q, 1, 1)) BY <1>17, <1>18
  <2>4. \A b \in Coming(Q, 1, 1) : Leads(l, p, b, s3, Coming(Q, 2, 2))
    <3>1. o \in {0, 1} /\ o + 1 = 2 BY <1>15
    <3>2. \A b \in Coming(Q, o, o) : Leads(l, p, b, BackwardDV(l, n, m), Coming(Q, o + 1, o + 1))
      BY <2>1, <2>2, <3>1, BackwardDVAside
    <3> QED BY <1>8, <1>15, <3>1, <3>2
  <2>5. \A b \in Coming(Q, 2, 2) : Leads(l, p, b, s4, Coming(Q, 2, 2))
    <3>1. w \in {0, 1, 2} BY <1>15
    <3>2. \A b \in Coming(Q, w, w) :
            Leads(l, p, b, BackwardDQDK(l, n, m, ptr, next),
                  IF late THEN Coming(Q, w + 1, w + 1) ELSE Coming(Q, w, w))
      BY <1>2, <1>3, <1>5, <2>1, <2>2, <3>1, BackwardDQDKAside
    <3> QED BY <1>8, <1>15, <2>2, <3>2
  <2>6. Coming(Q, 2, 2) \subseteq after
    <3>1. ASSUME NEW b \in Coming(Q, 2, 2) PROVE b \in after
      <4>1. b \in PlaceStates /\ b.age # 0 /\ b.tile = Q BY DEF Coming, At
      <4> QED BY <1>14, <1>16, <2>1, <2>2, <4>1
    <3> QED BY <3>1
  <2>7. Leads(l, p, a, s1 \o s2, Coming(Q, 1, 1)) BY <1>12, <2>3, LeadsJoin
  <2>8. Leads(l, p, a, (s1 \o s2) \o s3, Coming(Q, 2, 2)) BY <2>4, <2>7, LeadsJoin
  <2>9. Leads(l, p, a, ((s1 \o s2) \o s3) \o s4, Coming(Q, 2, 2)) BY <2>5, <2>8, LeadsJoin
  <2>10. Leads(l, p, a, ((s1 \o s2) \o s3) \o s4, after) BY <2>6, <2>9, LeadsMore
  <2> QED BY <1>9, <1>13, <2>10
<1>19. CASE ~ (flip /\ p \in Places(l, q2))
  <2>1. \A b \in Unused(t, 0) : Leads(l, p, b, s2, Unused(u, e)) BY <1>17, <1>19
  <2>2. Leads(l, p, a, s1 \o s2, Unused(u, e)) BY <1>12, <2>1, LeadsJoin
  <2>3. e \in {0, 1} /\ e + 1 \in {0, 1, 2} /\ (flip => e = 1) /\ (~ flip => e = 0) BY <1>15
  <2>4. /\ p \in Places(l, "sP") => u = Tile("P", m)
        /\ p \in Places(l, "sdS") => u = Tile("dS", m)
        /\ p \in Places(l, q1) => u = Tile("Q", m)
        /\ p \in Places(l, "sdO") => u = Tile("dO", m)
        /\ p \in Places(l, "sK") => u = Tile("K", n)
        /\ ~ VInRegs(l) /\ p \in Places(l, "sV") => u = Tile("V", n)
    BY <1>11, <1>15, BackwardPlaces
  <2>5. \A b \in Unused(u, e) :
          Leads(l, p, b, s3,
                IF more THEN IF p \in Places(l, "sdO") THEN Coming(O, 1, e + 1) ELSE Unused(u, e + 1)
                ELSE Unused(u, e))
    BY <1>2, <1>3, <1>8, <1>16, <2>3, <2>4, BackwardDVLeads
  <2>6. CASE more /\ p \in Places(l, "sdO")
    <3>1. /\ p \notin Places(l, "sdS") /\ p \notin Places(l, "sK") /\ p \notin Places(l, q1)
          /\ p \notin Places(l, q2) /\ p \notin Places(l, "sQ") /\ p \notin Places(l, "sV")
      BY <2>6, BackwardPlaces
    <3>2. \A b \in Unused(u, e) : Leads(l, p, b, s3, Coming(O, o, e + 1)) BY <1>15, <2>5, <2>6
    <3>3. PICK C : C = IF late THEN Coming(O, o + 1, e + 1 + 1) ELSE Coming(O, o, e + 1) OBVIOUS
    <3>4. \A b \in Coming(O, o, e + 1) : Leads(l, p, b, s4, C)
      <4>1. PICK d \in {0, 1, 2} : d = e + 1 BY <2>3
      <4>2. o \in {0, 1, 2} /\ (late => d < 2) BY <1>3, <1>15, <2>3, <4>1
      <4>3. \A b \in Coming(O, o, d) :
              Leads(l, p, b, BackwardDQDK(l, n, m, ptr, next),
                    IF late THEN Coming(O, o + 1, d + 1) ELSE Coming(O, o, d))
        BY <1>2, <1>3, <1>5, <3>1, <4>2, BackwardDQDKAside
      <4> QED BY <1>8, <3>3, <4>1, <4>3
    <3>5. C \subseteq after
      <4>1. ASSUME NEW b \in C PROVE b \in after
        <5>1. b \in PlaceStates /\ b.age # 0 /\ b.tile = O BY <1>15, <3>3, <4>1 DEF Coming, At
        <5> QED BY <1>14, <1>16, <2>6, <3>1, <5>1
      <4> QED BY <4>1
    <3>6. Leads(l, p, a, (s1 \o s2) \o s3, Coming(O, o, e + 1)) BY <2>2, <3>2, LeadsJoin
    <3>7. Leads(l, p, a, ((s1 \o s2) \o s3) \o s4, C) BY <3>4, <3>6, LeadsJoin
    <3>8. Leads(l, p, a, ((s1 \o s2) \o s3) \o s4, after) BY <3>5, <3>7, LeadsMore
    <3> QED BY <1>9, <1>13, <3>8
  <2>7. CASE ~ (more /\ p \in Places(l, "sdO"))
    <3>1. PICK d \in {0, 1, 2} : d = IF more THEN e + 1 ELSE e BY <2>3
    <3>2. \A b \in Unused(u, e) : Leads(l, p, b, s3, Unused(u, d)) BY <2>5, <2>7, <3>1
    <3>3. late => d = 1 BY <1>3, <2>3, <3>1
    <3>4. PICK C : C = IF late THEN IF p \in Places(l, "sQ") THEN Coming(Q, 1, d + 1) ELSE Unused(u, d + 1)
                       ELSE Readable(u, d)
      OBVIOUS
    <3>5. \A b \in Unused(u, d) : Leads(l, p, b, s4, C)
      <4>1. late => d < 2 BY <3>3
      <4>2. q1 = QSlot(ptr.qt) /\ (late <=> (~ DoubleBuffer(l) /\ m > MBlockMin(l, n))) BY <1>2, <1>3, <1>5
      <4>3. \A b \in Unused(u, d) :
              /\ late /\ p \in Places(l, "sQ") =>
                   Leads(l, p, b, BackwardDQDK(l, n, m, ptr, next), Coming(Tile("Q", m - 1), 1, d + 1))
              /\ late /\ p \notin Places(l, "sQ") =>
                   Leads(l, p, b, BackwardDQDK(l, n, m, ptr, next), Unused(u, d + 1))
              /\ ~ late => Leads(l, p, b, BackwardDQDK(l, n, m, ptr, next), Readable(u, d))
        BY <2>4, <4>1, <4>2, BackwardDQDKLeads
      <4> QED BY <1>8, <1>16, <3>4, <4>3
    <3>6. C \subseteq after
      <4>1. ASSUME NEW b \in C PROVE b \in after
        <5>1. b \in PlaceStates /\ b.age # 0 BY <3>4, <4>1 DEF Coming, Unused, Readable, At
        <5>2. CASE late /\ p \in Places(l, "sQ")
          <6>1. b.tile = Q BY <3>4, <4>1, <5>2 DEF Coming, At
          <6>2. /\ p \notin Places(l, "sdO") /\ p \notin Places(l, "sK") /\ p \notin Places(l, "sV")
            BY <5>2, BackwardPlaces
          <6>3. more BY <1>3, <5>2
          <6> QED BY <1>14, <1>16, <5>1, <6>1, <6>2, <6>3
        <5>3. CASE ~ (late /\ p \in Places(l, "sQ"))
          <6>1. b.tile = u /\ b.age = -1 BY <3>4, <4>1, <5>3 DEF Unused, Readable, At
          <6>2. more => p \notin Places(l, q2)
            <7>1. more => flip \/ late BY <1>3
            <7> QED BY <1>7, <1>19, <5>3, <7>1
          <6>3. more => p \notin Places(l, "sdO") BY <2>7
          <6> QED BY <1>14, <2>4, <5>1, <6>1, <6>2, <6>3
        <5> QED BY <5>2, <5>3
      <4> QED BY <4>1
    <3>7. Leads(l, p, a, (s1 \o s2) \o s3, Unused(u, d)) BY <2>2, <3>2, LeadsJoin
    <3>8. Leads(l, p, a, ((s1 \o s2) \o s3) \o s4, C) BY <3>5, <3>7, LeadsJoin
    <3>9. Leads(l, p, a, ((s1 \o s2) \o s3) \o s4, after) BY <3>6, <3>8, LeadsMore
    <3> QED BY <1>9, <1>13, <3>9
  <2> QED BY <2>6, <2>7
<1> QED BY <1>18, <1>19

\* The loads of dO, Q and K, each to its own place.
LEMMA FirstLoadsLead ==
  ASSUME NEW l \in Launches, l.kernel = "bwd", NEW p, NEW q \in {"sQ", "sQ2"},
         NEW D \in TileSet, NEW Q \in TileSet, NEW K \in TileSet, NEW bounds,
         NEW t, NEW d, NEW a \in Unused(t, d)
  PROVE  Leads(l, p, a, <<Load("sdO", D, bounds), Load(q, Q, bounds), Load("sK", K, bounds)>>,
               IF p \in Places(l, "sdO") THEN Coming(D, 0, d)
               ELSE IF p \in Places(l, q) THEN Coming(Q, 0, d)
               ELSE IF p \in Places(l, "sK") THEN Coming(K, 0, d) ELSE Unused(t, d))
<1>1. PICK i1, i2, i3 :
        i1 = Load("sdO", D, bounds) /\ i2 = Load(q, Q, bounds) /\ i3 = Load("sK", K, bounds)
  OBVIOUS
<1>2. "sdO" \in Buffers /\ q \in Buffers /\ "sK" \in Buffers BY DEF Buffers
<1>3. PICK C1, C2, C3, U :
        C1 = Coming(D, 0, d) /\ C2 = Coming(Q, 0, d) /\ C3 = Coming(K, 0, d) /\ U = Unused(t, d)
  OBVIOUS
<1>4. C1 \subseteq PlaceStates /\ C2 \subseteq PlaceStates /\ C3 \subseteq PlaceStates /\ U \subseteq PlaceStates
  BY <1>3 DEF Coming, Unused, At
<1>5. p \notin Places(l, "sdO") => Aside(l, p, i1) BY <1>1, <1>2, LoadAside
<1>6. p \notin Places(l, q) => Aside(l, p, i2) BY <1>1, <1>2, LoadAside
<1>7. p \notin Places(l, "sK") => Aside(l, p, i3) BY <1>1, <1>2, LoadAside
<1>8. CASE p \in Places(l, "sdO")
  <2>1. p \notin Places(l, q) /\ p \notin Places(l, "sK") BY <1>8, BackwardPlaces
  <2>2. \A b \in U : Leads(l, p, b, <<i1>>, C1)
    <3>1. PICK buf \in Buffers : buf = "sdO" BY <1>2
    <3>2. \A b \in Unused(t, d) :
            Leads(l, p, b, <<Load(buf, D, bounds)>>, IF p \in Places(l, buf) THEN Coming(D, 0, d) ELSE Unused(t, d))
      BY LoadIs
    <3> QED BY <1>1, <1>3, <1>8, <3>1, <3>2
  <2>3. \A b \in C1 : Leads(l, p, b, <<i2>>, C1) /\ Leads(l, p, b, <<i3>>, C1)
    BY <1>4, <1>6, <1>7, <2>1, LeadsAside
  <2>4. Leads(l, p, a, <<i1, i2>>, C1) BY <1>3, <2>2, <2>3, LeadsTwo
  <2>5. Leads(l, p, a, <<i1, i2, i3>>, C1) BY <2>3, <2>4, LeadsThree
  <2> QED BY <1>1, <1>3, <1>8, <2>5
<1>9. CASE p \in Places(l, q)
  <2>1. p \notin Places(l, "sdO") /\ p \notin Places(l, "sK") BY <1>9, BackwardPlaces
  <2>2. \A b \in U : Leads(l, p, b, <<i1>>, U) BY <1>4, <1>5, <2>1, LeadsAside
  <2>3. \A b \in U : Leads(l, p, b, <<i2>>, C2)
    <3>1. PICK buf \in Buffers : buf = q BY <1>2
    <3>2. \A b \in Unused(t, d) :
            Leads(l, p, b, <<Load(buf, Q, bounds)>>, IF p \in Places(l, buf) THEN Coming(Q, 0, d) ELSE Unused(t, d))
      BY LoadIs
    <3> QED BY <1>1, <1>3, <1>9, <3>1, <3>2
  <2>4. \A b \in C2 : Leads(l, p, b, <<i3>>, C2) BY <1>4, <1>7, <2>1, LeadsAside
  <2>5. Leads(l, p, a, <<i1, i2>>, C2) BY <1>3, <2>2, <2>3, LeadsTwo
  <2>6. Leads(l, p, a, <<i1, i2, i3>>, C2) BY <2>4, <2>5, LeadsThree
  <2> QED BY <1>1, <1>3, <1>9, <2>1, <2>6
<1>10. CASE p \notin Places(l, "sdO") /\ p \notin Places(l, q)
  <2>1. \A b \in U : Leads(l, p, b, <<i1>>, U) /\ Leads(l, p, b, <<i2>>, U) BY <1>4, <1>5, <1>6, <1>10, LeadsAside
  <2>2. Leads(l, p, a, <<i1, i2>>, U) BY <1>3, <2>1, LeadsTwo
  <2>3. PICK C : C = IF p \in Places(l, "sK") THEN C3 ELSE U OBVIOUS
  <2>4. \A b \in U : Leads(l, p, b, <<i3>>, C)
    <3>1. PICK buf \in Buffers : buf = "sK" BY <1>2
    <3>2. \A b \in Unused(t, d) :
            Leads(l, p, b, <<Load(buf, K, bounds)>>, IF p \in Places(l, buf) THEN Coming(K, 0, d) ELSE Unused(t, d))
      BY LoadIs
    <3> QED BY <1>1, <1>3, <2>3, <3>1, <3>2
  <2>5. Leads(l, p, a, <<i1, i2, i3>>, C) BY <2>2, <2>4, LeadsThree
  <2> QED BY <1>1, <1>3, <1>10, <2>3, <2>5
<1> QED BY <1>8, <1>9, <1>10

\* A wait for all groups but one, a barrier and a read of V: what is on its way in the
\* last group still is; what came before is there.
LEMMA ValuesToRegisters ==
  ASSUME NEW l, NEW p, NEW V, NEW t, NEW U, NEW g \in {-1, 1, 2}, NEW a \in At(t, U, g, 2),
         g = 1 => U = {"written"} /\ p \notin Places(l, "sV"), p \in Places(l, "sV") => t = V
  PROVE  Leads(l, p, a, <<Wait(1), Sync, Use("sV", V)>>, IF g = 1 THEN Coming(t, 1, 1) ELSE Readable(t, 1))
<1>1. PICK i1, i2, i3 : i1 = Wait(1) /\ i2 = Sync /\ i3 = Use("sV", V) OBVIOUS
<1>2. "sV" \in Buffers BY DEF Buffers
<1>3. Leads(l, p, a, <<i1>>, At(t, U, IF g > 1 THEN -1 ELSE g, 1)) BY <1>1, WaitOneIs
<1>4. CASE g = 1
  <2>1. PICK B : B = Coming(t, 1, 1) OBVIOUS
  <2>2. Leads(l, p, a, <<i1>>, B)
    <3>1. At(t, U, IF g > 1 THEN -1 ELSE g, 1) = B BY <1>4, <2>1 DEF Coming
    <3> QED BY <1>3, <3>1
  <2>3. \A b \in B : Leads(l, p, b, <<i2>>, B)
    <3>1. \A b \in Coming(t, g, g) : Leads(l, p, b, <<i2>>, Coming(t, g, g)) BY <1>1, <1>4, SyncComing
    <3> QED BY <1>4, <2>1, <3>1
  <2>4. \A b \in B : Leads(l, p, b, <<i3>>, B)
    <3>1. Aside(l, p, i3) BY <1>1, <1>2, <1>4, AsideIs
    <3>2. B \subseteq PlaceStates BY <2>1 DEF Coming, At
    <3> QED BY <3>1, <3>2, LeadsAside
  <2>5. Leads(l, p, a, <<i1, i2>>, B) BY <2>2, <2>3, LeadsTwo
  <2>6. Leads(l, p, a, <<i1, i2, i3>>, B) BY <2>4, <2>5, LeadsThree
  <2> QED BY <1>1, <1>4, <2>1, <2>6
<1>5. CASE g # 1
  <2>1. (IF g > 1 THEN -1 ELSE g) = -1 BY <1>5
  <2>2. Leads(l, p, a, <<i1>>, At(t, U, -1, 1)) BY <1>3, <2>1
  <2>3. \A b \in At(t, U, -1, 1) : Leads(l, p, b, <<i2>>, Unused(t, 1)) BY <1>1, SyncIs
  <2>4. \A b \in Unused(t, 1) : Leads(l, p, b, <<i3>>, Readable(t, 1))
    <3>1. Reading(l, p, t, i3) BY <1>1, <1>2, ReadingIs
    <3>2. \A b \in Unused(t, 1) : b \in Readable(t, 1) BY UnusedReadable
    <3> QED BY <3>1, <3>2, LeadsReading
  <2>5. Leads(l, p, a, <<i1, i2>>, Unused(t, 1)) BY <2>2, <2>3, LeadsTwo
  <2>6. Leads(l, p, a, <<i1, i2, i3>>, Readable(t, 1)) BY <2>4, <2>5, LeadsThree
  <2> QED BY <1>1, <1>5, <2>6
<1> QED BY <1>4, <1>5

\* The prologue leads to the first iteration.
LEMMA BackwardPrologueLeads ==
  ASSUME NEW l \in Launches, l.kernel = "bwd", NEW p, NEW m \in Nat, MBlockMin(l, l.block) <= m,
         NEW slot, slot = Slot(l, m)
  PROVE  Leads(l, p, Fresh, BackwardPrologue(l, l.block, m, slot), BackwardBefore(l, p, m))
<1>1. PICK n \in Nat : n = l.block BY LaunchesAreValid, LaunchIs
<1>2. ~ (m < MBlockMin(l, l.block))
  <2>1. PICK z \in Nat : z = 0 OBVIOUS
  <2>2. MBlockMin(l, l.block) \in Nat BY <1>1, <2>1, LaunchesAreValid, LaunchIs, BackwardBlocks
  <2> QED BY <2>2
<1>3. PICK q \in {"sQ", "sQ2"} : q = QSlot(slot)
  <2>1. QSlot(Slot(l, m)) \in {"sQ", "sQ2"} BY SlotIs
  <2> QED BY <2>1
<1>4. PICK D \in TileSet, Q \in TileSet, K \in TileSet, V \in TileSet :
        D = Tile("dO", m) /\ Q = Tile("Q", m) /\ K = Tile("K", n) /\ V = Tile("V", n)
  <2>1. Tile("dO", m) \in TileSet /\ Tile("Q", m) \in TileSet /\ Tile("K", n) \in TileSet /\ Tile("V", n) \in TileSet
    BY TilesAre
  <2> QED BY <2>1
<1>5. PICK edge, t : edge = EdgeCleared(l) /\ t = Nothing OBVIOUS
<1>6. PICK inRegs \in BOOLEAN, outside \in BOOLEAN : (inRegs <=> VInRegs(l)) /\ (outside <=> ~ VInRegs(l))
  OBVIOUS
<1>7. PICK s1, s2, s3, s4, s5 :
        /\ s1 = <<Load("sV", V, edge), Commit>>
        /\ s2 = <<Load("sdO", D, edge), Load(q, Q, edge), Load("sK", K, edge)>>
        /\ s3 = <<Load("sV", V, edge)>>
        /\ s4 = <<Commit>>
        /\ s5 = <<Wait(1), Sync, Use("sV", V)>>
  OBVIOUS
<1>8. BackwardPrologue(l, l.block, m, slot) =
        (((If(inRegs, s1) \o s2) \o If(outside, s3)) \o s4) \o If(inRegs, s5)
  BY <1>1, <1>3, <1>4, <1>5, <1>6, <1>7 DEF BackwardPrologue, If
<1>9. PICK z \in {0, 1}, o \in {0, 1}, w \in {2}, none \in {-1} :
        z = 0 /\ o = 1 /\ w = 2 /\ z + 1 = o /\ o + 1 = w /\ none = -1
  OBVIOUS
<1>10. PICK one \in BOOLEAN : one <=> (p \in Places(l, "sdO") \/ p \in Places(l, q) \/ p \in Places(l, "sK"))
  OBVIOUS
<1>11. PICK X \in TileSet : X = IF p \in Places(l, "sdO") THEN D ELSE IF p \in Places(l, q) THEN Q ELSE K
  OBVIOUS
<1>12. ASSUME NEW u, NEW d, NEW b \in Unused(u, d)
       PROVE  /\ one => Leads(l, p, b, s2, Coming(X, 0, d))
              /\ ~ one => Leads(l, p, b, s2, Unused(u, d))
  <2>1. Leads(l, p, b, <<Load("sdO", D, edge), Load(q, Q, edge), Load("sK", K, edge)>>,
              IF p \in Places(l, "sdO") THEN Coming(D, 0, d)
              ELSE IF p \in Places(l, q) THEN Coming(Q, 0, d)
              ELSE IF p \in Places(l, "sK") THEN Coming(K, 0, d) ELSE Unused(u, d))
    BY <1>12, FirstLoadsLead
  <2> QED BY <1>7, <1>10, <1>11, <2>1
<1>13. one => p \notin Places(l, "sV") BY <1>10, BackwardPlaces
<1>14. /\ one /\ p \in Places(l, q) => X = Q
       /\ one /\ p \in Places(l, "sdO") => X = D
       /\ one /\ p \in Places(l, "sK") => X = K
  BY <1>11, BackwardPlaces
<1>15. PICK next : next = BackwardBefore(l, p, m) OBVIOUS
<1>16. ASSUME NEW b \in PlaceStates, b.age # 0, one => b.tile = X,
              outside /\ p \in Places(l, "sV") => b.tile = V
       PROVE  b \in next
  <2>1. /\ p \in Places(l, QSlot(Slot(l, m))) => b.tile = Tile("Q", m)
        /\ p \in Places(l, "sdO") => b.tile = Tile("dO", m)
        /\ p \in Places(l, "sK") => b.tile = Tile("K", l.block)
        /\ ~ VInRegs(l) /\ p \in Places(l, "sV") => b.tile = Tile("V", l.block)
    BY <1>1, <1>3, <1>4, <1>6, <1>10, <1>14, <1>16
  <2> QED BY <1>2, <1>15, <1>16, <2>1 DEF BackwardBefore
<1>17. Fresh \in Unused(t, z) BY <1>5, <1>9, FreshIs DEF Unused, At, Fresh
<1>18. PICK buf \in Buffers : buf = "sV" BY DEF Buffers
<1>19. ASSUME NEW u, NEW d, d < 2, NEW b \in Unused(u, d) PROVE Leads(l, p, b, s4, Unused(u, d + 1))
  BY <1>7, <1>19, CommitUnused
<1>20. ASSUME NEW u, NEW d, d < 2, NEW b \in Coming(u, z, d) PROVE Leads(l, p, b, s4, Coming(u, o, d + 1))
  <2>1. z >= 0 BY <1>9
  <2>2. Leads(l, p, b, <<Commit>>, Coming(u, z + 1, d + 1)) BY <1>20, <2>1, CommitComing
  <2> QED BY <1>7, <1>9, <2>2
<1>21. CASE inRegs
  <2>1. If(inRegs, s1) = s1 /\ If(outside, s3) = <<>> /\ If(inRegs, s5) = s5 BY <1>6, <1>21 DEF If
  <2>2. z < 2 /\ o < 2 BY <1>9
  <2>3. Leads(l, p, Fresh, s1, IF p \in Places(l, "sV") THEN Coming(V, 1, o) ELSE Unused(t, o))
    <3>1. Leads(l, p, Fresh, <<Load(buf, V, edge), Commit>>,
                IF p \in Places(l, buf) THEN Coming(V, 1, z + 1) ELSE Unused(t, z + 1))
      BY <1>17, <2>2, CopyIs
    <3> QED BY <1>7, <1>9, <1>18, <3>1
  <2>4. CASE p \in Places(l, "sV")
    <3>1. ~ one BY <1>13, <2>4
    <3>2. PICK B, C, R : B = Coming(V, o, o) /\ C = Coming(V, o + 1, o + 1) /\ R = Readable(V, 1) OBVIOUS
    <3>3. B \subseteq PlaceStates BY <3>2 DEF Coming, At
    <3>4. Leads(l, p, Fresh, s1, B) BY <1>9, <2>3, <2>4, <3>2
    <3>5. \A b \in B : Leads(l, p, b, s2, B)
      <4>1. PICK i1, i2, i3 :
              i1 = Load("sdO", D, edge) /\ i2 = Load(q, Q, edge) /\ i3 = Load("sK", K, edge)
        OBVIOUS
      <4>2. "sdO" \in Buffers /\ q \in Buffers /\ "sK" \in Buffers BY DEF Buffers
      <4>3. Aside(l, p, i1) /\ Aside(l, p, i2) /\ Aside(l, p, i3) BY <1>10, <3>1, <4>1, <4>2, LoadAside
      <4>4. \A b \in B : Leads(l, p, b, <<i1, i2, i3>>, B) BY <3>3, <4>3, AsideThree
      <4> QED BY <1>7, <4>1, <4>4
    <3>6. \A b \in B : Leads(l, p, b, s4, C)
      <4>1. o >= 0 BY <1>9
      <4>2. \A b \in Coming(V, o, o) : Leads(l, p, b, <<Commit>>, Coming(V, o + 1, o + 1))
        BY <2>2, <4>1, CommitComing
      <4> QED BY <1>7, <3>2, <4>2
    <3>7. \A b \in C : Leads(l, p, b, s5, R)
      <4>1. PICK g \in {-1, 1, 2} : g = 2 OBVIOUS
      <4>2. PICK U : U = {"written"} OBVIOUS
      <4>3. \A b \in At(V, U, g, 2) :
              Leads(l, p, b, <<Wait(1), Sync, Use("sV", V)>>, IF g = 1 THEN Coming(V, 1, 1) ELSE Readable(V, 1))
        <5>1. g = 1 => U = {"written"} /\ p \notin Places(l, "sV") BY <4>1
        <5>2. p \in Places(l, "sV") => V = V OBVIOUS
        <5> QED BY <5>1, <5>2, ValuesToRegisters
      <4>4. C = At(V, U, g, 2) BY <1>9, <3>2, <4>1, <4>2 DEF Coming
      <4> QED BY <1>7, <3>2, <4>1, <4>3, <4>4
    <3>8. R \subseteq next
      <4>1. \A b \in R : b \in PlaceStates /\ b.age # 0 BY <3>2 DEF Readable, At
      <4> QED BY <1>6, <1>16, <1>21, <3>1, <4>1
    <3>9. Leads(l, p, Fresh, s1 \o s2, B) BY <3>4, <3>5, LeadsJoin
    <3>10. \A b \in B : Leads(l, p, b, <<>>, B) BY LeadsNone
    <3>11. Leads(l, p, Fresh, (s1 \o s2) \o <<>>, B) BY <3>9, <3>10, LeadsJoin
    <3>12. Leads(l, p, Fresh, ((s1 \o s2) \o <<>>) \o s4, C) BY <3>6, <3>11, LeadsJoin
    <3>13. \A b \in C : Leads(l, p, b, s5, next) BY <3>7, <3>8, LeadsMore
    <3>14. Leads(l, p, Fresh, (((s1 \o s2) \o <<>>) \o s4) \o s5, next) BY <3>12, <3>13, LeadsJoin
    <3> QED BY <1>8, <1>15, <2>1, <3>14
  <2>5. CASE p \notin Places(l, "sV")
    <3>1. Leads(l, p, Fresh, s1, Unused(t, o)) BY <2>3, <2>5
    <3>2. PICK B, C, R :
            /\ B = IF one THEN Coming(X, z, o) ELSE Unused(t, o)
            /\ C = IF one THEN Coming(X, o, w) ELSE Unused(t, w)
            /\ R = IF one THEN Coming(X, 1, 1) ELSE Readable(t, 1)
      OBVIOUS
    <3>3. \A b \in Unused(t, o) : Leads(l, p, b, s2, B) BY <1>9, <1>12, <3>2
    <3>4. \A b \in B : Leads(l, p, b, s4, C)
      <4>1. CASE one
        <5>1. \A b \in Coming(X, z, o) : Leads(l, p, b, s4, Coming(X, o, o + 1)) BY <1>20, <2>2
        <5> QED BY <1>9, <3>2, <4>1, <5>1
      <4>2. CASE ~ one
        <5>1. \A b \in Unused(t, o) : Leads(l, p, b, s4, Unused(t, o + 1)) BY <1>19, <2>2
        <5> QED BY <1>9, <3>2, <4>2, <5>1
      <4> QED BY <4>1, <4>2
    <3>5. \A b \in C : Leads(l, p, b, s5, R)
      <4>1. PICK g \in {-1, 1, 2} : g = IF one THEN 1 ELSE -1 OBVIOUS
      <4>2. PICK U, u : U = (IF one THEN {"written"} ELSE {"idle"}) /\ u = IF one THEN X ELSE t OBVIOUS
      <4>3. g = 1 => U = {"written"} /\ p \notin Places(l, "sV") BY <2>5, <4>1, <4>2
      <4>4. \A b \in At(u, U, g, 2) :
              Leads(l, p, b, <<Wait(1), Sync, Use("sV", V)>>, IF g = 1 THEN Coming(u, 1, 1) ELSE Readable(u, 1))
        BY <2>5, <4>3, ValuesToRegisters
      <4>5. C = At(u, U, g, 2) BY <1>9, <3>2, <4>1, <4>2 DEF Coming, Unused
      <4>6. R = IF g = 1 THEN Coming(u, 1, 1) ELSE Readable(u, 1) BY <3>2, <4>1, <4>2
      <4> QED BY <1>7, <4>4, <4>5, <4>6
    <3>6. R \subseteq next
      <4>1. \A b \in R : b \in PlaceStates /\ b.age # 0 /\ (one => b.tile = X)
        BY <3>2 DEF Coming, Readable, At
      <4> QED BY <1>16, <2>5, <4>1
    <3>7. Leads(l, p, Fresh, s1 \o s2, B) BY <3>1, <3>3, LeadsJoin
    <3>8. \A b \in B : Leads(l, p, b, <<>>, B) BY LeadsNone
    <3>9. Leads(l, p, Fresh, (s1 \o s2) \o <<>>, B) BY <3>7, <3>8, LeadsJoin
    <3>10. Leads(l, p, Fresh, ((s1 \o s2) \o <<>>) \o s4, C) BY <3>4, <3>9, LeadsJoin
    <3>11. \A b \in C : Leads(l, p, b, s5, next) BY <3>5, <3>6, LeadsMore
    <3>12. Leads(l, p, Fresh, (((s1 \o s2) \o <<>>) \o s4) \o s5, next) BY <3>10, <3>11, LeadsJoin
    <3> QED BY <1>8, <1>15, <2>1, <3>12
  <2> QED BY <2>4, <2>5
<1>22. CASE ~ inRegs
  <2>1. If(inRegs, s1) = <<>> /\ If(outside, s3) = s3 /\ If(inRegs, s5) = <<>> BY <1>6, <1>22 DEF If
  <2>2. PICK A, B, C, D0 :
          /\ A = Unused(t, z)
          /\ B = IF one THEN Coming(X, z, z) ELSE Unused(t, z)
          /\ C = IF one THEN Coming(X, z, z) ELSE IF p \in Places(l, "sV") THEN Coming(V, z, z) ELSE Unused(t, z)
          /\ D0 = IF one THEN Coming(X, o, o) ELSE IF p \in Places(l, "sV") THEN Coming(V, o, o) ELSE Unused(t, o)
    OBVIOUS
  <2>3. Leads(l, p, Fresh, <<>>, A) BY <1>17, <2>2, LeadsNone
  <2>4. \A b \in A : Leads(l, p, b, s2, B) BY <1>9, <1>12, <2>2
  <2>5. \A b \in B : Leads(l, p, b, s3, C)
    <3>1. CASE one
      <4>1. PICK ins : ins = Load("sV", V, edge) OBVIOUS
      <4>2. Aside(l, p, ins) BY <1>13, <1>18, <3>1, <4>1, LoadAside
      <4>3. B \subseteq PlaceStates BY <2>2, <3>1 DEF Coming, At
      <4>4. \A b \in B : Leads(l, p, b, <<ins>>, B) BY <4>2, <4>3, LeadsAside
      <4> QED BY <1>7, <2>2, <3>1, <4>1, <4>4
    <3>2. CASE ~ one
      <4>1. \A b \in Unused(t, z) :
              Leads(l, p, b, <<Load(buf, V, edge)>>, IF p \in Places(l, buf) THEN Coming(V, 0, z) ELSE Unused(t, z))
        BY LoadIs
      <4> QED BY <1>7, <1>9, <1>18, <2>2, <3>2, <4>1
    <3> QED BY <3>1, <3>2
  <2>6. \A b \in C : Leads(l, p, b, s4, D0)
    <3>1. z < 2 BY <1>9
    <3>2. \A b \in Coming(X, z, z) : Leads(l, p, b, s4, Coming(X, o, z + 1)) BY <1>20, <3>1
    <3>3. \A b \in Coming(V, z, z) : Leads(l, p, b, s4, Coming(V, o, z + 1)) BY <1>20, <3>1
    <3>4. \A b \in Unused(t, z) : Leads(l, p, b, s4, Unused(t, z + 1)) BY <1>19, <3>1
    <3> QED BY <1>9, <2>2, <3>2, <3>3, <3>4
  <2>7. D0 \subseteq next
    <3>1. \A b \in D0 : b \in PlaceStates /\ b.age # 0 /\ (one => b.tile = X)
                        /\ (~ one /\ p \in Places(l, "sV") => b.tile = V)
      BY <1>9, <2>2 DEF Coming, Unused, At
    <3> QED BY <1>13, <1>16, <3>1
  <2>8. \A b \in D0 : Leads(l, p, b, <<>>, next) BY <2>7, LeadsNone
  <2>9. Leads(l, p, Fresh, <<>> \o s2, B) BY <2>3, <2>4, LeadsJoin
  <2>10. Leads(l, p, Fresh, (<<>> \o s2) \o s3, C) BY <2>5, <2>9, LeadsJoin
  <2>11. Leads(l, p, Fresh, ((<<>> \o s2) \o s3) \o s4, D0) BY <2>6, <2>10, LeadsJoin
  <2>12. Leads(l, p, Fresh, (((<<>> \o s2) \o s3) \o s4) \o <<>>, next) BY <2>8, <2>11, LeadsJoin
  <2> QED BY <1>8, <1>15, <2>1, <2>12
<1> QED BY <1>21, <1>22

\* dK and dV take the places of what is no longer used.
LEMMA BackwardEpilogueLeads ==
  ASSUME NEW l \in Launches, l.kernel = "bwd", NEW p, NEW m \in Int, m < MBlockMin(l, l.block),
         NEW a \in BackwardBefore(l, p, m)
  PROVE  Leads(l, p, a, BackwardEpilogue(l.block), PlaceStates)
<1>1. PICK K \in TileSet, V \in TileSet : K = Tile("dK", l.block) /\ V = Tile("dV", l.block)
  <2>1. l.block \in Int BY LaunchesAreValid, LaunchIs
  <2>2. Tile("dK", l.block) \in TileSet /\ Tile("dV", l.block) \in TileSet BY <2>1, TilesAre
  <2> QED BY <2>2
<1>2. PICK i1, i2, i3, i4, i5 :
        i1 = Sync /\ i2 = Put("sdK", K) /\ i3 = Put("sdV", V) /\ i4 = Fetch("sdK", K) /\ i5 = Fetch("sdV", V)
  OBVIOUS
<1>3. BackwardEpilogue(l.block) = <<i1, i2, i3>> \o <<i1, i4, i5>>
  <2>1. <<i1, i2, i3, i1, i4, i5>> = <<i1, i2, i3>> \o <<i1, i4, i5>> OBVIOUS
  <2> QED BY <1>1, <1>2, <2>1 DEF BackwardEpilogue
<1>4. "sdK" \in Buffers /\ "sdV" \in Buffers BY DEF Buffers
<1>5. PICK t, d : t = a.tile /\ d = a.depth OBVIOUS
<1>6. Leads(l, p, a, <<i1>>, Unused(t, d))
  <2>1. a \in PlaceStates /\ a.age = -1 BY DEF BackwardBefore
  <2>2. a.use \in {"idle", "read", "written"} BY <2>1, StateIs
  <2>3. a \in At(t, {"idle", "read", "written"}, -1, d) BY <1>5, <2>1, <2>2 DEF At
  <2> QED BY <1>2, <2>3, SyncIs
<1>7. ~ (p \in Places(l, "sdK") /\ p \in Places(l, "sdV")) BY BackwardPlaces
<1>8. PICK B, C, u :
        /\ B = IF p \in Places(l, "sdK") THEN Stored(K, d) ELSE Unused(t, d)
        /\ C = IF p \in Places(l, "sdK") THEN Stored(K, d)
               ELSE IF p \in Places(l, "sdV") THEN Stored(V, d) ELSE Unused(t, d)
        /\ u = IF p \in Places(l, "sdK") THEN K ELSE IF p \in Places(l, "sdV") THEN V ELSE t
  OBVIOUS
<1>9. \A b \in Unused(t, d) : Leads(l, p, b, <<i2>>, B)
  <2>1. PICK buf \in Buffers : buf = "sdK" BY <1>4
  <2>2. \A b \in Unused(t, d) :
          Leads(l, p, b, <<Put(buf, K)>>, IF p \in Places(l, buf) THEN Stored(K, d) ELSE Unused(t, d))
    BY PutIs
  <2> QED BY <1>2, <1>8, <2>1, <2>2
<1>10. \A b \in B : Leads(l, p, b, <<i3>>, C)
  <2>1. PICK buf \in Buffers : buf = "sdV" BY <1>4
  <2>2. CASE p \in Places(l, "sdK")
    <3>1. Aside(l, p, i3) BY <1>2, <1>4, <1>7, <2>2, AsideIs
    <3>2. B \subseteq PlaceStates BY <1>8, <2>2 DEF Stored, At
    <3>3. B = C BY <1>8, <2>2
    <3> QED BY <3>1, <3>2, <3>3, LeadsAside
  <2>3. CASE p \notin Places(l, "sdK")
    <3>1. \A b \in Unused(t, d) :
            Leads(l, p, b, <<Put(buf, V)>>, IF p \in Places(l, buf) THEN Stored(V, d) ELSE Unused(t, d))
      BY PutIs
    <3> QED BY <1>2, <1>8, <2>1, <2>3, <3>1
  <2> QED BY <2>2, <2>3
<1>11. \A b \in C : Leads(l, p, b, <<i1>>, Unused(u, d))
  <2>1. \A b \in At(u, {"written"}, -1, d) : Leads(l, p, b, <<i1>>, Unused(u, d)) BY <1>2, SyncIs
  <2>2. \A b \in At(u, {"idle"}, -1, d) : Leads(l, p, b, <<i1>>, Unused(u, d)) BY <1>2, SyncIs
  <2>3. C = At(u, {"written"}, -1, d) \/ C = At(u, {"idle"}, -1, d) BY <1>8 DEF Stored, Unused
  <2> QED BY <2>1, <2>2, <2>3
<1>12. Reading(l, p, u, i4) /\ Reading(l, p, u, i5)
  <2>1. p \in Places(l, "sdK") => K = u BY <1>8
  <2>2. p \in Places(l, "sdV") => V = u BY <1>7, <1>8
  <2>3. Reading(l, p, u, i4) BY <1>2, <1>4, <2>1, ReadingIs
  <2>4. Reading(l, p, u, i5) BY <1>2, <1>4, <2>2, ReadingIs
  <2> QED BY <2>3, <2>4
<1>13. \A b \in Readable(u, d) : Leads(l, p, b, <<i4>>, Readable(u, d)) /\ Leads(l, p, b, <<i5>>, Readable(u, d))
  BY <1>12, LeadsReading
<1>14. \A b \in Unused(u, d) : b \in Readable(u, d) BY UnusedReadable
<1>15. Leads(l, p, a, <<i1, i2>>, B) BY <1>6, <1>9, LeadsTwo
<1>16. Leads(l, p, a, <<i1, i2, i3>>, C) BY <1>10, <1>15, LeadsThree
<1>17. \A b \in C : Leads(l, p, b, <<i1, i4>>, Readable(u, d)) BY <1>11, <1>13, <1>14, LeadsTwo
<1>18. \A b \in C : Leads(l, p, b, <<i1, i4, i5>>, Readable(u, d)) BY <1>13, <1>17, LeadsThree
<1>19. Leads(l, p, a, <<i1, i2, i3>> \o <<i1, i4, i5>>, Readable(u, d)) BY <1>16, <1>18, LeadsJoin
<1>20. Readable(u, d) \subseteq PlaceStates BY DEF Readable, At
<1>21. Leads(l, p, a, <<i1, i2, i3>> \o <<i1, i4, i5>>, PlaceStates) BY <1>19, <1>20, LeadsMore
<1> QED BY <1>3, <1>21

\* The loop, from the first block to the last.
LEMMA BackwardLoopLeads ==
  ASSUME NEW l \in Launches, l.kernel = "bwd", NEW p, NEW first \in Nat, NEW lo \in Nat,
         lo = MBlockMin(l, l.block), lo <= first, NEW a \in BackwardBefore(l, p, first)
  PROVE  Leads(l, p, a,
               FlattenSeq([i \in 1 .. first - lo + 1 |->
                             BackwardStep(l, l.block, first - (i - 1), PointersFrom(l, l.block, first)[i - 1])]),
               BackwardBefore(l, p, lo - 1))
<1>1. PICK n \in Nat : n = l.block BY LaunchesAreValid, LaunchIs
<1>2. PICK k \in Nat : k = first - lo + 1
  <2>1. first - lo + 1 \in Nat OBVIOUS
  <2> QED BY <2>1
<1>3. PICK ptr : ptr = PointersFrom(l, n, first) OBVIOUS
<1>4. PICK segs, T : /\ segs = [i \in 1 .. k |-> BackwardStep(l, n, first - (i - 1), ptr[i - 1])]
                     /\ T = [i \in 0 .. k |-> BackwardBefore(l, p, first - i)]
  OBVIOUS
<1>5. DOMAIN segs = 1 .. k /\ segs = [i \in 1 .. k |-> segs[i]] BY <1>4
<1>6. T[0] = BackwardBefore(l, p, first) /\ T[k] = BackwardBefore(l, p, lo - 1)
  <2>1. 0 \in 0 .. k /\ k \in 0 .. k /\ first - 0 = first /\ first - k = lo - 1 BY <1>2
  <2> QED BY <1>4, <2>1
<1>7. ASSUME NEW i \in 1 .. k PROVE \A b \in T[i - 1] : Leads(l, p, b, segs[i], T[i])
  <2>1. PICK j \in 0 .. first - MBlockMin(l, n) : j = i - 1
    <3>1. i - 1 \in 0 .. first - lo BY <1>2
    <3> QED BY <1>1, <3>1
  <2>2. PICK m \in Nat : m = first - j /\ lo <= m /\ m - 1 = first - i
    <3>1. i - 1 \in 0 .. first - lo BY <1>2
    <3>2. first - j \in Nat /\ lo <= first - j /\ (first - j) - 1 = first - i BY <2>1, <3>1
    <3> QED BY <3>2
  <2>3. PICK x : x = ptr[j] OBVIOUS
  <2>4. x.q = Slot(l, m) /\ x.qt = Slot(l, m)
    <3>1. PointersFrom(l, n, first)[j].q = Slot(l, first - j) /\ PointersFrom(l, n, first)[j].qt = Slot(l, first - j)
      BY LaunchesAreValid, SlotsFollow
    <3> QED BY <1>3, <2>2, <2>3, <3>1
  <2>5. \A b \in BackwardBefore(l, p, m) :
          Leads(l, p, b, BackwardStep(l, n, m, x), BackwardBefore(l, p, m - 1))
    BY <1>1, <2>2, <2>4, BackwardStepLeads
  <2>6. segs[i] = BackwardStep(l, n, m, x) /\ T[i - 1] = BackwardBefore(l, p, m) /\ T[i] = BackwardBefore(l, p, m - 1)
    <3>1. i - 1 \in 0 .. k /\ i \in 0 .. k /\ first - (i - 1) = m BY <2>1, <2>2
    <3> QED BY <1>4, <2>1, <2>2, <2>3, <3>1
  <2> QED BY <2>5, <2>6
<1>8. Leads(l, p, a, FlattenSeq(segs), T[k]) BY <1>5, <1>6, <1>7, LeadsFlatten
<1>9. segs = [i \in 1 .. first - lo + 1 |->
                BackwardStep(l, l.block, first - (i - 1), PointersFrom(l, l.block, first)[i - 1])]
  BY <1>1, <1>2, <1>3, <1>4
<1> QED BY <1>6, <1>8, <1>9

\* The backward kernel keeps the discipline.
LEMMA BackwardDisciplined ==
  ASSUME NEW l \in Launches, l.kernel = "bwd", NEW w, NEW p
  PROVE  Disciplined(l, p, BackwardCode(l, w))
<1>1. ValidLaunch(l) BY LaunchesAreValid
<1>2. CASE ~ (l.block * l.N < l.sk /\ MBlockMin(l, l.block) < MBlockMax(l, l.block))
  <2>1. BackwardCode(l, w) = <<>> BY <1>1, <1>2, BackwardCodeIs
  <2>2. Disciplined(l, p, <<>>)
    <3>1. \A k \in 1 .. Len(<<>>) : FALSE OBVIOUS
    <3> QED BY <3>1 DEF Disciplined
  <2> QED BY <2>1, <2>2
<1>3. CASE l.block * l.N < l.sk /\ MBlockMin(l, l.block) < MBlockMax(l, l.block)
  <2>1. PICK n \in Nat, N \in Nat \ {0}, sk \in Nat \ {0} : n = l.block /\ N = l.N /\ sk = l.sk
    BY <1>1, LaunchIs, ShapeIs
  <2>2. PICK lo \in Nat, hi \in Int : lo = MBlockMin(l, n) /\ hi = MBlockMax(l, n)
    <3>1. PICK z \in Nat : z = 0 OBVIOUS
    <3> QED BY <1>1, <2>1, <3>1, LaunchIs, BackwardBlocks
  <2>3. PICK first \in Nat : first = hi - 1 /\ lo <= first
    <3>1. hi - 1 \in Nat /\ lo <= hi - 1 BY <1>3, <2>1, <2>2
    <3> QED BY <3>1
  <2>4. PICK ptr : ptr = PointersFrom(l, n, first) OBVIOUS
  <2>5. PICK s1, s2, s3 :
          /\ s1 = BackwardPrologue(l, n, first, ptr[0].q)
          /\ s2 = FlattenSeq([i \in 1 .. first - lo + 1 |-> BackwardStep(l, n, first - (i - 1), ptr[i - 1])])
          /\ s3 = BackwardEpilogue(n)
    OBVIOUS
  <2>6. BackwardCode(l, w) = (s1 \o s2) \o s3
    <3>1. ~ (n * l.N >= l.sk) /\ ~ (first < MBlockMin(l, n)) BY <1>3, <2>1, <2>2, <2>3
    <3> QED BY <2>1, <2>2, <2>3, <2>4, <2>5, <3>1 DEF BackwardCode
  <2>7. PICK A, B : A = BackwardBefore(l, p, first) /\ B = BackwardBefore(l, p, lo - 1) OBVIOUS
  <2>8. Leads(l, p, Fresh, s1, A)
    <3>1. PICK z \in 0 .. first - MBlockMin(l, n) : z = 0
      <4>1. 0 \in 0 .. first - lo BY <2>3
      <4> QED BY <2>2, <4>1
    <3>2. PointersFrom(l, n, first)[z].q = Slot(l, first - z) BY <1>1, SlotsFollow
    <3>3. PICK slot : slot = ptr[0].q OBVIOUS
    <3>4. slot = Slot(l, first)
      <4>1. first - z = first BY <3>1
      <4> QED BY <2>4, <3>1, <3>2, <3>3, <4>1
    <3>5. Leads(l, p, Fresh, BackwardPrologue(l, l.block, first, slot), BackwardBefore(l, p, first))
      BY <2>1, <2>2, <2>3, <3>4, BackwardPrologueLeads
    <3> QED BY <2>1, <2>5, <2>7, <3>3, <3>5
  <2>9. \A a \in A : Leads(l, p, a, s2, B)
    <3>1. lo = MBlockMin(l, l.block) BY <2>1, <2>2
    <3>2. \A a \in BackwardBefore(l, p, first) :
            Leads(l, p, a,
                  FlattenSeq([i \in 1 .. first - lo + 1 |->
                                BackwardStep(l, l.block, first - (i - 1), PointersFrom(l, l.block, first)[i - 1])]),
                  BackwardBefore(l, p, lo - 1))
      BY <2>3, <3>1, BackwardLoopLeads
    <3> QED BY <2>1, <2>4, <2>5, <2>7, <3>2
  <2>10. \A a \in B : Leads(l, p, a, s3, PlaceStates)
    <3>1. PICK m \in Int : m = lo - 1 /\ m < MBlockMin(l, l.block)
      <4>1. lo - 1 \in Int /\ lo - 1 < lo OBVIOUS
      <4> QED BY <2>1, <2>2, <4>1
    <3> QED BY <2>1, <2>5, <2>7, <3>1, BackwardEpilogueLeads
  <2>11. Leads(l, p, Fresh, s1 \o s2, B) BY <2>8, <2>9, LeadsJoin
  <2>12. Leads(l, p, Fresh, (s1 \o s2) \o s3, PlaceStates) BY <2>10, <2>11, LeadsJoin
  <2> QED BY <2>6, <2>12, LeadsDisciplined
<1> QED BY <1>2, <1>3

\* Each kernel keeps the discipline, at every place.
LEMMA CodeIsDisciplined ==
  ASSUME NEW l \in Launches, NEW w \in Warps
  PROVE  \A p \in AllPlaces : Disciplined(l, p, Code(l, w))
<1>1. Code(l, w) = KernelCode(l, w) BY KernelsRun
<1>2. CASE l.kernel = "bwd"
  <2>1. KernelCode(l, w) = BackwardCode(l, w) BY <1>2 DEF KernelCode
  <2> QED BY <1>1, <1>2, <2>1, BackwardDisciplined
<1>3. CASE l.kernel # "bwd"
  <2>1. KernelCode(l, w) = ForwardCode(l, w) BY <1>3 DEF KernelCode
  <2> QED BY <1>1, <1>3, <2>1, ForwardDisciplined
<1> QED BY <1>2, <1>3

-----------------------------------------------------------------------------
(* The invariant.                                                          *)

\* Every warp runs the same code.
LEMMA CodeIsShared ==
  ASSUME NEW l \in Launches, NEW v \in Warps, NEW w \in Warps
  PROVE  Code(l, v) = Code(l, w)
BY KernelsRun DEF KernelCode, BackwardCode, ForwardCode

\* The code that all warps run, and the place each is at.
LEMMA SettingIs ==
  ASSUME RaceInv, NEW w \in Warps
  PROVE  /\ launch \in Launches
         /\ code[w] \in Seq(Range(code[w])) /\ Len(code[w]) \in Nat
         /\ \A p \in AllPlaces : Disciplined(launch, p, code[w])
         /\ \A v \in Warps : /\ code[v] = code[w]
                             /\ pc[v] \in 1 .. Len(code[w]) + 1 /\ barrier[v] \in Nat
                             /\ groups[v] \in Seq(SUBSET Range(code[w]))
                             /\ open[v] \in SUBSET Range(code[w])
<1>1. launch \in Launches /\ \A v \in Warps : code[v] = Code(launch, v) BY DEF RaceInv
<1>2. \A v \in Warps : code[v] = code[w] BY <1>1, CodeIsShared
<1>3. Program(launch, code[w]) BY <1>1, CodeIsProgram
<1>4. PICK S : code[w] \in Seq(S) BY <1>3 DEF Program
<1>5. code[w] \in Seq(Range(code[w])) /\ Len(code[w]) \in Nat
  <2>1. PICK d \in Nat : d = Len(code[w]) /\ code[w] \in [1 .. d -> S] BY <1>4, LenProperties
  <2>2. \A k \in 1 .. d : code[w][k] \in Range(code[w]) BY <2>1 DEF Range
  <2>3. code[w] = [k \in 1 .. d |-> code[w][k]] BY <2>1
  <2>4. [k \in 1 .. d |-> code[w][k]] \in Seq(Range(code[w])) BY <2>2, IsASeq
  <2> QED BY <2>1, <2>3, <2>4
<1>6. \A p \in AllPlaces : Disciplined(launch, p, code[w]) BY <1>1, CodeIsDisciplined
<1>7. \A v \in Warps : pc[v] \in 1 .. Len(code[w]) + 1 BY <1>2 DEF RaceInv
<1>8. \A v \in Warps : barrier[v] \in Nat BY DEF RaceInv
<1>9. \A v \in Warps : /\ groups[v] \in Seq(SUBSET Range(code[w]))
                       /\ open[v] \in SUBSET Range(code[w])
  BY <1>2 DEF RaceInv
<1> QED BY <1>1, <1>2, <1>5, <1>6, <1>7, <1>8, <1>9

\* What a step changes.
LEMMA StepIs ==
  ASSUME NEW w \in Warps, Step(w)
  PROVE  LET ins == Next_(w)
         IN  /\ Ready(w) /\ launch' = launch /\ code' = code
             /\ pc' = [pc EXCEPT ![w] = @ + 1]
             /\ IF ins.op = "sync" THEN barrier' = [barrier EXCEPT ![w] = @ + 1]
                ELSE barrier' = barrier
             /\ IF ins.op = "load" THEN open' = [open EXCEPT ![w] = @ \cup {ins}]
                ELSE IF ins.op = "commit" THEN open' = [open EXCEPT ![w] = {}]
                ELSE open' = open
             /\ IF ins.op = "commit" THEN groups' = [groups EXCEPT ![w] = Append(@, open[w])]
                ELSE IF ins.op = "wait"
                     THEN LET last == Len(groups[w]) - ins.n
                          IN  groups' = [groups EXCEPT ![w] =
                                           SubSeq(@, (IF last < 0 THEN 0 ELSE last) + 1, Len(@))]
                ELSE groups' = groups
             /\ IF ins.op = "load" THEN smem' = Written(w, ins, InFlight)
                ELSE IF ins.op = "put" THEN smem' = Written(w, ins, ins.tile)
                ELSE IF ins.op = "wait"
                     THEN smem' = Arrived(w, UNION {groups[w][i] : i \in 1 .. Len(groups[w]) - ins.n})
                ELSE smem' = smem
<1>1. PICK ins : ins = Next_(w) OBVIOUS
<1>2. /\ Ready(w) /\ launch' = launch /\ code' = code
      /\ pc' = [pc EXCEPT ![w] = @ + 1]
  BY DEF Step
<1>3. CASE IssueCopy(w) BY <1>2, <1>3 DEF IssueCopy
<1>4. CASE CommitGroup(w) BY <1>2, <1>4 DEF CommitGroup
<1>5. CASE WaitGroups(w) BY <1>2, <1>5 DEF WaitGroups
<1>6. CASE Arrive(w) BY <1>2, <1>6 DEF Arrive
<1>7. CASE ReadSmem(w) BY <1>2, <1>7 DEF ReadSmem
<1>8. CASE WriteSmem(w) BY <1>2, <1>8 DEF WriteSmem
<1>9. CASE Compute(w) BY <1>2, <1>9 DEF Compute
<1> QED BY <1>3, <1>4, <1>5, <1>6, <1>7, <1>8, <1>9 DEF Step

\* The warps are in step when they start, before they have written anything.
LEMMA InitRace == Init => RaceInv
<1> SUFFICES ASSUME Init PROVE RaceInv OBVIOUS
<1>1. launch \in Launches /\ code = [w \in Warps |-> Code(launch, w)] BY DEF Init
<1>2. pc = [w \in Warps |-> 1] /\ barrier = [w \in Warps |-> 0] BY DEF Init
<1>3. open = [w \in Warps |-> {}] /\ groups = [w \in Warps |-> <<>>] BY DEF Init
<1>4. \A w \in Warps : Len(code[w]) \in Nat
  <2>1. ASSUME NEW w \in Warps PROVE Len(code[w]) \in Nat
    <3>1. Program(launch, code[w]) BY <1>1, CodeIsProgram
    <3> QED BY <3>1, LenProperties DEF Program
  <2> QED BY <2>1
<1>5. pc \in [Warps -> Nat] /\ barrier \in [Warps -> Nat] BY <1>2
<1>6. \A w \in Warps : pc[w] \in 1 .. Len(code[w]) + 1 /\ barrier[w] < pc[w] BY <1>2, <1>4
<1>7. InStep
  <2>1. \A s : Between(s, 1, 0, 1, 0) BY DEF Between, NoSync
  <2> QED BY <1>2, <2>1 DEF InStep
<1>8. DOMAIN open = Warps /\ DOMAIN groups = Warps BY <1>3
<1>9. \A w \in Warps, p \in AllPlaces : View(w, p) = Fresh
  <2>1. ASSUME NEW w \in Warps, NEW p \in AllPlaces PROVE View(w, p) = Fresh
    <3>1. pc[w] - 1 = 0 BY <1>2
    <3>2. Known(launch, p, code[w])[0] = Fresh BY <1>4, KnownIs
    <3> QED BY <3>1, <3>2 DEF View
  <2> QED BY <2>1
<1>10. ASSUME NEW w \in Warps
       PROVE  /\ open[w] \subseteq Range(code[w])
              /\ groups[w] \in Seq(SUBSET Range(code[w]))
              /\ \A p \in AllPlaces : CopiesKnown(launch, p, View(w, p), open[w], groups[w])
  <2>1. open[w] = {} /\ groups[w] = <<>> BY <1>3
  <2>2. DOMAIN groups[w] = {} /\ Len(groups[w]) = 0 BY <2>1
  <2>3. groups[w] \in Seq(SUBSET Range(code[w])) BY <2>1
  <2>4. \A p : CopiesKnown(launch, p, Fresh, open[w], groups[w])
    BY <2>1, <2>2 DEF CopiesKnown, Fresh, Covered, Range
  <2> QED BY <1>9, <2>1, <2>3, <2>4
<1>11. smem = [p \in AllPlaces |-> [x \in Cells |-> Contents(p, x[1], x[2])]]
  <2>1. ASSUME NEW p \in AllPlaces, NEW x \in Cells PROVE Contents(p, x[1], x[2]) = Nothing
    <3>1. x[1] \in Warps /\ x[2] \in Warps BY DEF Cells
    <3>2. View(x[1], p) = Fresh /\ View(x[2], p) = Fresh BY <1>9, <3>1
    <3> QED BY <3>2 DEF Contents, Held, Fresh
  <2>2. smem = [p \in AllPlaces |-> [x \in Cells |-> Nothing]] BY DEF Init
  <2> QED BY <2>1, <2>2
<1> QED BY <1>1, <1>5, <1>6, <1>7, <1>8, <1>10, <1>11 DEF RaceInv

\* A step of warp w leaves the warps in step.
LEMMA StepInStep ==
  ASSUME RaceInv, NEW w \in Warps, Step(w)
  PROVE  /\ InStep'
         /\ pc' \in [Warps -> Nat] /\ barrier' \in [Warps -> Nat]
         /\ \A v \in Warps : pc'[v] \in 1 .. Len(code'[v]) + 1 /\ barrier'[v] < pc'[v]
<1>1. PICK s, i, n : s = code[w] /\ i = pc[w] /\ n = barrier[w] OBVIOUS
<1>2. PICK n1 : n1 = IF s[i].op = "sync" THEN n + 1 ELSE n OBVIOUS
<1>3. pc \in [Warps -> Nat] /\ barrier \in [Warps -> Nat] BY DEF RaceInv
<1>4. code' = code /\ \A v \in Warps : code[v] = s BY <1>1, StepIs, SettingIs
<1>5. /\ n <= n1 /\ n1 \in Nat /\ n1 <= n + 1 /\ n \in Nat
      /\ i \in Nat /\ i \in 1 .. Len(s) /\ Len(s) \in Nat /\ n < i
  <2>1. Ready(w) BY StepIs
  <2>2. i \in 1 .. Len(s) + 1 /\ Len(s) \in Nat /\ n \in Nat /\ n < i BY <1>1, SettingIs DEF RaceInv
  <2>3. ~ (i > Len(s)) BY <1>1, <2>1 DEF Ready, Finished
  <2> QED BY <1>2, <2>2, <2>3
<1>6. /\ pc'[w] = i + 1 /\ barrier'[w] = n1
      /\ \A v \in Warps \ {w} : pc'[v] = pc[v] /\ barrier'[v] = barrier[v]
      /\ DOMAIN pc' = Warps /\ DOMAIN barrier' = Warps
      /\ pc' = [v \in Warps |-> pc'[v]] /\ barrier' = [v \in Warps |-> barrier'[v]]
  <2>1. pc' = [pc EXCEPT ![w] = @ + 1] BY StepIs
  <2>2. IF s[i].op = "sync" THEN barrier' = [barrier EXCEPT ![w] = @ + 1] ELSE barrier' = barrier
    BY <1>1, StepIs DEF Next_
  <2> QED BY <1>1, <1>2, <1>3, <2>1, <2>2
<1>7. pc' \in [Warps -> Nat] /\ barrier' \in [Warps -> Nat]
  <2>1. \A v \in Warps : pc'[v] \in Nat /\ barrier'[v] \in Nat BY <1>3, <1>5, <1>6
  <2> QED BY <1>6, <2>1
<1>8. ASSUME NEW v \in Warps PROVE pc'[v] \in 1 .. Len(code'[v]) + 1 /\ barrier'[v] < pc'[v]
  <2>1. CASE v = w BY <1>1, <1>4, <1>5, <1>6, <2>1
  <2>2. CASE v # w
    <3>1. pc[v] \in 1 .. Len(code[v]) + 1 /\ barrier[v] < pc[v] BY DEF RaceInv
    <3> QED BY <1>4, <1>6, <2>2, <3>1
  <2> QED BY <2>1, <2>2
<1>9. ASSUME NEW v \in Warps, v # w
      PROVE  Between(s, pc[v], barrier[v], i + 1, n1) /\ Between(s, i + 1, n1, pc[v], barrier[v])
  <2>1. Between(s, pc[v], barrier[v], i, n) /\ Between(s, i, n, pc[v], barrier[v])
    BY <1>1, <1>4 DEF RaceInv, InStep
  <2>2. n <= barrier[v]
    <3>1. Ready(w) BY StepIs
    <3>2. barrier[v] >= barrier[w] BY <3>1 DEF Ready
    <3> QED BY <1>1, <1>3, <1>5, <3>2
  <2>3. pc[v] \in Nat /\ barrier[v] \in Nat BY <1>3
  <2> QED BY <1>2, <1>5, <2>1, <2>2, <2>3, StillInStep
<1>10. Between(s, i + 1, n1, i + 1, n1) BY <1>5 DEF Between, NoSync
<1>11. ASSUME NEW v \in Warps, NEW u \in Warps
       PROVE  Between(s, pc'[v], barrier'[v], pc'[u], barrier'[u])
  <2>1. CASE v = w /\ u = w BY <1>6, <1>10, <2>1
  <2>2. CASE v = w /\ u # w BY <1>6, <1>9, <2>2
  <2>3. CASE v # w /\ u = w BY <1>6, <1>9, <2>3
  <2>4. CASE v # w /\ u # w
    <3>1. Between(s, pc[v], barrier[v], pc[u], barrier[u]) BY <1>4 DEF RaceInv, InStep
    <3> QED BY <1>6, <2>4, <3>1
  <2> QED BY <2>1, <2>2, <2>3, <2>4
<1>12. InStep'
  <2>1. \A v \in Warps : code'[v] = s BY <1>4
  <2> QED BY <1>11, <2>1 DEF InStep
<1> QED BY <1>7, <1>8, <1>12

\* A step of warp w keeps account of its copies.
LEMMA StepCopies ==
  ASSUME RaceInv, NEW w \in Warps, Step(w)
  PROVE  /\ DOMAIN open' = Warps /\ DOMAIN groups' = Warps
         /\ \A v \in Warps :
              /\ open'[v] \subseteq Range(code'[v])
              /\ groups'[v] \in Seq(SUBSET Range(code'[v]))
              /\ \A p \in AllPlaces : CopiesKnown(launch', p, View(v, p)', open'[v], groups'[v])
<1>1. PICK l, s, k, ins : l = launch /\ s = code[w] /\ k = pc[w] /\ ins = s[k] OBVIOUS
<1>2. PICK i : i = k - 1 OBVIOUS
<1>3. /\ s \in Seq(Range(s)) /\ Len(s) \in Nat /\ k \in 1 .. Len(s) /\ i \in 0 .. Len(s) /\ k - 1 = i
      /\ ~ Finished(w)
  <2>1. Ready(w) BY StepIs
  <2>2. k \in 1 .. Len(s) + 1 /\ Len(s) \in Nat /\ s \in Seq(Range(s)) BY <1>1, SettingIs
  <2>3. ~ (k > Len(s)) BY <1>1, <2>1 DEF Ready, Finished
  <2> QED BY <1>1, <1>2, <2>1, <2>2, <2>3 DEF Ready
<1>4. launch' = l /\ code' = code /\ \A v \in Warps : code[v] = s BY <1>1, StepIs, SettingIs
<1>5. pc \in [Warps -> Nat] /\ DOMAIN open = Warps /\ DOMAIN groups = Warps BY DEF RaceInv
<1>6. /\ pc'[w] = k + 1 /\ \A v \in Warps \ {w} : pc'[v] = pc[v]
  <2>1. pc' = [pc EXCEPT ![w] = @ + 1] BY StepIs
  <2> QED BY <1>1, <1>5, <2>1
<1>7. Next_(w) = ins BY <1>1 DEF Next_
<1>8. /\ IF ins.op = "load" THEN open' = [open EXCEPT ![w] = @ \cup {ins}]
         ELSE IF ins.op = "commit" THEN open' = [open EXCEPT ![w] = {}]
         ELSE open' = open
      /\ IF ins.op = "commit" THEN groups' = [groups EXCEPT ![w] = Append(@, open[w])]
         ELSE IF ins.op = "wait"
              THEN LET last == Len(groups[w]) - ins.n
                   IN  groups' = [groups EXCEPT ![w] =
                                    SubSeq(@, (IF last < 0 THEN 0 ELSE last) + 1, Len(@))]
         ELSE groups' = groups
  BY <1>7, StepIs
<1>9. DOMAIN open' = Warps /\ DOMAIN groups' = Warps
  <2>1. DOMAIN open' = Warps BY <1>5, <1>8
  <2>2. DOMAIN groups' = Warps BY <1>5, <1>8
  <2> QED BY <2>1, <2>2
<1>10. \A v \in Warps \ {w} : open'[v] = open[v] /\ groups'[v] = groups[v]
  <2>1. \A v \in Warps \ {w} : open'[v] = open[v] BY <1>5, <1>8
  <2>2. \A v \in Warps \ {w} : groups'[v] = groups[v] BY <1>5, <1>8
  <2> QED BY <2>1, <2>2
<1>11. PICK o, g : o = open[w] /\ g = groups[w] OBVIOUS
<1>12. o \in SUBSET Range(s) /\ g \in Seq(SUBSET Range(s)) BY <1>1, <1>11, SettingIs
<1>13. ins \in Range(s)
  <2>1. DOMAIN s = 1 .. Len(s) BY <1>3, LenProperties
  <2> QED BY <1>1, <1>3, <2>1 DEF Range
<1>14. ASSUME NEW p \in AllPlaces
       PROVE  LET a == Known(l, p, s)[i]
              IN  /\ a \in PlaceStates /\ Allowed(l, p, ins, a)
                  /\ Known(l, p, s)[k] = After(l, p, ins, a)
                  /\ View(w, p) = a /\ View(w, p)' = Known(l, p, s)[k]
                  /\ CopiesKnown(l, p, a, o, g)
  <2>1. Disciplined(l, p, s) BY <1>1, SettingIs
  <2>2. Known(l, p, s)[i] \in PlaceStates BY <1>3, <2>1, KnownType
  <2>3. Allowed(l, p, ins, Known(l, p, s)[i]) BY <1>1, <1>3, <2>1 DEF Disciplined
  <2>4. Known(l, p, s)[k] = After(l, p, ins, Known(l, p, s)[i]) BY <1>1, <1>3, KnownIs
  <2>5. View(w, p) = Known(l, p, s)[i] BY <1>1, <1>3 DEF View
  <2>6. pc'[w] - 1 = k BY <1>3, <1>6
  <2>7. View(w, p)' = Known(l, p, s)[k] BY <1>4, <2>6 DEF View
  <2>8. CopiesKnown(l, p, View(w, p), o, g) BY <1>1, <1>11 DEF RaceInv
  <2> QED BY <2>2, <2>3, <2>4, <2>5, <2>7, <2>8
<1>15. /\ open'[w] \in SUBSET Range(s) /\ groups'[w] \in Seq(SUBSET Range(s))
       /\ \A p \in AllPlaces : CopiesKnown(l, p, Known(l, p, s)[k], open'[w], groups'[w])
  <2>1. CASE ins.op = "load"
    <3>1. open'[w] = o \cup {ins} /\ groups'[w] = g BY <1>5, <1>8, <1>11, <2>1
    <3>2. \A p \in AllPlaces : CopiesKnown(l, p, Known(l, p, s)[k], o \cup {ins}, g)
      BY <1>12, <1>14, <2>1, CopiesIssued
    <3> QED BY <1>12, <1>13, <3>1, <3>2
  <2>2. CASE ins.op = "commit"
    <3>1. open'[w] = {} /\ groups'[w] = Append(g, o) BY <1>5, <1>8, <1>11, <2>2
    <3>2. \A p \in AllPlaces : CopiesKnown(l, p, Known(l, p, s)[k], {}, Append(g, o))
      BY <1>12, <1>14, <2>2, CopiesCommitted
    <3>3. Append(g, o) \in Seq(SUBSET Range(s)) BY <1>12, AppendProperties
    <3> QED BY <3>1, <3>2, <3>3
  <2>3. CASE ins.op = "wait"
    <3>1. PICK h : h = SubSeq(g, (IF Len(g) - ins.n < 0 THEN 0 ELSE Len(g) - ins.n) + 1, Len(g))
      OBVIOUS
    <3>2. open'[w] = o
      <4>1. open' = open BY <1>8, <2>3
      <4> QED BY <1>11, <4>1
    <3>3. groups'[w] = h
      <4>1. groups' = [groups EXCEPT ![w] = h] BY <1>8, <1>11, <2>3, <3>1
      <4> QED BY <1>5, <4>1
    <3>4. ASSUME NEW p \in AllPlaces PROVE CopiesKnown(l, p, Known(l, p, s)[k], o, h) /\ ins.n \in Nat
      <4>1. ins.n \in Nat BY <1>14, <2>3 DEF Allowed
      <4> QED BY <1>12, <1>14, <2>3, <3>1, <4>1, CopiesLeft
    <3>5. CASE AllPlaces # {}
      <4>1. ins.n \in Nat BY <3>4, <3>5
      <4>2. PICK d \in Nat : d = Len(g) /\ DOMAIN g = 1 .. d BY <1>12, LenProperties
      <4>3. PICK e \in Nat : e = (IF d - ins.n < 0 THEN 0 ELSE d - ins.n) + 1 /\ e >= 1
        <5>1. (IF d - ins.n < 0 THEN 0 ELSE d - ins.n) + 1 \in Nat BY <4>1
        <5>2. (IF d - ins.n < 0 THEN 0 ELSE d - ins.n) + 1 >= 1 BY <4>1
        <5> QED BY <5>1, <5>2
      <4>4. \A x \in e .. d : g[x] \in SUBSET Range(s)
        <5>1. \A x \in e .. d : x \in 1 .. d BY <4>3
        <5> QED BY <1>12, <4>2, <5>1, ElementOfSeq
      <4>5. e \in Int /\ d \in Int OBVIOUS
      <4>6. h = SubSeq(g, e, d) BY <3>1, <4>2, <4>3
      <4>7. h \in Seq(SUBSET Range(s)) BY <4>4, <4>5, <4>6, SubSeqProperties
      <4> QED BY <1>12, <3>2, <3>3, <3>4, <4>7
    <3>6. CASE AllPlaces = {} BY <3>6, KernelsRun DEF SmemPlaces
    <3> QED BY <3>5, <3>6
  <2>4. CASE ins.op \notin {"load", "commit", "wait"}
    <3>1. open'[w] = o /\ groups'[w] = g
      <4>1. open' = open /\ groups' = groups BY <1>8, <2>4
      <4> QED BY <1>11, <4>1
    <3>2. \A p \in AllPlaces : CopiesKnown(l, p, Known(l, p, s)[k], o, g)
      BY <1>12, <1>14, <2>4, CopiesSame
    <3> QED BY <1>12, <3>1, <3>2
  <2> QED BY <2>1, <2>2, <2>3, <2>4
<1>16. ASSUME NEW v \in Warps
       PROVE  /\ open'[v] \subseteq Range(code'[v])
              /\ groups'[v] \in Seq(SUBSET Range(code'[v]))
              /\ \A p \in AllPlaces : CopiesKnown(launch', p, View(v, p)', open'[v], groups'[v])
  <2>1. code'[v] = s BY <1>4
  <2>2. CASE v = w
    <3>1. \A p \in AllPlaces : View(v, p)' = Known(l, p, s)[k] BY <1>14, <2>2
    <3> QED BY <1>4, <1>15, <2>1, <2>2, <3>1
  <2>3. CASE v # w
    <3>1. open'[v] = open[v] /\ groups'[v] = groups[v] BY <1>10, <2>3
    <3>2. open[v] \in SUBSET Range(s) /\ groups[v] \in Seq(SUBSET Range(s)) BY <1>1, SettingIs
    <3>3. \A p \in AllPlaces : View(v, p)' = View(v, p)
      <4>1. pc'[v] = pc[v] /\ code' = code /\ launch' = launch BY <1>1, <1>4, <1>6, <2>3
      <4> QED BY <4>1 DEF View
    <3>4. \A p \in AllPlaces : CopiesKnown(l, p, View(v, p), open[v], groups[v]) BY <1>1 DEF RaceInv
    <3> QED BY <1>4, <2>1, <3>1, <3>2, <3>3, <3>4
  <2> QED BY <2>2, <2>3
<1> QED BY <1>9, <1>16

\* What the instruction of warp w does to a cell <<x, y>> that held old.
CellAfter(l, p, a, ins, w, x, y, old, new) ==
  new = IF Writes(l, p, ins) /\ ins.op = "load" /\ x = w
        THEN IF old \in {InFlight, Torn} THEN Torn ELSE InFlight
        ELSE IF Writes(l, p, ins) /\ ins.op = "put" /\ y = w
        THEN IF old \in {InFlight, Torn} THEN Torn ELSE ins.tile
        ELSE IF ins.op = "wait" /\ a.age > ins.n /\ x = w
        THEN IF old = InFlight THEN a.tile ELSE Torn
        ELSE old

\* What the step of warp w does to the cells of place p.
LEMMA StepCells ==
  ASSUME RaceInv, NEW w \in Warps, Step(w), NEW p \in AllPlaces,
         NEW l, l = launch, NEW a, a = View(w, p), NEW ins, ins = Next_(w)
  PROVE  /\ DOMAIN smem'[p] = Cells /\ smem'[p] = [x \in Cells |-> smem'[p][x]]
         /\ \A x, y \in Warps : CellAfter(l, p, a, ins, w, x, y, smem[p][<<x, y>>], smem'[p][<<x, y>>])
<1>1. PICK g, m, m1 : g = groups[w] /\ m = smem /\ m1 = smem' OBVIOUS
<1>2. /\ IF ins.op = "load" THEN smem' = Written(w, ins, InFlight)
         ELSE IF ins.op = "put" THEN smem' = Written(w, ins, ins.tile)
         ELSE IF ins.op = "wait"
              THEN smem' = Arrived(w, UNION {groups[w][i] : i \in 1 .. Len(groups[w]) - ins.n})
         ELSE smem' = smem
  BY <1>1, StepIs
<1>3. m[p] = [x \in Cells |-> m[p][x]] BY <1>1 DEF RaceInv
<1>4. \A x, y \in Warps :
        /\ <<x, y>> \in Cells
        /\ <<x, y>> \in CopyShare(w) <=> x = w
        /\ <<x, y>> \in Rows(w) <=> y = w
  BY DEF Cells, CopyShare, Rows
<1>5. a \in PlaceStates /\ Allowed(l, p, ins, a) /\ CopiesKnown(l, p, a, open[w], g)
      /\ g \in Seq(SUBSET Range(code[w]))
  <2>1. Disciplined(l, p, code[w]) /\ Len(code[w]) \in Nat /\ g \in Seq(SUBSET Range(code[w]))
        /\ pc[w] \in 1 .. Len(code[w]) + 1
    BY <1>1, SettingIs
  <2>2. Ready(w) BY StepIs
  <2>3. pc[w] \in 1 .. Len(code[w]) BY <2>1, <2>2 DEF Ready, Finished
  <2>4. a = Known(l, p, code[w])[pc[w] - 1] BY <1>1 DEF View
  <2>5. Allowed(l, p, ins, a) BY <1>1, <2>1, <2>3, <2>4 DEF Disciplined, Next_
  <2>6. pc[w] - 1 \in 0 .. Len(code[w]) BY <2>1, <2>3
  <2>7. a \in PlaceStates BY <2>1, <2>4, <2>6, KnownType
  <2> QED BY <1>1, <2>1, <2>5, <2>7 DEF RaceInv
<1>6. ASSUME NEW value, m1 = Written(w, ins, value)
      PROVE  /\ m1[p] = [x \in Cells |-> m1[p][x]]
             /\ \A x \in Cells :
                  m1[p][x] = IF p \in Places(l, ins.buf) /\ x \in Touched(w, ins)
                             THEN IF m[p][x] \in {InFlight, Torn} THEN Torn ELSE value
                             ELSE m[p][x]
  <2>1. m1[p] = IF p \notin Places(l, ins.buf) THEN m[p]
                ELSE [x \in Cells |-> IF x \notin Touched(w, ins) THEN m[p][x]
                                      ELSE IF m[p][x] \in {InFlight, Torn} THEN Torn
                                      ELSE value]
    BY <1>1, <1>6 DEF Written
  <2>2. CASE p \notin Places(l, ins.buf) BY <1>3, <2>1, <2>2
  <2>3. CASE p \in Places(l, ins.buf) BY <2>1, <2>3
  <2> QED BY <2>2, <2>3
<1>7. CASE ins.op = "load"
  <2>1. m1 = Written(w, ins, InFlight) BY <1>1, <1>2, <1>7
  <2>2. Touched(w, ins) = CopyShare(w) BY <1>7 DEF Touched
  <2>3. Writes(l, p, ins) <=> p \in Places(l, ins.buf) BY <1>7 DEF Writes
  <2>4. m1[p] = [x \in Cells |-> m1[p][x]] BY <1>6, <2>1
  <2>5. \A x \in Cells :
          m1[p][x] = IF p \in Places(l, ins.buf) /\ x \in Touched(w, ins)
                     THEN IF m[p][x] \in {InFlight, Torn} THEN Torn ELSE InFlight
                     ELSE m[p][x]
    BY <1>6, <2>1
  <2>6. ASSUME NEW x \in Warps, NEW y \in Warps
        PROVE  m1[p][<<x, y>>] = IF Writes(l, p, ins) /\ x = w
                                 THEN IF m[p][<<x, y>>] \in {InFlight, Torn} THEN Torn ELSE InFlight
                                 ELSE m[p][<<x, y>>]
    BY <1>4, <2>2, <2>3, <2>5
  <2> QED BY <1>1, <1>7, <2>4, <2>6 DEF CellAfter
<1>8. CASE ins.op = "put"
  <2>1. m1 = Written(w, ins, ins.tile) BY <1>1, <1>2, <1>8
  <2>2. Touched(w, ins) = Rows(w) BY <1>8 DEF Touched
  <2>3. Writes(l, p, ins) <=> p \in Places(l, ins.buf) BY <1>8 DEF Writes
  <2>4. m1[p] = [x \in Cells |-> m1[p][x]] BY <1>6, <2>1
  <2>5. \A x \in Cells :
          m1[p][x] = IF p \in Places(l, ins.buf) /\ x \in Touched(w, ins)
                     THEN IF m[p][x] \in {InFlight, Torn} THEN Torn ELSE ins.tile
                     ELSE m[p][x]
    BY <1>6, <2>1
  <2>6. ASSUME NEW x \in Warps, NEW y \in Warps
        PROVE  m1[p][<<x, y>>] = IF Writes(l, p, ins) /\ y = w
                                 THEN IF m[p][<<x, y>>] \in {InFlight, Torn} THEN Torn ELSE ins.tile
                                 ELSE m[p][<<x, y>>]
    BY <1>4, <2>2, <2>3, <2>5
  <2> QED BY <1>1, <1>8, <2>4, <2>6 DEF CellAfter
<1>9. CASE ins.op = "wait"
  <2>1. PICK done : done = UNION {g[i] : i \in 1 .. Len(g) - ins.n} OBVIOUS
  <2>2. m1 = Arrived(w, done) BY <1>1, <1>2, <1>9, <2>1
  <2>3. ~ Writes(l, p, ins) BY <1>9 DEF Writes
  <2>4. m1[p] = [x \in Cells |->
                   IF x \in CopyShare(w) /\ \E load \in done : p \in Places(l, load.buf)
                   THEN IF m[p][x] = InFlight
                        THEN (CHOOSE load \in done : p \in Places(l, load.buf)).tile
                        ELSE Torn
                   ELSE m[p][x]]
    BY <1>1, <2>2 DEF Arrived
  <2>5. ins.n \in Nat BY <1>5, <1>9 DEF Allowed
  <2>6. /\ (\E load \in done : p \in Places(l, load.buf)) <=> a.age > ins.n
        /\ \A load \in done : p \in Places(l, load.buf) => load.tile = a.tile
    <3>1. done = FirstGroups(g, Len(g) - ins.n) BY <2>1 DEF FirstGroups
    <3> QED BY <1>5, <2>5, <3>1, CopiesDone
  <2>7. a.age > ins.n => (CHOOSE load \in done : p \in Places(l, load.buf)).tile = a.tile
    BY <2>6
  <2>8. ASSUME NEW x \in Warps, NEW y \in Warps
        PROVE  m1[p][<<x, y>>] = IF a.age > ins.n /\ x = w
                                 THEN IF m[p][<<x, y>>] = InFlight THEN a.tile ELSE Torn
                                 ELSE m[p][<<x, y>>]
    <3>1. PICK arrives \in BOOLEAN : arrives <=> (\E load \in done : p \in Places(l, load.buf)) OBVIOUS
    <3>2. PICK t : t = (CHOOSE load \in done : p \in Places(l, load.buf)).tile OBVIOUS
    <3>3. m1[p] = [z \in Cells |->
                     IF z \in CopyShare(w) /\ arrives
                     THEN IF m[p][z] = InFlight THEN t ELSE Torn
                     ELSE m[p][z]]
      BY <2>4, <3>1, <3>2
    <3>4. m1[p][<<x, y>>] = IF x = w /\ arrives
                            THEN IF m[p][<<x, y>>] = InFlight THEN t ELSE Torn
                            ELSE m[p][<<x, y>>]
      BY <1>4, <3>3
    <3>5. arrives <=> a.age > ins.n BY <2>6, <3>1
    <3>6. arrives => t = a.tile BY <2>7, <3>2, <3>5
    <3> QED BY <3>4, <3>5, <3>6
  <2>9. m1[p] = [x \in Cells |-> m1[p][x]] BY <2>4
  <2> QED BY <1>1, <1>9, <2>3, <2>8, <2>9 DEF CellAfter
<1>10. CASE ins.op \notin {"load", "put", "wait"}
  <2>1. m1 = m BY <1>1, <1>2, <1>10
  <2> QED BY <1>1, <1>3, <1>10, <2>1 DEF CellAfter, Writes
<1> QED BY <1>7, <1>8, <1>9, <1>10

\* After the step the cells hold what the warps then know.
LEMMA StepSmem ==
  ASSUME RaceInv, NEW w \in Warps, Step(w)
  PROVE  smem' = [p \in AllPlaces |-> [x \in Cells |-> Contents(p, x[1], x[2])']]
<1>1. PICK l, s, k, ins : l = launch /\ s = code[w] /\ k = pc[w] /\ ins = s[k] OBVIOUS
<1>2. PICK i : i = k - 1 OBVIOUS
<1>3. /\ Len(s) \in Nat /\ k \in 1 .. Len(s) /\ i \in 0 .. Len(s) /\ k = i + 1 /\ i < Len(s)
  <2>1. Ready(w) BY StepIs
  <2>2. k \in 1 .. Len(s) + 1 /\ Len(s) \in Nat BY <1>1, SettingIs
  <2>3. ~ (k > Len(s)) BY <1>1, <2>1 DEF Ready, Finished
  <2> QED BY <1>2, <2>2, <2>3
<1>4. launch' = l /\ code' = code /\ Next_(w) = ins BY <1>1, StepIs DEF Next_
<1>5. \A v \in Warps : code[v] = s /\ pc[v] \in 1 .. Len(s) + 1 BY <1>1, SettingIs
<1>6. pc'[w] = k + 1 /\ \A v \in Warps \ {w} : pc'[v] = pc[v]
  <2>1. pc' = [pc EXCEPT ![w] = @ + 1] BY StepIs
  <2>2. pc \in [Warps -> Nat] BY DEF RaceInv
  <2> QED BY <1>1, <2>1, <2>2
<1>7. ASSUME NEW v \in Warps
      PROVE  LET j == pc[v] - 1
             IN  /\ j \in 0 .. Len(s)
                 /\ \/ j <= i /\ NoSync(s, j + 1, i)
                    \/ i < j /\ NoSync(s, i + 1, j)
                    \/ i < j /\ NoSync(s, i + 1, j - 1) /\ s[j].op = "sync"
  <2>1. PICK j \in Nat : j = pc[v] - 1 /\ j + 1 = pc[v] /\ j \in 0 .. Len(s)
    <3>1. pc[v] - 1 \in 0 .. Len(s) /\ (pc[v] - 1) + 1 = pc[v] BY <1>3, <1>5
    <3> QED BY <3>1
  <2>2. Between(s, j + 1, barrier[v], i + 1, barrier[w]) /\ Between(s, i + 1, barrier[w], j + 1, barrier[v])
    BY <1>1, <1>3, <1>5, <2>1 DEF RaceInv, InStep
  <2>3. barrier[w] \in Nat /\ barrier[v] \in Nat /\ barrier[w] <= barrier[v]
    <3>1. Ready(w) BY StepIs
    <3>2. barrier[v] >= barrier[w] BY <3>1 DEF Ready
    <3>3. barrier[w] \in Nat /\ barrier[v] \in Nat BY DEF RaceInv
    <3> QED BY <3>2, <3>3
  <2>4. i \in Nat BY <1>3
  <2> QED BY <2>1, <2>2, <2>3, <2>4, Where
<1>8. ASSUME NEW p \in AllPlaces, NEW x \in Warps, NEW y \in Warps
      PROVE  smem'[p][<<x, y>>] = Contents(p, x, y)'
  <2>1. PICK f : f = Known(l, p, s) OBVIOUS
  <2>2. PICK a, a1 : a = f[i] /\ a1 = f[i + 1] OBVIOUS
  <2>3. Disciplined(l, p, s) BY <1>1, SettingIs
  <2>4. \A v \in Warps : View(v, p) = f[pc[v] - 1] BY <1>1, <1>5, <2>1 DEF View
  <2>5. View(w, p) = a BY <1>1, <1>2, <2>2, <2>4
  <2>6. View(w, p)' = a1
    <3>1. pc'[w] - 1 = i + 1 BY <1>3, <1>6
    <3>2. View(w, p)' = f[pc'[w] - 1] BY <1>1, <1>4, <2>1 DEF View
    <3> QED BY <2>2, <3>1, <3>2
  <2>7. \A v \in Warps \ {w} : View(v, p)' = f[pc[v] - 1]
    <3>1. ASSUME NEW v \in Warps \ {w} PROVE View(v, p)' = f[pc[v] - 1]
      <4>1. View(v, p)' = Known(l, p, code[v])[pc'[v] - 1] BY <1>4 DEF View
      <4> QED BY <1>5, <1>6, <2>1, <4>1
    <3> QED BY <3>1
  <2>8. smem[p][<<x, y>>] = Held(View(x, p), View(y, p), pc[x], pc[y])
    <3>1. <<x, y>> \in Cells BY DEF Cells
    <3>2. smem[p][<<x, y>>] = Contents(p, <<x, y>>[1], <<x, y>>[2]) BY <3>1 DEF RaceInv
    <3> QED BY <3>2 DEF Contents
  <2>9. Contents(p, x, y)' = Held(View(x, p)', View(y, p)', pc'[x], pc'[y]) BY DEF Contents
  <2>10. smem'[p][<<x, y>>] =
           IF Writes(l, p, ins) /\ ins.op = "load" /\ x = w
           THEN IF smem[p][<<x, y>>] \in {InFlight, Torn} THEN Torn ELSE InFlight
           ELSE IF Writes(l, p, ins) /\ ins.op = "put" /\ y = w
           THEN IF smem[p][<<x, y>>] \in {InFlight, Torn} THEN Torn ELSE ins.tile
           ELSE IF ins.op = "wait" /\ a.age > ins.n /\ x = w
           THEN IF smem[p][<<x, y>>] = InFlight THEN a.tile ELSE Torn
           ELSE smem[p][<<x, y>>]
    <3>1. l = launch /\ a = View(w, p) /\ ins = Next_(w) BY <1>1, <1>4, <2>5
    <3>2. CellAfter(l, p, a, ins, w, x, y, smem[p][<<x, y>>], smem'[p][<<x, y>>])
      BY <3>1, StepCells
    <3> QED BY <3>2 DEF CellAfter
  <2>11. PICK old, new, was, is :
           /\ old = Held(View(x, p), View(y, p), pc[x], pc[y])
           /\ new = Held(View(x, p)', View(y, p)', pc'[x], pc'[y])
           /\ was = smem[p][<<x, y>>] /\ is = smem'[p][<<x, y>>]
    OBVIOUS
  <2>12. ASSUME x # w, y # w PROVE new = old
    <3>1. View(x, p)' = View(x, p) /\ View(y, p)' = View(y, p) BY <2>4, <2>7, <2>12
    <3>2. pc'[x] = pc[x] /\ pc'[y] = pc[y] BY <1>6, <2>12
    <3> QED BY <2>11, <3>1, <3>2
  <2>13. ASSUME x = w, y = w PROVE old = Held(a, a, i, i) /\ new = Held(a1, a1, i + 1, i + 1)
    <3>0. pc[w] = k /\ pc'[w] = k + 1 /\ k \in Nat /\ i \in Nat BY <1>1, <1>3, <1>6
    <3>1. pc[x] >= pc[y] /\ pc'[x] >= pc'[y] /\ i >= i /\ i + 1 >= i + 1
      BY <2>13, <3>0
    <3>2. old = Held(a, a, pc[x], pc[y]) /\ new = Held(a1, a1, pc'[x], pc'[y])
      BY <2>5, <2>6, <2>11, <2>13
    <3> QED BY <3>1, <3>2 DEF Held
  <2>14. ASSUME x = w, y # w
         PROVE  \E j \in 0 .. Len(s) :
                  /\ j = pc[y] - 1
                  /\ old = Held(a, f[j], i, j) /\ new = Held(a1, f[j], i + 1, j)
    <3>1. PICK j \in 0 .. Len(s) : j = pc[y] - 1 /\ pc[y] = j + 1 BY <1>5, <1>7, <1>3
    <3>a. pc[w] = k /\ k = i + 1 /\ pc'[w] = k + 1 BY <1>1, <1>3, <1>6
    <3>b. pc'[y] = pc[y] BY <1>6, <2>14
    <3>c. i \in Nat /\ j \in Nat BY <1>3
    <3>0. pc[x] = i + 1 /\ pc'[x] = i + 1 + 1 /\ pc'[y] = pc[y] /\ i \in Nat /\ j \in Nat
      BY <3>a, <3>b, <3>c, <2>14
    <3>2. pc[x] >= pc[y] <=> i >= j BY <3>0, <3>1
    <3>3. pc'[x] >= pc'[y] <=> i + 1 >= j BY <3>0, <3>1
    <3>4. View(y, p) = f[j] /\ View(y, p)' = f[j] BY <2>4, <2>7, <2>14, <3>1
    <3>5. old = Held(a, f[j], pc[x], pc[y]) /\ new = Held(a1, f[j], pc'[x], pc'[y])
      BY <2>5, <2>6, <2>11, <2>14, <3>4
    <3>6. old = Held(a, f[j], i, j) BY <3>2, <3>5 DEF Held
    <3>7. new = Held(a1, f[j], i + 1, j) BY <3>3, <3>5 DEF Held
    <3> QED BY <3>1, <3>6, <3>7
  <2>15. ASSUME x # w, y = w
         PROVE  \E j \in 0 .. Len(s) :
                  /\ j = pc[x] - 1
                  /\ old = Held(f[j], a, j, i) /\ new = Held(f[j], a1, j, i + 1)
    <3>1. PICK j \in 0 .. Len(s) : j = pc[x] - 1 /\ pc[x] = j + 1 BY <1>5, <1>7, <1>3
    <3>a. pc[w] = k /\ k = i + 1 /\ pc'[w] = k + 1 BY <1>1, <1>3, <1>6
    <3>b. pc'[x] = pc[x] BY <1>6, <2>15
    <3>c. i \in Nat /\ j \in Nat BY <1>3
    <3>0. pc[y] = i + 1 /\ pc'[y] = i + 1 + 1 /\ pc'[x] = pc[x] /\ i \in Nat /\ j \in Nat
      BY <3>a, <3>b, <3>c, <2>15
    <3>2. pc[x] >= pc[y] <=> j >= i BY <3>0, <3>1
    <3>3. pc'[x] >= pc'[y] <=> j >= i + 1 BY <3>0, <3>1
    <3>4. View(x, p) = f[j] /\ View(x, p)' = f[j] BY <2>4, <2>7, <2>15, <3>1
    <3>5. old = Held(f[j], a, pc[x], pc[y]) /\ new = Held(f[j], a1, pc'[x], pc'[y])
      BY <2>5, <2>6, <2>11, <2>15, <3>4
    <3>6. old = Held(f[j], a, j, i) BY <3>2, <3>5 DEF Held
    <3>7. new = Held(f[j], a1, j, i + 1) BY <3>3, <3>5 DEF Held
    <3> QED BY <3>1, <3>6, <3>7
  <2>16. s[i + 1] = ins BY <1>1, <1>3
  <2>17. \A j : j = pc[x] - 1 \/ j = pc[y] - 1 =>
                \/ j <= i /\ NoSync(s, j + 1, i)
                \/ i < j /\ NoSync(s, i + 1, j)
                \/ i < j /\ NoSync(s, i + 1, j - 1) /\ s[j].op = "sync"
    BY <1>7
  <2>18. CASE ~ Writes(l, p, ins) /\ (ins.op = "wait" => ~ (a.age > ins.n))
    <3>1. is = was BY <2>10, <2>11, <2>18
    <3>2. new = old
      <4>1. CASE x # w /\ y # w BY <2>12, <4>1
      <4>2. \A j \in 0 .. Len(s) : /\ Held(a1, a1, i + 1, i + 1) = Held(a, a, i, i)
                                   /\ Held(a1, f[j], i + 1, j) = Held(a, f[j], i, j)
                                   /\ Held(f[j], a1, j, i + 1) = Held(f[j], a, j, i)
        BY <1>3, <2>1, <2>2, <2>3, <2>16, <2>18, CellsKept
      <4>3. i \in 0 .. Len(s) BY <1>3
      <4> QED BY <2>13, <2>14, <2>15, <4>1, <4>2, <4>3
    <3> QED BY <2>8, <2>9, <2>11, <3>1, <3>2
  <2>19. CASE ins.op = "wait" /\ a.age > ins.n
    <3>1. ~ Writes(l, p, ins) BY <2>19 DEF Writes
    <3>2. is = IF x = w THEN IF was = InFlight THEN a.tile ELSE Torn ELSE was
      BY <2>10, <2>11, <2>19, <3>1
    <3>3. ASSUME NEW j \in 0 .. Len(s), j = pc[x] - 1 \/ j = pc[y] - 1
          PROVE  /\ Held(a, f[j], i, j) = InFlight /\ Held(a1, f[j], i + 1, j) = a.tile
                 /\ Held(f[j], a1, j, i + 1) = Held(f[j], a, j, i)
      <4>1. \/ j <= i
            \/ i < j /\ NoSync(s, i + 1, j)
            \/ i < j /\ NoSync(s, i + 1, j - 1) /\ s[j].op = "sync"
        BY <2>17, <3>3
      <4>2. s[i + 1].op = "wait" /\ Known(l, p, s)[i].age > s[i + 1].n BY <2>1, <2>2, <2>16, <2>19
      <4> QED BY <1>3, <2>1, <2>2, <2>3, <4>1, <4>2, CellsArrive
    <3>4. Held(a, a, i, i) = InFlight /\ Held(a1, a1, i + 1, i + 1) = a.tile
      BY <1>3, <2>1, <2>2, <2>3, <2>16, <2>19, CellsArrive
    <3>5. CASE x # w /\ y # w BY <2>8, <2>9, <2>11, <2>12, <3>2, <3>5
    <3>6. CASE x = w /\ y = w BY <2>8, <2>9, <2>11, <2>13, <3>2, <3>4, <3>6
    <3>7. CASE x = w /\ y # w BY <2>8, <2>9, <2>11, <2>14, <3>2, <3>3, <3>7
    <3>8. CASE x # w /\ y = w BY <2>8, <2>9, <2>11, <2>15, <3>2, <3>3, <3>8
    <3> QED BY <3>5, <3>6, <3>7, <3>8
  <2>20. CASE Writes(l, p, ins)
    <3>1. ASSUME NEW j \in 0 .. Len(s), j = pc[x] - 1 \/ j = pc[y] - 1
          PROVE  /\ Held(a, a, i, i) \in TileSet
                 /\ ins.op = "load" =>
                      /\ Held(a1, a1, i + 1, i + 1) = InFlight
                      /\ Held(a, f[j], i, j) \in TileSet /\ Held(a1, f[j], i + 1, j) = InFlight
                      /\ Held(f[j], a1, j, i + 1) = Held(f[j], a, j, i)
                 /\ ins.op = "put" =>
                      /\ Held(a1, a1, i + 1, i + 1) = ins.tile
                      /\ Held(f[j], a, j, i) \in TileSet /\ Held(f[j], a1, j, i + 1) = ins.tile
                      /\ Held(a1, f[j], i + 1, j) = Held(a, f[j], i, j)
      <4>1. \/ j <= i /\ NoSync(s, j + 1, i)
            \/ i < j /\ NoSync(s, i + 1, j)
            \/ i < j /\ NoSync(s, i + 1, j - 1) /\ s[j].op = "sync"
        BY <2>17, <3>1
      <4>2. Writes(l, p, s[i + 1]) BY <2>16, <2>20
      <4> QED BY <1>3, <2>1, <2>2, <2>3, <2>16, <4>1, <4>2, CellsWritten
    <3>2. pc[x] - 1 \in 0 .. Len(s) BY <1>7
    <3>3. \A t \in TileSet : t \notin {InFlight, Torn} BY TilesApart
    <3>4. CASE ins.op = "load"
      <4>1. is = IF x = w THEN IF was \in {InFlight, Torn} THEN Torn ELSE InFlight ELSE was
        BY <2>10, <2>11, <2>20, <3>4
      <4>2. CASE x # w /\ y # w BY <2>8, <2>9, <2>11, <2>12, <4>1, <4>2
      <4>3. CASE x = w /\ y = w
        <5>1. Held(a, a, i, i) \in TileSet /\ Held(a1, a1, i + 1, i + 1) = InFlight BY <3>1, <3>2, <3>4
        <5> QED BY <2>8, <2>9, <2>11, <2>13, <3>3, <4>1, <4>3, <5>1
      <4>4. CASE x = w /\ y # w BY <2>8, <2>9, <2>11, <2>14, <3>1, <3>3, <3>4, <4>1, <4>4
      <4>5. CASE x # w /\ y = w BY <2>8, <2>9, <2>11, <2>15, <3>1, <3>4, <4>1, <4>5
      <4> QED BY <4>2, <4>3, <4>4, <4>5
    <3>5. CASE ins.op = "put"
      <4>1. is = IF y = w THEN IF was \in {InFlight, Torn} THEN Torn ELSE ins.tile ELSE was
        BY <2>10, <2>11, <2>20, <3>5
      <4>2. CASE x # w /\ y # w BY <2>8, <2>9, <2>11, <2>12, <4>1, <4>2
      <4>3. CASE x = w /\ y = w
        <5>1. Held(a, a, i, i) \in TileSet /\ Held(a1, a1, i + 1, i + 1) = ins.tile BY <3>1, <3>2, <3>5
        <5> QED BY <2>8, <2>9, <2>11, <2>13, <3>3, <4>1, <4>3, <5>1
      <4>4. CASE x = w /\ y # w BY <2>8, <2>9, <2>11, <2>14, <3>1, <3>5, <4>1, <4>4
      <4>5. CASE x # w /\ y = w BY <2>8, <2>9, <2>11, <2>15, <3>1, <3>3, <3>5, <4>1, <4>5
      <4> QED BY <4>2, <4>3, <4>4, <4>5
    <3> QED BY <2>20, <3>4, <3>5 DEF Writes
  <2> QED BY <2>18, <2>19, <2>20
<1>9. smem' = [p \in AllPlaces |-> smem'[p]]
  <2>1. \/ smem' = Written(w, ins, InFlight) \/ smem' = Written(w, ins, ins.tile)
        \/ smem' = Arrived(w, UNION {groups[w][z] : z \in 1 .. Len(groups[w]) - ins.n})
        \/ smem' = smem
    BY <1>4, StepIs
  <2>2. smem = [p \in AllPlaces |-> smem[p]] BY DEF RaceInv
  <2> QED BY <2>1, <2>2 DEF Written, Arrived
<1>10. ASSUME NEW p \in AllPlaces
       PROVE  smem'[p] = [x \in Cells |-> Contents(p, x[1], x[2])']
  <2>1. smem'[p] = [x \in Cells |-> smem'[p][x]] BY StepCells
  <2>2. ASSUME NEW x \in Cells PROVE smem'[p][x] = Contents(p, x[1], x[2])'
    <3>1. x = <<x[1], x[2]>> /\ x[1] \in Warps /\ x[2] \in Warps BY DEF Cells
    <3>2. smem'[p][<<x[1], x[2]>>] = Contents(p, x[1], x[2])' BY <1>8, <3>1
    <3> QED BY <3>1, <3>2
  <2> QED BY <2>1, <2>2
<1> QED BY <1>9, <1>10

\* Every step keeps the invariant.
LEMMA NextRace == RaceInv /\ [Next]_vars => RaceInv'
<1> SUFFICES ASSUME RaceInv, [Next]_vars PROVE RaceInv' OBVIOUS
<1>1. CASE UNCHANGED vars
  <2>1. /\ launch' = launch /\ code' = code /\ pc' = pc /\ smem' = smem
        /\ open' = open /\ groups' = groups /\ barrier' = barrier
    BY <1>1 DEF vars
  <2>2. /\ \A w \in Warps, p \in AllPlaces : View(w, p)' = View(w, p)
        /\ InStep' = InStep
    BY <2>1 DEF View, InStep
  <2>3. ASSUME NEW p \in AllPlaces, NEW x \in Cells PROVE Contents(p, x[1], x[2])' = Contents(p, x[1], x[2])
    BY <2>1 DEF Contents, View
  <2>4. smem' = [p \in AllPlaces |-> [x \in Cells |-> Contents(p, x[1], x[2])']]
    <3>1. smem = [p \in AllPlaces |-> [x \in Cells |-> Contents(p, x[1], x[2])]] BY DEF RaceInv
    <3> QED BY <2>1, <2>3, <3>1
  <2>5. InStep' BY <2>2 DEF RaceInv
  <2>6. \A w \in Warps : /\ open'[w] \subseteq Range(code'[w])
                         /\ groups'[w] \in Seq(SUBSET Range(code'[w]))
                         /\ \A p \in AllPlaces : CopiesKnown(launch', p, View(w, p)', open'[w], groups'[w])
    BY <2>1, <2>2 DEF RaceInv
  <2>7. /\ launch' \in Launches /\ code' = [w \in Warps |-> Code(launch', w)]
        /\ pc' \in [Warps -> Nat] /\ barrier' \in [Warps -> Nat]
        /\ \A w \in Warps : pc'[w] \in 1 .. Len(code'[w]) + 1 /\ barrier'[w] < pc'[w]
        /\ DOMAIN open' = Warps /\ DOMAIN groups' = Warps
    BY <2>1 DEF RaceInv
  <2> QED BY <2>4, <2>5, <2>6, <2>7 DEF RaceInv
<1>2. ASSUME NEW w \in Warps, Step(w) PROVE RaceInv'
  <2>1. launch' = launch /\ code' = code BY <1>2, StepIs
  <2>2. launch' \in Launches /\ code' = [v \in Warps |-> Code(launch', v)] BY <2>1 DEF RaceInv
  <2> QED BY <1>2, <2>2, StepInStep, StepCopies, StepSmem DEF RaceInv
<1>3. CASE Retired
  <2>1. UNCHANGED vars BY <1>3 DEF Retired
  <2> QED BY <1>1, <2>1
<1> QED BY <1>1, <1>2, <1>3 DEF Next

\* The places of a buffer are places.
LEMMA PlacesAre ==
  ASSUME NEW l \in Launches, NEW buf \in Buffers
  PROVE  Places(l, buf) \subseteq AllPlaces
<1>1. Places(l, buf) = KernelPlaces(l, buf) /\ AllPlaces = SmemPlaces BY KernelsRun
<1>2. KernelPlaces(l, buf) \subseteq SmemPlaces
  <2>1. CASE buf \in {"sQ", "sQ2", "sdO", "sV", "sdK", "sdV"} BY <2>1 DEF KernelPlaces, SmemPlaces
  <2>2. CASE buf = "sK" BY <2>2 DEF KernelPlaces, SmemPlaces
  <2>3. CASE buf = "sO" BY <2>3 DEF KernelPlaces, SmemPlaces
  <2>4. CASE buf = "sdS" BY <2>4 DEF KernelPlaces, SmemPlaces
  <2>5. CASE buf = "sP" BY <2>5 DEF KernelPlaces, SmemPlaces
  <2> QED BY <2>1, <2>2, <2>3, <2>4, <2>5 DEF Buffers
<1> QED BY <1>1, <1>2

\* Whatever a warp reads is the tile the code means: no copy in flight, no tile of
\* another iteration, no output staged over an operand, in any interleaving of any
\* number of warps, for every launch.
THEOREM EveryReadSeesItsTile == Spec => []ReadsSeeTheirTile
<1>1. RaceInv => ReadsSeeTheirTile
  <2> SUFFICES ASSUME RaceInv, NEW w \in Warps, Ready(w), Next_(w).op \in {"use", "userows", "fetch"},
                      NEW p \in Places(launch, Next_(w).buf), NEW x \in Touched(w, Next_(w))
               PROVE  smem[p][x] = Next_(w).tile
    BY DEF ReadsSeeTheirTile
  <2>1. PICK l, s, k, ins : l = launch /\ s = code[w] /\ k = pc[w] /\ ins = s[k] OBVIOUS
  <2>2. PICK i : i = k - 1 OBVIOUS
  <2>3. /\ Len(s) \in Nat /\ k \in 1 .. Len(s) /\ i \in 0 .. Len(s) /\ k = i + 1 /\ i < Len(s)
    <3>1. k \in 1 .. Len(s) + 1 /\ Len(s) \in Nat BY <2>1, SettingIs
    <3>2. ~ (k > Len(s)) BY <2>1 DEF Ready, Finished
    <3> QED BY <2>2, <3>1, <3>2
  <2>4. l \in Launches /\ Next_(w) = ins BY <2>1 DEF Next_, RaceInv
  <2>5. \A q \in AllPlaces : Disciplined(l, q, s) BY <2>1, SettingIs
  <2>6. \A q \in AllPlaces : Allowed(l, q, ins, Known(l, q, s)[i])
    BY <2>1, <2>2, <2>3, <2>5 DEF Disciplined
  <2>7. "q" \in AllPlaces BY KernelsRun DEF SmemPlaces
  <2>8. ins.buf \in Buffers BY <2>4, <2>6, <2>7 DEF Allowed
  <2>9. p \in AllPlaces /\ Reads(l, p, ins)
    BY <2>1, <2>4, <2>8, PlacesAre DEF Reads
  <2>10. PICK f : f = Known(l, p, s) OBVIOUS
  <2>11. ins.tile = f[i].tile BY <2>6, <2>9, <2>10 DEF Allowed
  <2>12. ASSUME NEW v \in Warps
         PROVE  LET b == View(v, p) IN b.tile = ins.tile /\ ~ (b.age >= 0)
    <3>1. PICK j \in Nat : j = pc[v] - 1 /\ j + 1 = pc[v] /\ j \in 0 .. Len(s)
      <4>1. pc[v] \in 1 .. Len(s) + 1 BY <2>1, SettingIs
      <4>2. pc[v] - 1 \in 0 .. Len(s) /\ (pc[v] - 1) + 1 = pc[v] BY <2>3, <4>1
      <4> QED BY <4>2
    <3>2. code[v] = s BY <2>1, SettingIs
    <3>3. Between(s, j + 1, barrier[v], i + 1, barrier[w]) /\ Between(s, i + 1, barrier[w], j + 1, barrier[v])
      BY <2>1, <2>3, <3>1, <3>2 DEF RaceInv, InStep
    <3>4. barrier[w] \in Nat /\ barrier[v] \in Nat /\ barrier[w] <= barrier[v]
      <4>1. barrier[v] >= barrier[w] BY DEF Ready
      <4>2. barrier[w] \in Nat /\ barrier[v] \in Nat BY DEF RaceInv
      <4> QED BY <4>1, <4>2
    <3>5. i \in Nat BY <2>3
    <3>6. \/ j <= i /\ NoSync(s, j + 1, i)
          \/ i < j /\ NoSync(s, i + 1, j)
          \/ i < j /\ NoSync(s, i + 1, j - 1) /\ s[j].op = "sync"
      BY <3>1, <3>3, <3>4, <3>5, Where
    <3>7. Reads(l, p, s[i + 1]) /\ Disciplined(l, p, s) BY <2>1, <2>3, <2>5, <2>9
    <3>8. f[j].tile = f[i].tile /\ f[j].age < 0
      BY <2>3, <2>10, <3>1, <3>6, <3>7, ReadersAgree
    <3>9. f[j] \in PlaceStates BY <2>3, <2>10, <3>1, <3>7, KnownType
    <3>10. ~ (f[j].age >= 0) BY <3>8, <3>9 DEF PlaceStates
    <3>11. View(v, p) = f[j] BY <2>1, <2>10, <3>1, <3>2 DEF View
    <3> QED BY <2>11, <3>8, <3>10, <3>11
  <2>13. x \in Cells /\ x[1] \in Warps /\ x[2] \in Warps
    BY DEF Touched, Cells, Rows, CopyShare
  <2>14. smem[p][x] = Contents(p, x[1], x[2]) BY <2>9, <2>13 DEF RaceInv
  <2> QED BY <2>4, <2>12, <2>13, <2>14 DEF Contents, Held
<1>2. RaceInv /\ [Next]_vars => RaceInv' BY NextRace
<1> QED BY <1>1, <1>2, InitRace, PTL DEF Spec

\* The types of the kernels, and the depth of the pipeline: no warp ever has more than
\* two groups of copies outstanding.
THEOREM KernelsTypeCorrect == Spec => []TypeOK
<1>1. RaceInv => TypeOK
  <2> SUFFICES ASSUME RaceInv PROVE TypeOK OBVIOUS
  <2>1. ValidLaunch(launch) BY LaunchesAreValid DEF RaceInv
  <2>2. ASSUME NEW w \in Warps
        PROVE  /\ pc[w] \in 1 .. Len(code[w]) + 1
               /\ barrier[w] \in 0 .. Len(code[w])
               /\ Len(groups[w]) <= 2
    <3>1. /\ pc[w] \in 1 .. Len(code[w]) + 1 /\ barrier[w] < pc[w] /\ barrier[w] \in Nat
          /\ Len(code[w]) \in Nat
      BY SettingIs DEF RaceInv
    <3>2. "q" \in AllPlaces BY KernelsRun DEF SmemPlaces
    <3>3. Len(groups[w]) = View(w, "q").depth BY <3>2 DEF RaceInv, CopiesKnown
    <3>4. Disciplined(launch, "q", code[w]) BY <3>2, SettingIs
    <3>5. pc[w] - 1 \in 0 .. Len(code[w]) BY <3>1
    <3>6. View(w, "q") \in PlaceStates BY <3>1, <3>4, <3>5, KnownType DEF View
    <3>7. Len(groups[w]) \in 0 .. 2 BY <3>3, <3>6 DEF PlaceStates
    <3>8. Len(groups[w]) <= 2
      <4>1. PICK d \in 0 .. 2 : d = Len(groups[w]) BY <3>7
      <4>2. d <= 2 OBVIOUS
      <4> QED BY <4>1, <4>2
    <3>9. barrier[w] \in 0 .. Len(code[w])
      <4>1. PICK d \in Nat, b \in Nat, k \in Nat : d = Len(code[w]) /\ b = barrier[w] /\ k = pc[w] /\ k <= d + 1 /\ b < k
        BY <3>1
      <4>2. b \in 0 .. d BY <4>1
      <4> QED BY <4>1, <4>2
    <3> QED BY <3>1, <3>8, <3>9
  <2> QED BY <2>1, <2>2 DEF TypeOK, ValidLaunch
<1>2. RaceInv /\ [Next]_vars => RaceInv' BY NextRace
<1> QED BY <1>1, <1>2, InitRace, PTL DEF Spec

=============================================================================
