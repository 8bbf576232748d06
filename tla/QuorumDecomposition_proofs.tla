--------------------- MODULE QuorumDecomposition_proofs ---------------------
(* What the operators of QuorumDecomposition compute, for every perfect    *)
(* difference set, number of tokens, alignment and depth: the chunks share *)
(* out the tokens, every pair of chunks has one owner, the children of a   *)
(* subproblem partition its pairs, and so do the leaves of a uniform       *)
(* decomposition.                                                          *)
EXTENDS QuorumDecomposition, SequenceTheorems, FiniteSetTheorems, WellFoundedInduction, TLAPS

-----------------------------------------------------------------------------
(* Least numbers: what the proofs by induction below rest on. *)

Before == {p \in Nat \X Nat : p[1] < p[2]}

\* The order of the numbers has no infinite descent.
LEMMA BeforeIsWellFounded == IsWellFoundedOn(Before, Nat)
BY NatLessThanWellFounded DEF OpToRel, Before

\* A set of natural numbers that is not empty has a least one.
LEMMA LeastNat ==
  ASSUME NEW S \in SUBSET Nat, S # {}
  PROVE  \E x \in S : \A y \in S : x <= y
<1>1. PICK x \in S : \A y \in S : ~ (<<y, x>> \in Before) BY BeforeIsWellFounded, WFMin
<1>2. ASSUME NEW y \in S PROVE x <= y
  <2>1. <<y, x>> \in Nat \X Nat /\ <<y, x>>[1] = y /\ <<y, x>>[2] = x OBVIOUS
  <2>2. ~ (y < x) BY <1>1, <2>1 DEF Before
  <2> QED BY <2>2
<1> QED BY <1>2

\* Induction over 0 .. m, for a property given as the set of those that have it.
LEMMA UpTo ==
  ASSUME NEW m \in Nat, NEW S, 0 \in S,
         \A k \in Nat : k < m /\ k \in S => k + 1 \in S
  PROVE  \A k \in 0 .. m : k \in S
<1> SUFFICES ASSUME NEW k \in 0 .. m, k \notin S PROVE FALSE OBVIOUS
<1> DEFINE Out == {j \in Nat : j <= m /\ j \notin S}
<1>1. k \in Out /\ Out \in SUBSET Nat OBVIOUS
<1>2. PICK j \in Out : \A i \in Out : j <= i BY <1>1, LeastNat
<1>3. j # 0 /\ j \in Nat /\ j <= m /\ j \notin S BY <1>2
<1>4. j - 1 \in Nat /\ j - 1 < m /\ j - 1 \notin Out BY <1>2, <1>3
<1>5. j - 1 \in S BY <1>3, <1>4
<1>6. (j - 1) + 1 \in S BY <1>4, <1>5
<1> QED BY <1>3, <1>6

-----------------------------------------------------------------------------
(* Numbers modulo c. *)

\* There are at least two chunks, numbered from 0.
LEMMA ChunksAre == c \in Nat /\ c > 1 /\ Chunk = 0 .. c - 1
BY PerfectDifferenceSet DEF PerfectDifferenceSet, Chunk

\* A chunk is its own residue.
LEMMA ModSmall == ASSUME NEW x \in Chunk PROVE x % c = x
BY ChunksAre

\* The sum of two chunks wraps around once at most ...
LEMMA ModSum ==
  ASSUME NEW x \in Chunk, NEW y \in Chunk
  PROVE  (x + y) % c = IF x + y < c THEN x + y ELSE x + y - c
BY ChunksAre

\* ... and so does their difference.
LEMMA ModDifference ==
  ASSUME NEW x \in Chunk, NEW y \in Chunk
  PROVE  (x - y) % c = IF x >= y THEN x - y ELSE x - y + c
BY ChunksAre

\* A number is its quotient times the divisor and the remainder.
LEMMA Division ==
  ASSUME NEW x \in Nat, NEW d \in Nat \ {0}
  PROVE  /\ x \div d \in Nat /\ x % d \in 0 .. d - 1
         /\ x = d * (x \div d) + (x % d)
OBVIOUS

\* Quotients ascend with the number divided.
LEMMA QuotientsAscend ==
  ASSUME NEW x \in Nat, NEW y \in Nat, NEW d \in Nat \ {0}, x <= y
  PROVE  x \div d <= y \div d
<1>1. PICK p \in Nat : p = x \div d /\ d * p <= x /\ x < d * p + d
  <2>1. x \div d \in Nat /\ x % d \in 0 .. d - 1 /\ x = d * (x \div d) + (x % d) BY Division
  <2> QED BY <2>1
<1>2. PICK q \in Nat : q = y \div d /\ d * q <= y /\ y < d * q + d
  <2>1. y \div d \in Nat /\ y % d \in 0 .. d - 1 /\ y = d * (y \div d) + (y % d) BY Division
  <2> QED BY <2>1
<1>3. ASSUME q < p PROVE FALSE
  <2>1. PICK e \in Nat : p = q + e + 1
    <3>1. p - q - 1 \in Nat /\ p = q + (p - q - 1) + 1 BY <1>3
    <3> QED BY <3>1
  <2>2. d * p = d * q + d * e + d /\ d * e \in Nat BY <2>1
  <2> QED BY <1>1, <1>2, <2>2
<1> QED BY <1>1, <1>2, <1>3

\* A number below y lies in a block before the quotient of y rounded up.
LEMMA RoundedUp ==
  ASSUME NEW x \in Nat, NEW y \in Nat, NEW d \in Nat \ {0}, x < y
  PROVE  x \div d < (y + d - 1) \div d
<1>1. x + d <= y + d - 1 /\ x + d \in Nat /\ y + d - 1 \in Nat OBVIOUS
<1>2. (x + d) \div d <= (y + d - 1) \div d BY <1>1, QuotientsAscend
<1>3. x \div d < (x + d) \div d
  <2>1. PICK p \in Nat : p = x \div d /\ d * p <= x /\ x < d * p + d
    <3>1. x \div d \in Nat /\ x % d \in 0 .. d - 1 /\ x = d * (x \div d) + (x % d) BY Division
    <3> QED BY <3>1
  <2>2. PICK q \in Nat : q = (x + d) \div d /\ x + d < d * q + d
    <3>1. /\ (x + d) \div d \in Nat /\ (x + d) % d \in 0 .. d - 1
          /\ x + d = d * ((x + d) \div d) + ((x + d) % d)
      BY <1>1, Division
    <3> QED BY <3>1
  <2>3. ASSUME q <= p PROVE FALSE
    <3>1. PICK e \in Nat : p = q + e
      <4>1. p - q \in Nat /\ p = q + (p - q) BY <2>3
      <4> QED BY <4>1
    <3>2. d * p = d * q + d * e /\ d * e \in Nat BY <3>1
    <3> QED BY <2>1, <2>2, <3>2
  <2> QED BY <2>1, <2>2, <2>3
<1>4. (x + d) \div d \in Nat /\ (y + d - 1) \div d \in Nat /\ x \div d \in Nat BY <1>1, Division
<1> QED BY <1>2, <1>3, <1>4

-----------------------------------------------------------------------------
(* The layout of a level (chunk_layout). *)

\* A chunk has `base` tokens, the first `rest` of them one unit more, and the
\* last one the tail; together that makes len.
SizesBy(len, al, base, unit, rest, tail) ==
  /\ base \in Nat /\ unit \in Nat /\ rest \in Chunk /\ tail \in Nat
  /\ ChunkSize(len, al) =
       [k \in Chunk |-> base + (IF k < rest THEN unit ELSE 0) + (IF k = c - 1 THEN tail ELSE 0)]
  /\ c * base + rest * unit + tail = len

\* chunk_layout gives every chunk its share, aligned or not.
LEMMA SizesAre ==
  ASSUME NEW len \in Nat, NEW al \in Nat \ {0}
  PROVE  \E base, unit, rest, tail \in Nat : SizesBy(len, al, base, unit, rest, tail)
<1> c \in Nat \ {0} /\ Chunk = 0 .. c - 1 BY ChunksAre
<1>1. CASE al <= 1
  <2>1. /\ len \div c \in Nat /\ len % c \in Chunk /\ len = c * (len \div c) + (len % c)
    BY Division
  <2>2. ChunkSize(len, al) =
          [k \in Chunk |-> len \div c + (IF k < len % c THEN 1 ELSE 0) + (IF k = c - 1 THEN 0 ELSE 0)]
    BY <1>1, <2>1 DEF ChunkSize, EvenSize
  <2>3. SizesBy(len, al, len \div c, 1, len % c, 0) BY <2>1, <2>2 DEF SizesBy
  <2>4. len % c \in Nat BY <2>1
  <2> QED BY <2>1, <2>3, <2>4
<1>2. CASE ~ (al <= 1)
  <2>1. PICK b \in Nat, tail \in Nat : b = len \div al /\ tail = len % al /\ len = al * b + tail
    <3>1. len \div al \in Nat /\ len % al \in 0 .. al - 1 /\ len = al * (len \div al) + (len % al)
      BY Division
    <3> QED BY <3>1
  <2>2. PICK q \in Nat, rest \in Chunk : q = b \div c /\ rest = b % c /\ b = c * q + rest
    <3>1. b \div c \in Nat /\ b % c \in 0 .. c - 1 /\ b = c * (b \div c) + (b % c)
      BY Division
    <3> QED BY <3>1
  <2>3. PICK base \in Nat : base = q * al
    BY <2>2
  <2>4. ChunkSize(len, al) =
          [k \in Chunk |-> base + (IF k < rest THEN al ELSE 0) + (IF k = c - 1 THEN tail ELSE 0)]
    <3>1. ASSUME NEW k \in Chunk
          PROVE  AlignedSize(len, al, k) =
                   base + (IF k < rest THEN al ELSE 0) + (IF k = c - 1 THEN tail ELSE 0)
      <4>1. (len \div al) \div c = q /\ (len \div al) % c = rest /\ len % al = tail
        BY <2>1, <2>2
      <4>2. AlignedSize(len, al, k) =
              IF k = c - 1 THEN base + (IF k < rest THEN al ELSE 0) + tail
              ELSE base + (IF k < rest THEN al ELSE 0)
        BY <4>1, <2>3 DEF AlignedSize
      <4>3. PICK more \in Nat : more = IF k < rest THEN al ELSE 0 OBVIOUS
      <4> QED BY <4>2, <4>3, <2>1, <2>3
    <3> QED BY <1>2, <3>1 DEF ChunkSize
  <2>5. c * base + rest * al + tail = len
    <3>1. c * base = (c * q) * al BY <2>3
    <3>2. (c * q) * al + rest * al = (c * q + rest) * al BY <2>2
    <3>3. b * al = al * b OBVIOUS
    <3> QED BY <2>1, <2>2, <3>1, <3>2, <3>3
  <2>6. rest \in Nat BY <2>2
  <2>7. SizesBy(len, al, base, al, rest, tail) BY <2>1, <2>2, <2>3, <2>4, <2>5 DEF SizesBy
  <2> QED BY <2>6, <2>7
<1> QED BY <1>1, <1>2

\* A chunk starts where the one before it ends, the first at the first token,
\* and the last ends with the last.
Layout(len, start, size) ==
  /\ size \in [Chunk -> Nat] /\ start \in [Chunk -> Nat]
  /\ start[0] = 0
  /\ \A k \in Chunk : k # 0 => start[k] = start[k - 1] + size[k - 1]
  /\ start[c - 1] + size[c - 1] = len

\* The chunks of chunk_layout lie end to end and cover the sequence.
LEMMA LayoutIs ==
  ASSUME NEW len \in Nat, NEW al \in Nat \ {0}
  PROVE  Layout(len, ChunkStart(len, al), ChunkSize(len, al))
<1> c \in Nat \ {0} /\ Chunk = 0 .. c - 1 BY ChunksAre
<1>1. PICK base, unit, rest, tail \in Nat : SizesBy(len, al, base, unit, rest, tail) BY SizesAre
<1>2. PICK size \in [Chunk -> Nat] :
        /\ size = ChunkSize(len, al)
        /\ \A k \in Chunk : size[k] = base + (IF k < rest THEN unit ELSE 0) + (IF k = c - 1 THEN tail ELSE 0)
  <2>1. ChunkSize(len, al) \in [Chunk -> Nat] BY <1>1 DEF SizesBy
  <2> QED BY <1>1, <2>1 DEF SizesBy
<1>3. rest \in Chunk /\ c * base + rest * unit + tail = len BY <1>1 DEF SizesBy
<1> DEFINE At(k) == k * base + (IF k < rest THEN k * unit ELSE rest * unit)
<1>4. \A k \in Chunk : At(k) \in Nat BY <1>3
<1>5. \A k \in Chunk : k # 0 => At(k) = At(k - 1) + size[k - 1]
  <2> SUFFICES ASSUME NEW k \in Chunk, k # 0 PROVE At(k) = At(k - 1) + size[k - 1] OBVIOUS
  <2>1. k * base = (k - 1) * base + base /\ k * unit = (k - 1) * unit + unit BY <1>1
  <2>2. size[k - 1] = base + (IF k - 1 < rest THEN unit ELSE 0) BY <1>2
  <2>3. CASE k - 1 < rest /\ k < rest BY <2>1, <2>2, <2>3, <1>3
  <2>4. CASE k - 1 < rest /\ ~ (k < rest)
    <3>1. k = rest BY <2>4, <1>3
    <3> QED BY <2>1, <2>2, <2>4, <3>1, <1>3
  <2>5. CASE ~ (k - 1 < rest) BY <2>1, <2>2, <2>5, <1>3
  <2> QED BY <2>3, <2>4, <2>5
<1> DEFINE Is(st) == st = [k \in Chunk |-> IF k = 0 THEN 0 ELSE st[k - 1] + size[k - 1]]
<1>6. Is([k \in Chunk |-> At(k)])
  <2> DEFINE st == [k \in Chunk |-> At(k)]
  <2>1. At(0) = 0 BY <1>3
  <2> HIDE DEF At
  <2>2. \A k \in Chunk : st[k] = IF k = 0 THEN 0 ELSE st[k - 1] + size[k - 1]
    BY <1>5, <2>1
  <2> QED BY <2>2
<1>7. Is(ChunkStart(len, al))
  <2>1. ChunkStart(len, al) = CHOOSE st : Is(st) BY <1>2 DEF ChunkStart
  <2> HIDE DEF Is
  <2> QED BY <1>6, <2>1
<1>8. PICK start : start = ChunkStart(len, al) /\ Is(start) BY <1>7
<1>9. start[0] = 0 /\ \A k \in Chunk : k # 0 => start[k] = start[k - 1] + size[k - 1]
  <2>1. \A k \in Chunk : start[k] = IF k = 0 THEN 0 ELSE start[k - 1] + size[k - 1] BY <1>8
  <2>2. 0 \in Chunk OBVIOUS
  <2> QED BY <2>1, <2>2
<1>10. \A k \in 0 .. c - 1 : k \in {j \in Chunk : start[j] = At(j)}
  <2>1. At(0) = 0 BY <1>3
  <2> DEFINE S == {j \in Chunk : start[j] = At(j)}
  <2> HIDE DEF At
  <2>2. 0 \in S BY <1>9, <2>1
  <2>3. \A k \in Nat : k < c - 1 /\ k \in S => k + 1 \in S BY <1>5, <1>9
  <2> HIDE DEF S
  <2>4. c - 1 \in Nat OBVIOUS
  <2>5. \A k \in 0 .. c - 1 : k \in S BY <2>2, <2>3, <2>4, UpTo
  <2> QED BY <2>5 DEF S
<1>11. start \in [Chunk -> Nat]
  <2>1. \A k \in Chunk : start[k] \in Nat BY <1>4, <1>10
  <2>2. start = [k \in Chunk |-> start[k]] BY <1>8
  <2> QED BY <2>1, <2>2
<1>12. start[c - 1] + size[c - 1] = len
  <2>1. start[c - 1] = (c - 1) * base + rest * unit BY <1>3, <1>10
  <2>2. size[c - 1] = base + tail BY <1>2, <1>3
  <2>3. c * base = (c - 1) * base + base BY <1>1
  <2> QED BY <2>1, <2>2, <2>3, <1>3
<1>13. Layout(len, start, size) BY <1>2, <1>9, <1>11, <1>12 DEF Layout
<1> QED BY <1>2, <1>8, <1>13

-----------------------------------------------------------------------------
(* The chunk of a position. *)

\* Position x of a sequence of len tokens is in chunk k.
InChunk(len, al, x, k) ==
  ChunkStart(len, al)[k] < x /\ x <= ChunkStart(len, al)[k] + ChunkSize(len, al)[k]

\* A chunk ends no later than a later one starts.
LEMMA ChunksAscend ==
  ASSUME NEW len \in Nat, NEW al \in Nat \ {0}, NEW j \in Chunk, NEW k \in Chunk, j < k
  PROVE  ChunkStart(len, al)[j] + ChunkSize(len, al)[j] <= ChunkStart(len, al)[k]
<1> c \in Nat \ {0} /\ Chunk = 0 .. c - 1 BY ChunksAre
<1>0. PICK start, size : /\ start = ChunkStart(len, al) /\ size = ChunkSize(len, al)
                         /\ Layout(len, start, size)
  BY LayoutIs
<1>1. /\ start = ChunkStart(len, al) /\ size = ChunkSize(len, al)
      /\ \A i \in Chunk : start[i] \in Nat /\ size[i] \in Nat
      /\ start[0] = 0
      /\ \A i \in Chunk : i # 0 => start[i] = start[i - 1] + size[i - 1]
      /\ start[c - 1] + size[c - 1] = len
  BY <1>0 DEF Layout
<1> DEFINE S == {i \in Nat : j < i /\ i <= c - 1 => start[j] + size[j] <= start[i]}
<1>2. 0 \in S OBVIOUS
<1>3. ASSUME NEW i \in Nat, i < c - 1, i \in S PROVE i + 1 \in S
  <2>1. i + 1 \in Chunk /\ i \in Chunk BY <1>3
  <2>2. start[i + 1] = start[i] + size[i]
    <3>1. start[i + 1] = start[(i + 1) - 1] + size[(i + 1) - 1] BY <1>1, <2>1
    <3>2. (i + 1) - 1 = i BY <1>3
    <3> QED BY <3>1, <3>2
  <2>3. /\ start[i] \in Nat /\ size[i] \in Nat /\ start[j] \in Nat /\ size[j] \in Nat
        /\ start[i + 1] \in Nat
    BY <1>1, <2>1
  <2>4. CASE j = i BY <2>2, <2>3, <2>4
  <2>5. CASE j < i BY <1>3, <2>1, <2>2, <2>3, <2>5
  <2>6. CASE i < j BY <1>3, <2>6
  <2> QED BY <2>4, <2>5, <2>6
<1>4. c - 1 \in Nat OBVIOUS
<1> HIDE DEF S
<1>5. k \in S BY <1>2, <1>3, <1>4, UpTo
<1> QED BY <1>1, <1>5 DEF S

\* Every position is in exactly one chunk, and a chunk has positions only.
LEMMA OneChunk ==
  ASSUME NEW len \in Nat, NEW al \in Nat \ {0}
  PROVE  /\ \A x \in 1 .. len : \E k \in Chunk : InChunk(len, al, x, k)
         /\ \A x \in Int, j, k \in Chunk : InChunk(len, al, x, j) /\ InChunk(len, al, x, k) => j = k
         /\ \A x \in Int, k \in Chunk : InChunk(len, al, x, k) => x \in 1 .. len
<1> c \in Nat \ {0} /\ Chunk = 0 .. c - 1 BY ChunksAre
<1>0. PICK start, size : /\ start = ChunkStart(len, al) /\ size = ChunkSize(len, al)
                         /\ Layout(len, start, size)
  BY LayoutIs
<1>1. /\ start = ChunkStart(len, al) /\ size = ChunkSize(len, al)
      /\ \A i \in Chunk : start[i] \in Nat /\ size[i] \in Nat
      /\ start[0] = 0
      /\ \A i \in Chunk : i # 0 => start[i] = start[i - 1] + size[i - 1]
      /\ start[c - 1] + size[c - 1] = len
  BY <1>0 DEF Layout
<1>2. \A i, k \in Chunk : i < k => start[i] + size[i] <= start[k] BY <1>1, ChunksAscend
<1>3. \A x \in Int, k \in Chunk : InChunk(len, al, x, k) <=> start[k] < x /\ x <= start[k] + size[k]
  BY <1>1 DEF InChunk
<1>4. ASSUME NEW x \in 1 .. len PROVE \E k \in Chunk : InChunk(len, al, x, k)
  <2> DEFINE S == {k \in Chunk : x <= start[k] + size[k]}
  <2>1. c - 1 \in S /\ S \in SUBSET Nat BY <1>1
  <2>2. PICK k \in S : \A i \in S : k <= i BY <2>1, LeastNat
  <2>3. CASE k = 0 BY <2>2, <2>3, <1>1, <1>3
  <2>4. CASE k # 0
    <3>1. k - 1 \in Chunk /\ k - 1 \notin S BY <2>2, <2>4
    <3>2. start[k - 1] + size[k - 1] < x
      <4>1. start[k - 1] \in Nat /\ size[k - 1] \in Nat BY <1>1, <3>1
      <4>2. ~ (x <= start[k - 1] + size[k - 1]) BY <3>1
      <4> QED BY <4>1, <4>2
    <3>3. start[k] < x BY <2>4, <3>2, <1>1
    <3> QED BY <2>2, <3>3, <1>3
  <2> QED BY <2>3, <2>4
<1>5. ASSUME NEW x \in Int, NEW j \in Chunk, NEW k \in Chunk, InChunk(len, al, x, j), InChunk(len, al, x, k)
      PROVE  j = k
  <2>1. /\ start[j] < x /\ x <= start[j] + size[j] /\ start[k] < x /\ x <= start[k] + size[k]
    BY <1>3, <1>5
  <2>2. /\ start[j] \in Nat /\ size[j] \in Nat /\ start[k] \in Nat /\ size[k] \in Nat
        /\ j \in Nat /\ k \in Nat
    BY <1>1
  <2>3. j < k => start[j] + size[j] <= start[k] BY <1>2
  <2>4. k < j => start[k] + size[k] <= start[j] BY <1>2
  <2> QED BY <2>1, <2>2, <2>3, <2>4
<1>6. ASSUME NEW x \in Int, NEW k \in Chunk, InChunk(len, al, x, k) PROVE x \in 1 .. len
  <2>1. start[k] < x /\ x <= start[k] + size[k] BY <1>3, <1>6
  <2>2. start[k] + size[k] <= len
    <3>1. CASE k = c - 1 BY <3>1, <1>1
    <3>2. CASE k # c - 1
      <4>1. c - 1 \in Chunk /\ k < c - 1 BY <3>2
      <4> QED BY <4>1, <1>1, <1>2
    <3> QED BY <3>1, <3>2
  <2> QED BY <1>1, <2>1, <2>2
<1> QED BY <1>4, <1>5, <1>6

\* seg holds the elements of ids that are at the positions of chunk k, the first
\* of them after position `first`, in their order.
Placed(seg, ids, al, k, first) ==
  /\ \A i \in DOMAIN seg :
       /\ i \in Nat \ {0}
       /\ InChunk(Len(ids), al, first + i, k) /\ first + i \in DOMAIN ids
       /\ seg[i] = ids[first + i]
  /\ \A x \in DOMAIN ids : InChunk(Len(ids), al, x, k) => x - first \in DOMAIN seg

\* A segment holds the tokens at the positions of its chunk, in their order.
LEMMA SegmentIs ==
  ASSUME NEW T, NEW ids \in Seq(T), NEW al \in Nat \ {0}, NEW k \in Chunk
  PROVE  /\ Segment(ids, al, k) \in Seq(T)
         /\ \E first \in Nat : Placed(Segment(ids, al, k), ids, al, k, first)
<1> c \in Nat \ {0} /\ Chunk = 0 .. c - 1 BY ChunksAre
<1>1. Len(ids) \in Nat /\ DOMAIN ids = 1 .. Len(ids) BY LenProperties
<1>2. PICK first \in Nat, size \in Nat :
        /\ first = ChunkStart(Len(ids), al)[k] /\ size = ChunkSize(Len(ids), al)[k]
        /\ \A x \in Int : InChunk(Len(ids), al, x, k) <=> first < x /\ x <= first + size
  <2>1. ChunkStart(Len(ids), al)[k] \in Nat /\ ChunkSize(Len(ids), al)[k] \in Nat
    <3>1. PICK start, size : /\ start = ChunkStart(Len(ids), al) /\ size = ChunkSize(Len(ids), al)
                             /\ Layout(Len(ids), start, size)
      BY <1>1, LayoutIs
    <3>2. start \in [Chunk -> Nat] /\ size \in [Chunk -> Nat] BY <3>1 DEF Layout
    <3> QED BY <3>1, <3>2
  <2> QED BY <2>1 DEF InChunk
<1>3. \A x \in Int : InChunk(Len(ids), al, x, k) => x \in 1 .. Len(ids) BY <1>1, OneChunk
<1>4. \A i \in first + 1 .. first + size : i \in 1 .. Len(ids) /\ ids[i] \in T
  <2> SUFFICES ASSUME NEW i \in first + 1 .. first + size PROVE i \in 1 .. Len(ids) /\ ids[i] \in T
    OBVIOUS
  <2>1. i \in 1 .. Len(ids) BY <1>2, <1>3
  <2> QED BY <2>1, <1>1, ElementOfSeq
<1>5. PICK seg : seg = SubSeq(ids, first + 1, first + size) /\ seg = Segment(ids, al, k)
  BY <1>2 DEF Segment
<1>6. /\ seg \in Seq(T) /\ DOMAIN seg = 1 .. size
      /\ \A i \in 1 .. size : seg[i] = ids[first + i]
  <2>1. first + 1 \in Int /\ first + size \in Int OBVIOUS
  <2>2. /\ SubSeq(ids, first + 1, first + size) \in Seq(T)
        /\ Len(SubSeq(ids, first + 1, first + size)) =
             IF first + 1 <= first + size THEN (first + size) - (first + 1) + 1 ELSE 0
        /\ \A i \in 1 .. (first + size) - (first + 1) + 1 :
             SubSeq(ids, first + 1, first + size)[i] = ids[(first + 1) + i - 1]
    BY <2>1, <1>4, SubSeqProperties
  <2>3. Len(seg) = size
    <3>1. Len(seg) = IF first + 1 <= first + size THEN (first + size) - (first + 1) + 1 ELSE 0
      BY <2>2, <1>5
    <3>2. (first + size) - (first + 1) + 1 = size OBVIOUS
    <3>3. ~ (first + 1 <= first + size) => size = 0 OBVIOUS
    <3> QED BY <3>1, <3>2, <3>3
  <2>4. DOMAIN seg = 1 .. size BY <2>2, <2>3, <1>5, LenProperties
  <2> QED BY <2>2, <2>4, <1>5
<1>7. \A i \in DOMAIN seg : /\ i \in Nat \ {0} /\ InChunk(Len(ids), al, first + i, k) /\ first + i \in DOMAIN ids
                            /\ seg[i] = ids[first + i]
  <2> SUFFICES ASSUME NEW i \in 1 .. size
               PROVE  /\ i \in Nat \ {0} /\ InChunk(Len(ids), al, first + i, k) /\ first + i \in DOMAIN ids
                      /\ seg[i] = ids[first + i]
    BY <1>6
  <2>1. first + i \in Int /\ first < first + i /\ first + i <= first + size OBVIOUS
  <2>2. InChunk(Len(ids), al, first + i, k) BY <2>1, <1>2
  <2> QED BY <2>1, <2>2, <1>1, <1>3, <1>6
<1>8. \A x \in DOMAIN ids : InChunk(Len(ids), al, x, k) => x - first \in DOMAIN seg
  <2> SUFFICES ASSUME NEW x \in DOMAIN ids, InChunk(Len(ids), al, x, k) PROVE x - first \in 1 .. size
    BY <1>6
  <2>1. x \in Int BY <1>1
  <2>2. first < x /\ x <= first + size BY <2>1, <1>2
  <2> QED BY <2>1, <2>2
<1>9. Placed(seg, ids, al, k, first) BY <1>7, <1>8 DEF Placed
<1> QED BY <1>5, <1>6, <1>9

-----------------------------------------------------------------------------
(* The numbers of a set in order. *)

\* The operator that puts a finite set of numbers in order: each of them comes
\* once, and they increase.
LEMMA AscendingIs ==
  ASSUME NEW S \in SUBSET Int, IsFiniteSet(S)
  PROVE  \E m \in Nat :
           /\ Ascending(S) \in [1 .. m -> S]
           /\ \A i, j \in 1 .. m : i < j => Ascending(S)[i] < Ascending(S)[j]
           /\ \A x \in S : \E i \in 1 .. m : Ascending(S)[i] = x
<1> DEFINE Below(x) == {y \in S : y < x}
           rank(x) == Cardinality(Below(x))
<1>1. PICK m \in Nat : m = Cardinality(S) BY FS_CardinalityType
<1>2. \A x \in S : rank(x) \in Nat /\ IsFiniteSet(Below(x))
  <2> SUFFICES ASSUME NEW x \in S PROVE rank(x) \in Nat /\ IsFiniteSet(Below(x)) OBVIOUS
  <2>1. IsFiniteSet(Below(x))
    <3>1. Below(x) \in SUBSET S OBVIOUS
    <3> QED BY <3>1, FS_Subset
  <2> HIDE DEF Below
  <2> QED BY <2>1, FS_CardinalityType
<1>3. ASSUME NEW x \in S, NEW U \in SUBSET S, Below(x) \cup {x} \subseteq U
      PROVE  IsFiniteSet(U) /\ Cardinality(U) \in Nat /\ rank(x) + 1 <= Cardinality(U)
  <2>1. IsFiniteSet(U) BY FS_Subset
  <2>2. x \notin Below(x) OBVIOUS
  <2> HIDE DEF Below
  <2>3. IsFiniteSet(Below(x)) /\ rank(x) \in Nat BY <1>2
  <2>4. Cardinality(Below(x) \cup {x}) = rank(x) + 1 BY <2>2, <2>3, FS_AddElement
  <2>5. Cardinality(Below(x) \cup {x}) <= Cardinality(U) BY <2>1, <1>3, FS_Subset
  <2>6. Cardinality(U) \in Nat BY <2>1, FS_CardinalityType
  <2> QED BY <2>1, <2>4, <2>5, <2>6
<1>4. ASSUME NEW x \in S, NEW z \in S, x < z PROVE rank(x) < rank(z)
  <2>1. Below(z) \in SUBSET S /\ Below(x) \cup {x} \subseteq Below(z)
    <3>1. \A y \in S : y \in Int OBVIOUS
    <3>2. \A y \in S : y < x => y < z BY <3>1, <1>4
    <3> QED BY <3>2, <1>4
  <2>2. rank(x) \in Nat /\ rank(z) \in Nat BY <1>2
  <2> HIDE DEF Below
  <2>3. rank(x) + 1 <= rank(z) BY <2>1, <1>3
  <2> QED BY <2>2, <2>3
<1>5. \A x \in S : rank(x) + 1 \in 1 .. m
  <2> SUFFICES ASSUME NEW x \in S PROVE rank(x) + 1 \in 1 .. m OBVIOUS
  <2>1. S \in SUBSET S /\ Below(x) \cup {x} \subseteq S OBVIOUS
  <2>2. rank(x) \in Nat BY <1>2
  <2> HIDE DEF Below
  <2>3. rank(x) + 1 <= m BY <2>1, <1>1, <1>3
  <2> QED BY <2>2, <2>3
<1> HIDE DEF Below
<1>6. \A i \in 1 .. m : \E x \in S : rank(x) = i - 1
  <2> DEFINE r == [x \in S |-> rank(x) + 1]
  <2>1. r \in [S -> 1 .. m] BY <1>5
  <2>2. \A x, z \in S : x # z => r[x] # r[z]
    <3> SUFFICES ASSUME NEW x \in S, NEW z \in S, x # z PROVE r[x] # r[z] OBVIOUS
    <3>1. rank(x) \in Nat /\ rank(z) \in Nat BY <1>2
    <3>2. rank(x) # rank(z)
      <4>1. CASE x < z BY <4>1, <1>4, <3>1
      <4>2. CASE z < x BY <4>2, <1>4, <3>1
      <4> QED BY <4>1, <4>2
    <3> QED BY <3>1, <3>2
  <2> HIDE DEF r
  <2>3. r \in Injection(S, 1 .. m) BY <2>1, <2>2 DEF Injection, IsInjective
  <2>4. IsFiniteSet(1 .. m) /\ Cardinality(1 .. m) = m BY FS_Interval
  <2>5. r \in Surjection(S, 1 .. m) BY <2>3, <2>4, <1>1, FS_Injection
  <2>6. \A i \in 1 .. m : \E x \in S : r[x] = i BY <2>5 DEF Surjection
  <2> SUFFICES ASSUME NEW i \in 1 .. m PROVE \E x \in S : rank(x) = i - 1 OBVIOUS
  <2>7. PICK x \in S : r[x] = i BY <2>6
  <2>8. rank(x) + 1 = i BY <2>7 DEF r
  <2>9. rank(x) \in Nat BY <1>2
  <2> QED BY <2>8, <2>9
<1>7. PICK asc : /\ asc = Ascending(S)
                 /\ asc = [i \in 1 .. m |-> CHOOSE x \in S : rank(x) = i - 1]
  BY <1>1 DEF Ascending, Below
<1>8. \A i \in 1 .. m : asc[i] \in S /\ rank(asc[i]) = i - 1
  <2> HIDE DEF rank
  <2> QED BY <1>6, <1>7
<1>9. asc \in [1 .. m -> S] BY <1>7, <1>8
<1>10. ASSUME NEW i \in 1 .. m, NEW j \in 1 .. m, i < j PROVE asc[i] < asc[j]
  <2>1. PICK x \in S, z \in S : x = asc[i] /\ z = asc[j] BY <1>8
  <2>2. rank(x) = i - 1 /\ rank(z) = j - 1 BY <1>8, <2>1
  <2>3. x # z BY <2>2, <1>10
  <2>4. ~ (z < x)
    <3> SUFFICES ASSUME z < x PROVE FALSE OBVIOUS
    <3>1. rank(z) < rank(x) BY <1>4
    <3> QED BY <3>1, <2>2, <1>10
  <2> QED BY <2>1, <2>3, <2>4
<1>11. ASSUME NEW x \in S PROVE \E i \in 1 .. m : asc[i] = x
  <2>1. rank(x) \in Nat /\ rank(x) + 1 \in 1 .. m BY <1>2, <1>5
  <2>2. PICK z \in S : z = asc[rank(x) + 1] /\ rank(z) = (rank(x) + 1) - 1 BY <1>8, <2>1
  <2>3. rank(z) = rank(x) BY <2>1, <2>2
  <2>4. ~ (x < z)
    <3> SUFFICES ASSUME x < z PROVE FALSE OBVIOUS
    <3>1. rank(x) < rank(z) BY <1>4
    <3> QED BY <3>1, <2>1, <2>3
  <2>5. ~ (z < x)
    <3> SUFFICES ASSUME z < x PROVE FALSE OBVIOUS
    <3>1. rank(z) < rank(x) BY <1>4
    <3> QED BY <3>1, <2>1, <2>3
  <2>6. x = z BY <2>4, <2>5
  <2> QED BY <2>1, <2>2, <2>6
<1> QED BY <1>7, <1>9, <1>10, <1>11

-----------------------------------------------------------------------------
(* The chunks a subproblem gathers (quorum_chunks and the sorted gather). *)

\* Owner o gathers chunk k.
Gathers(o, k) == \E d \in Offsets : k = (o + d) % c

\* Adding different offsets to an owner gives different chunks.
LEMMA OffsetsApart ==
  ASSUME NEW o \in Chunk, NEW d \in Chunk, NEW e \in Chunk
  PROVE  (o + d) % c \in Chunk /\ ((o + d) % c = (o + e) % c => d = e)
<1> c \in Nat /\ c > 1 /\ Chunk = 0 .. c - 1 BY ChunksAre
<1>1. (o + d) % c = IF o + d < c THEN o + d ELSE o + d - c BY ModSum
<1>2. (o + e) % c = IF o + e < c THEN o + e ELSE o + e - c BY ModSum
<1> QED BY <1>1, <1>2

\* The gather order lists the chunks the owner gathers, each once, and in
\* increasing order when the gather is sorted; the owner's own is among them.
LEMMA GatherOrderIs ==
  ASSUME NEW o \in Chunk, NEW srt \in BOOLEAN
  PROVE  \E m \in Nat \ {0} :
           /\ GatherOrder(o, srt) \in [1 .. m -> Chunk]
           /\ \A i, j \in 1 .. m : GatherOrder(o, srt)[i] = GatherOrder(o, srt)[j] => i = j
           /\ srt => \A i, j \in 1 .. m : i < j => GatherOrder(o, srt)[i] < GatherOrder(o, srt)[j]
           /\ \A k : (\E i \in 1 .. m : GatherOrder(o, srt)[i] = k) <=> Gathers(o, k)
<1> c \in Nat /\ c > 1 /\ Chunk = 0 .. c - 1 BY ChunksAre
<1>1. PICK l \in Nat : DOMAIN interest_set = 1 .. l
  BY LenProperties, PerfectDifferenceSet DEF PerfectDifferenceSet
<1>2. /\ \A i \in 1 .. l : interest_set[i] \in Chunk /\ interest_set[i] \in Offsets
      /\ \A i, j \in 1 .. l : interest_set[i] = interest_set[j] => i = j
      /\ \A d \in Offsets : \E i \in 1 .. l : interest_set[i] = d
      /\ 0 \in Offsets
  BY <1>1, PerfectDifferenceSet DEF PerfectDifferenceSet, IsInjective, Offsets, Range
<1>3. PICK q : q = QuorumChunks(o) /\ q = [i \in 1 .. l |-> (o + interest_set[i]) % c]
  BY <1>1 DEF QuorumChunks
<1>4. \A i \in 1 .. l : q[i] \in Chunk /\ Gathers(o, q[i])
  <2> SUFFICES ASSUME NEW i \in 1 .. l PROVE q[i] \in Chunk /\ Gathers(o, q[i]) OBVIOUS
  <2>1. PICK d \in Chunk : d = interest_set[i] /\ d \in Offsets BY <1>2
  <2>2. q[i] = (o + d) % c BY <1>3, <2>1
  <2>3. (o + d) % c \in Chunk BY OffsetsApart
  <2> QED BY <2>1, <2>2, <2>3 DEF Gathers
<1>5. \A i, j \in 1 .. l : q[i] = q[j] => i = j
  <2> SUFFICES ASSUME NEW i \in 1 .. l, NEW j \in 1 .. l, q[i] = q[j] PROVE i = j OBVIOUS
  <2>1. PICK d \in Chunk, e \in Chunk : d = interest_set[i] /\ e = interest_set[j] BY <1>2
  <2>2. (o + d) % c = (o + e) % c BY <1>3, <2>1
  <2>3. d = e BY <2>2, OffsetsApart
  <2> QED BY <1>2, <2>1, <2>3
<1>6. \A k : (\E i \in 1 .. l : q[i] = k) <=> Gathers(o, k)
  <2> SUFFICES ASSUME NEW k, Gathers(o, k) PROVE \E i \in 1 .. l : q[i] = k BY <1>4
  <2>1. PICK d \in Offsets : k = (o + d) % c BY DEF Gathers
  <2>2. PICK i \in 1 .. l : interest_set[i] = d BY <1>2
  <2> QED BY <2>1, <2>2, <1>3
<1>7. l # 0 BY <1>2
<1>8. CASE ~ srt
  <2>1. GatherOrder(o, srt) = q BY <1>3, <1>8 DEF GatherOrder
  <2>2. q \in [1 .. l -> Chunk] BY <1>3, <1>4
  <2> HIDE <1>3
  <2> QED BY <2>1, <2>2, <1>5, <1>6, <1>7, <1>8
<1>9. CASE srt
  <2> DEFINE S == Range(q)
  <2>1. /\ \A k : k \in S <=> Gathers(o, k)
        /\ S \in SUBSET Chunk
    BY <1>3, <1>4, <1>6 DEF Range
  <2>2. GatherOrder(o, srt) = Ascending(S) BY <1>3, <1>9 DEF GatherOrder
  <2> HIDE DEF S
  <2>3. S \in SUBSET Int /\ IsFiniteSet(S)
    <3>1. IsFiniteSet(Chunk) BY FS_Interval
    <3>2. S \in SUBSET Int BY <2>1
    <3> HIDE DEF Chunk
    <3> QED BY <2>1, <3>1, <3>2, FS_Subset
  <2>4. PICK m \in Nat :
          /\ Ascending(S) \in [1 .. m -> S]
          /\ \A i, j \in 1 .. m : i < j => Ascending(S)[i] < Ascending(S)[j]
          /\ \A x \in S : \E i \in 1 .. m : Ascending(S)[i] = x
    BY <2>3, AscendingIs
  <2>5. PICK asc : asc = Ascending(S) OBVIOUS
  <2>6. /\ \A i \in 1 .. m : asc[i] \in S /\ asc[i] \in Chunk /\ asc[i] \in Int
        /\ asc \in [1 .. m -> Chunk]
    <3>1. asc \in [1 .. m -> S] BY <2>4, <2>5
    <3>2. \A i \in 1 .. m : asc[i] \in S BY <3>1
    <3>3. \A k \in S : k \in Chunk /\ k \in Int BY <2>1
    <3>4. asc = [i \in 1 .. m |-> asc[i]] BY <3>1
    <3> HIDE DEF Chunk
    <3>5. asc \in [1 .. m -> Chunk] BY <3>2, <3>3, <3>4
    <3> QED BY <3>2, <3>3, <3>5
  <2>7. \A i, j \in 1 .. m : i < j => asc[i] < asc[j] BY <2>4, <2>5
  <2>8. \A i, j \in 1 .. m : asc[i] = asc[j] => i = j
    <3> SUFFICES ASSUME NEW i \in 1 .. m, NEW j \in 1 .. m, i < j, asc[i] = asc[j] PROVE FALSE
      OBVIOUS
    <3> QED BY <2>6, <2>7
  <2>9. \A k : (\E i \in 1 .. m : asc[i] = k) <=> Gathers(o, k)
    <3>1. \A x \in S : \E i \in 1 .. m : asc[i] = x BY <2>4, <2>5
    <3> QED BY <3>1, <2>1, <2>6
  <2>10. m # 0
    <3>1. Gathers(o, q[1]) BY <1>4, <1>7
    <3> QED BY <3>1, <2>9
  <2>11. m \in Nat \ {0} /\ GatherOrder(o, srt) = asc BY <2>2, <2>5, <2>10
  <2>12. asc \in [1 .. m -> Chunk] BY <2>6
  <2> QED BY <2>7, <2>8, <2>9, <2>11, <2>12
<1> QED BY <1>8, <1>9

-----------------------------------------------------------------------------
(* Segments one after the other. *)

\* R holds between every element of s and every later one.
Pairwise(s, R) == \A x, y \in DOMAIN s : x < y => <<s[x], s[y]>> \in R

\* f[k] joins the first k of the m sequences segs, element by element of T.
Joins(f, segs, m, T) ==
  /\ \A k \in 1 .. m : f[k] \in Seq(T)
  /\ f[1] = segs[1]
  /\ \A k \in 1 .. m : k # 1 => f[k] = f[k - 1] \o segs[k]

\* Flattening joins the sequences one by one.
LEMMA FlattenByParts ==
  ASSUME NEW T, NEW m \in Nat \ {0}, NEW segs \in [1 .. m -> Seq(T)]
  PROVE  \E f : Joins(f, segs, m, T) /\ FlattenSeq(segs) = f[m]
<1> DEFINE Is(f, k) == f = [i \in 1 .. k |-> IF i = 1 THEN segs[i] ELSE f[i - 1] \o segs[i]]
           Have == {k \in Nat : k < m => \E f : Is(f, k + 1)}
<1>1. 0 \in Have
  <2>1. Is([i \in 1 .. 1 |-> segs[1]], 1) OBVIOUS
  <2>2. 0 + 1 = 1 OBVIOUS
  <2> HIDE DEF Is
  <2> QED BY <2>1, <2>2
<1>2. ASSUME NEW k \in Nat, k < m - 1, k \in Have PROVE k + 1 \in Have
  <2>1. PICK f : Is(f, k + 1)
    <3> HIDE DEF Is
    <3> QED BY <1>2
  <2> DEFINE g == [i \in 1 .. k + 2 |-> IF i < k + 2 THEN f[i] ELSE f[k + 1] \o segs[i]]
  <2>2. \A i \in 1 .. k + 1 : f[i] = IF i = 1 THEN segs[i] ELSE f[i - 1] \o segs[i] BY <2>1
  <2>3. \A i \in 1 .. k + 2 : g[i] = IF i = 1 THEN segs[i] ELSE g[i - 1] \o segs[i]
    <3> SUFFICES ASSUME NEW i \in 1 .. k + 2
                 PROVE  g[i] = IF i = 1 THEN segs[i] ELSE g[i - 1] \o segs[i]
      OBVIOUS
    <3>1. CASE i = k + 2
      <4>1. k + 1 \in 1 .. k + 2 /\ k + 1 < k + 2 /\ i - 1 = k + 1 /\ i # 1 BY <3>1
      <4>2. g[k + 1] = f[k + 1] BY <4>1
      <4>3. g[i] = f[k + 1] \o segs[i]
        <5>1. g[i] = IF i < k + 2 THEN f[i] ELSE f[k + 1] \o segs[i] OBVIOUS
        <5>2. ~ (i < k + 2) BY <3>1
        <5> HIDE DEF g
        <5> QED BY <5>1, <5>2
      <4> HIDE DEF g
      <4> QED BY <4>1, <4>2, <4>3
    <3>2. CASE i # k + 2
      <4>1. i \in 1 .. k + 1 /\ g[i] = f[i] BY <3>2
      <4>2. i # 1 => i - 1 \in 1 .. k + 2 /\ g[i - 1] = f[i - 1] BY <3>2
      <4> HIDE DEF g
      <4> QED BY <2>2, <4>1, <4>2
    <3> QED BY <3>1, <3>2
  <2>4. Is(g, k + 2)
    <3>1. g = [i \in 1 .. k + 2 |-> g[i]] OBVIOUS
    <3> HIDE DEF g
    <3>2. g = [i \in 1 .. k + 2 |-> IF i = 1 THEN segs[i] ELSE g[i - 1] \o segs[i]] BY <2>3, <3>1
    <3> QED BY <3>2
  <2>5. (k + 1) + 1 = k + 2 OBVIOUS
  <2> HIDE DEF Is
  <2> QED BY <2>4, <2>5
<1>3. \E f : Is(f, m)
  <2>1. m - 1 \in Nat /\ m - 1 < m /\ (m - 1) + 1 = m OBVIOUS
  <2> HIDE DEF Have
  <2>2. \A k \in 0 .. m - 1 : k \in Have BY <1>1, <1>2, <2>1, UpTo
  <2>3. m - 1 \in Have BY <2>1, <2>2
  <2> HIDE DEF Is
  <2> QED BY <2>1, <2>3 DEF Have
<1>4. Len(segs) = m
  <2>1. segs \in Seq(Seq(T)) BY SeqDef
  <2> QED BY <2>1, LenProperties
<1>5. FlattenSeq(segs) = (CHOOSE f : Is(f, m))[m] BY <1>4 DEF FlattenSeq
<1>6. PICK f : Is(f, m) /\ FlattenSeq(segs) = f[m]
  <2> HIDE DEF Is
  <2> QED BY <1>3, <1>5
<1>7. \A k \in 1 .. m : f[k] = IF k = 1 THEN segs[k] ELSE f[k - 1] \o segs[k] BY <1>6
<1> DEFINE Typed == {k \in Nat : k < m => f[k + 1] \in Seq(T)}
<1>8. \A k \in 1 .. m : f[k] \in Seq(T)
  <2>1. 0 \in Typed BY <1>7
  <2>2. ASSUME NEW k \in Nat, k < m - 1, k \in Typed PROVE k + 1 \in Typed
    <3>1. k + 2 \in 1 .. m /\ k + 2 # 1 /\ (k + 2) - 1 = k + 1 /\ (k + 1) + 1 = k + 2 BY <2>2
    <3>2. f[k + 2] = f[k + 1] \o segs[k + 2] BY <1>7, <3>1
    <3>3. f[k + 1] \in Seq(T) BY <2>2
    <3>4. f[k + 2] \in Seq(T) BY <3>1, <3>2, <3>3, ConcatProperties
    <3> QED BY <3>1, <3>4
  <2>3. m - 1 \in Nat OBVIOUS
  <2> HIDE DEF Typed
  <2>4. \A k \in 0 .. m - 1 : k \in Typed BY <2>1, <2>2, <2>3, UpTo
  <2> SUFFICES ASSUME NEW k \in 1 .. m PROVE f[k] \in Seq(T) OBVIOUS
  <2>5. k - 1 \in Typed /\ k - 1 \in Nat /\ k - 1 < m /\ (k - 1) + 1 = k BY <2>4
  <2> QED BY <2>5 DEF Typed
<1>9. /\ f[1] = segs[1]
      /\ \A k \in 1 .. m : k # 1 => f[k] = f[k - 1] \o segs[k]
  <2> HIDE DEF Is
  <2>1. 1 \in 1 .. m OBVIOUS
  <2>2. f[1] = segs[1] BY <1>7, <2>1
  <2>3. ASSUME NEW k \in 1 .. m, k # 1 PROVE f[k] = f[k - 1] \o segs[k] BY <1>7, <2>3
  <2> QED BY <2>2, <2>3
<1> HIDE DEF Is
<1>10. Joins(f, segs, m, T)
  <2> HIDE DEF Is
  <2> QED BY <1>8, <1>9 DEF Joins
<1> QED BY <1>6, <1>10

\* The elements of two sequences joined are those of the two.
LEMMA JoinRange ==
  ASSUME NEW T, NEW s1 \in Seq(T), NEW s2 \in Seq(T)
  PROVE  Range(s1 \o s2) = Range(s1) \cup Range(s2)
<1>1. PICK l1 \in Nat, l2 \in Nat :
        /\ l1 = Len(s1) /\ l2 = Len(s2) /\ DOMAIN s1 = 1 .. l1 /\ DOMAIN s2 = 1 .. l2
  BY LenProperties
<1>2. PICK s : s = s1 \o s2 OBVIOUS
<1>3. /\ DOMAIN s = 1 .. l1 + l2
      /\ \A i \in 1 .. l1 + l2 : s[i] = IF i <= l1 THEN s1[i] ELSE s2[i - l1]
  <2>1. s \in Seq(T) /\ Len(s) = l1 + l2 BY <1>1, <1>2, ConcatProperties
  <2>2. DOMAIN s = 1 .. l1 + l2 BY <2>1, LenProperties
  <2>3. \A i \in 1 .. l1 + l2 : s[i] = IF i <= l1 THEN s1[i] ELSE s2[i - l1]
    BY <1>1, <1>2, ConcatProperties
  <2> QED BY <2>2, <2>3
<1>4. ASSUME NEW v \in Range(s) PROVE v \in Range(s1) \cup Range(s2)
  <2>1. PICK i \in 1 .. l1 + l2 : v = s[i] BY <1>3, <1>4 DEF Range
  <2>2. CASE i <= l1
    <3>1. v = s1[i] /\ i \in 1 .. l1 BY <2>1, <2>2, <1>3
    <3> QED BY <3>1, <1>1 DEF Range
  <2>3. CASE ~ (i <= l1)
    <3>1. v = s2[i - l1] /\ i - l1 \in 1 .. l2 BY <2>1, <2>3, <1>3
    <3> QED BY <3>1, <1>1 DEF Range
  <2> QED BY <2>2, <2>3
<1>5. ASSUME NEW v \in Range(s1) PROVE v \in Range(s)
  <2>1. PICK i \in 1 .. l1 : v = s1[i] BY <1>1, <1>5 DEF Range
  <2>2. i \in 1 .. l1 + l2 /\ i <= l1 OBVIOUS
  <2>3. v = s[i] BY <2>1, <2>2, <1>3
  <2> QED BY <2>2, <2>3, <1>3 DEF Range
<1>6. ASSUME NEW v \in Range(s2) PROVE v \in Range(s)
  <2>1. PICK i \in 1 .. l2 : v = s2[i] BY <1>1, <1>6 DEF Range
  <2>2. l1 + i \in 1 .. l1 + l2 /\ ~ (l1 + i <= l1) /\ (l1 + i) - l1 = i OBVIOUS
  <2>3. s[l1 + i] = s2[(l1 + i) - l1] BY <2>2, <1>3
  <2>4. v = s[l1 + i] BY <2>1, <2>2, <2>3
  <2> QED BY <2>2, <2>4, <1>3 DEF Range
<1> QED BY <1>2, <1>4, <1>5, <1>6

\* A relation that holds within two sequences, and from the elements of the
\* first to those of the second, holds within the two joined.
LEMMA JoinPairwise ==
  ASSUME NEW T, NEW s1 \in Seq(T), NEW s2 \in Seq(T), NEW R,
         Pairwise(s1, R), Pairwise(s2, R),
         \A u \in Range(s1), v \in Range(s2) : <<u, v>> \in R
  PROVE  Pairwise(s1 \o s2, R)
<1>1. PICK l1 \in Nat, l2 \in Nat :
        /\ l1 = Len(s1) /\ l2 = Len(s2) /\ DOMAIN s1 = 1 .. l1 /\ DOMAIN s2 = 1 .. l2
  BY LenProperties
<1>2. PICK s : s = s1 \o s2 OBVIOUS
<1>3. /\ DOMAIN s = 1 .. l1 + l2
      /\ \A i \in 1 .. l1 + l2 : s[i] = IF i <= l1 THEN s1[i] ELSE s2[i - l1]
  <2>1. s \in Seq(T) /\ Len(s) = l1 + l2 BY <1>1, <1>2, ConcatProperties
  <2>2. DOMAIN s = 1 .. l1 + l2 BY <2>1, LenProperties
  <2>3. \A i \in 1 .. l1 + l2 : s[i] = IF i <= l1 THEN s1[i] ELSE s2[i - l1]
    BY <1>1, <1>2, ConcatProperties
  <2> QED BY <2>2, <2>3
<1>4. ASSUME NEW x \in 1 .. l1 + l2, NEW y \in 1 .. l1 + l2, x < y PROVE <<s[x], s[y]>> \in R
  <2>1. CASE y <= l1
    <3>1. /\ x \in 1 .. l1 /\ y \in 1 .. l1 /\ x <= l1 BY <2>1, <1>4
    <3>2. s[x] = s1[x] /\ s[y] = s1[y] BY <3>1, <2>1, <1>3
    <3> QED BY <3>1, <3>2, <1>1, <1>4 DEF Pairwise
  <2>2. CASE x <= l1 /\ ~ (y <= l1)
    <3>1. /\ x \in 1 .. l1 /\ y - l1 \in 1 .. l2 BY <2>2
    <3>2. s[x] = s1[x] /\ s[y] = s2[y - l1] BY <2>2, <1>3
    <3>3. s1[x] \in Range(s1) /\ s2[y - l1] \in Range(s2) BY <3>1, <1>1 DEF Range
    <3> QED BY <3>2, <3>3
  <2>3. CASE ~ (x <= l1)
    <3>1. /\ x - l1 \in 1 .. l2 /\ y - l1 \in 1 .. l2 /\ x - l1 < y - l1 /\ ~ (y <= l1)
      BY <2>3, <1>4
    <3>2. s[x] = s2[x - l1] /\ s[y] = s2[y - l1] BY <3>1, <2>3, <1>3
    <3> QED BY <3>1, <3>2, <1>1 DEF Pairwise
  <2> QED BY <2>1, <2>2, <2>3
<1> QED BY <1>2, <1>3, <1>4 DEF Pairwise

\* Flattening gathers the elements of the parts.
LEMMA FlattenRange ==
  ASSUME NEW T, NEW m \in Nat \ {0}, NEW segs \in [1 .. m -> Seq(T)]
  PROVE  /\ FlattenSeq(segs) \in Seq(T)
         /\ \A v : v \in Range(FlattenSeq(segs)) <=> \E i \in 1 .. m : v \in Range(segs[i])
<1>0. PICK f : Joins(f, segs, m, T) /\ FlattenSeq(segs) = f[m] BY FlattenByParts
<1>1. /\ \A k \in 1 .. m : f[k] \in Seq(T)
      /\ f[1] = segs[1]
      /\ \A k \in 1 .. m : k # 1 => f[k] = f[k - 1] \o segs[k]
      /\ FlattenSeq(segs) = f[m]
  BY <1>0 DEF Joins
<1> DEFINE Exact(k) == \A v : v \in Range(f[k]) <=> \E i \in 1 .. k : v \in Range(segs[i])
           Good == {k \in Nat : k < m => Exact(k + 1)}
<1>2. 0 \in Good
  <2>1. 1 .. 1 = {1} /\ 0 + 1 = 1 OBVIOUS
  <2>2. Exact(1) BY <1>1, <2>1
  <2> HIDE DEF Exact
  <2> QED BY <2>1, <2>2
<1>3. ASSUME NEW k \in Nat, k < m - 1, k \in Good PROVE k + 1 \in Good
  <2>1. /\ k + 2 \in 1 .. m /\ k + 2 # 1 /\ (k + 2) - 1 = k + 1 /\ (k + 1) + 1 = k + 2
        /\ k + 1 \in 1 .. m /\ 1 .. k + 2 = (1 .. k + 1) \cup {k + 2}
    BY <1>3
  <2>2. f[k + 2] = f[k + 1] \o segs[k + 2] BY <1>1, <2>1
  <2>3. f[k + 1] \in Seq(T) /\ segs[k + 2] \in Seq(T) BY <1>1, <2>1
  <2>4. Range(f[k + 2]) = Range(f[k + 1]) \cup Range(segs[k + 2]) BY <2>2, <2>3, JoinRange
  <2>5. Exact(k + 1)
    <3> HIDE DEF Exact
    <3> QED BY <1>3
  <2>6. Exact(k + 2) BY <2>1, <2>4, <2>5
  <2> HIDE DEF Exact
  <2> QED BY <2>1, <2>6
<1>4. Exact(m)
  <2>1. m - 1 \in Nat /\ m - 1 < m /\ (m - 1) + 1 = m OBVIOUS
  <2> HIDE DEF Good
  <2>2. \A k \in 0 .. m - 1 : k \in Good BY <1>2, <1>3, <2>1, UpTo
  <2>3. m - 1 \in Good BY <2>1, <2>2
  <2> HIDE DEF Exact
  <2> QED BY <2>1, <2>3 DEF Good
<1>5. FlattenSeq(segs) \in Seq(T) BY <1>1
<1> QED BY <1>1, <1>4, <1>5

\* A relation that holds within every part, and from the elements of a part to
\* those of the later ones, holds within the flattened sequence.
LEMMA FlattenPairwise ==
  ASSUME NEW T, NEW m \in Nat \ {0}, NEW segs \in [1 .. m -> Seq(T)], NEW R,
         \A i \in 1 .. m : Pairwise(segs[i], R),
         \A i, j \in 1 .. m : i < j =>
           \A u \in Range(segs[i]), v \in Range(segs[j]) : <<u, v>> \in R
  PROVE  Pairwise(FlattenSeq(segs), R)
<1>0. PICK f : Joins(f, segs, m, T) /\ FlattenSeq(segs) = f[m] BY FlattenByParts
<1>1. /\ \A k \in 1 .. m : f[k] \in Seq(T)
      /\ f[1] = segs[1]
      /\ \A k \in 1 .. m : k # 1 => f[k] = f[k - 1] \o segs[k]
      /\ FlattenSeq(segs) = f[m]
  BY <1>0 DEF Joins
<1> DEFINE Exact(k) == \A v : v \in Range(f[k]) <=> \E i \in 1 .. k : v \in Range(segs[i])
           Good == {k \in Nat : k < m => Exact(k + 1) /\ Pairwise(f[k + 1], R)}
<1>2. 0 \in Good
  <2>1. 1 .. 1 = {1} /\ 0 + 1 = 1 OBVIOUS
  <2>2. Exact(1) BY <1>1, <2>1
  <2>3. Pairwise(f[1], R) BY <1>1
  <2> HIDE DEF Exact
  <2> QED BY <2>1, <2>2, <2>3
<1>3. ASSUME NEW k \in Nat, k < m - 1, k \in Good PROVE k + 1 \in Good
  <2>1. /\ k + 2 \in 1 .. m /\ k + 2 # 1 /\ (k + 2) - 1 = k + 1 /\ (k + 1) + 1 = k + 2
        /\ k + 1 \in 1 .. m /\ 1 .. k + 2 = (1 .. k + 1) \cup {k + 2}
        /\ \A i \in 1 .. k + 1 : i < k + 2 /\ i \in 1 .. m
    BY <1>3
  <2>2. f[k + 2] = f[k + 1] \o segs[k + 2] BY <1>1, <2>1
  <2>3. f[k + 1] \in Seq(T) /\ segs[k + 2] \in Seq(T) BY <1>1, <2>1
  <2>4. Range(f[k + 2]) = Range(f[k + 1]) \cup Range(segs[k + 2]) BY <2>2, <2>3, JoinRange
  <2>5. Exact(k + 1) /\ Pairwise(f[k + 1], R)
    <3> HIDE DEF Exact
    <3> QED BY <1>3
  <2>6. Exact(k + 2) BY <2>1, <2>4, <2>5
  <2>7. \A u \in Range(f[k + 1]), v \in Range(segs[k + 2]) : <<u, v>> \in R BY <2>1, <2>5
  <2>8. Pairwise(f[k + 2], R) BY <2>1, <2>2, <2>3, <2>5, <2>7, JoinPairwise
  <2> HIDE DEF Exact
  <2> QED BY <2>1, <2>6, <2>8
<1>4. Pairwise(f[m], R)
  <2>1. m - 1 \in Nat /\ m - 1 < m /\ (m - 1) + 1 = m OBVIOUS
  <2> HIDE DEF Good
  <2>2. \A k \in 0 .. m - 1 : k \in Good BY <1>2, <1>3, <2>1, UpTo
  <2>3. m - 1 \in Good BY <2>1, <2>2
  <2> HIDE DEF Exact
  <2> QED BY <2>1, <2>3 DEF Good
<1> QED BY <1>1, <1>4

-----------------------------------------------------------------------------
(* The chunks of a subproblem's tokens. *)

\* The segments hold the tokens of the subproblem, every one of them.
LEMMA SegmentsCover ==
  ASSUME NEW T, NEW ids \in Seq(T), NEW al \in Nat \ {0}
  PROVE  /\ \A k \in Chunk : Range(Segment(ids, al, k)) \subseteq Range(ids)
         /\ \A a \in Range(ids) : \E k \in Chunk : a \in Range(Segment(ids, al, k))
<1>1. Len(ids) \in Nat /\ DOMAIN ids = 1 .. Len(ids) BY LenProperties
<1>2. ASSUME NEW k \in Chunk, NEW a \in Range(Segment(ids, al, k)) PROVE a \in Range(ids)
  <2>1. PICK first \in Nat : Placed(Segment(ids, al, k), ids, al, k, first) BY SegmentIs
  <2>2. PICK seg : seg = Segment(ids, al, k) OBVIOUS
  <2>3. PICK i \in DOMAIN seg : a = seg[i] BY <1>2, <2>2 DEF Range
  <2>4. first + i \in DOMAIN ids /\ seg[i] = ids[first + i] BY <2>1, <2>2, <2>3 DEF Placed
  <2> QED BY <2>3, <2>4 DEF Range
<1>3. ASSUME NEW a \in Range(ids) PROVE \E k \in Chunk : a \in Range(Segment(ids, al, k))
  <2>1. PICK x \in DOMAIN ids : a = ids[x] BY <1>3 DEF Range
  <2>2. PICK k \in Chunk : InChunk(Len(ids), al, x, k) BY <1>1, OneChunk
  <2>3. PICK first \in Nat : Placed(Segment(ids, al, k), ids, al, k, first) BY SegmentIs
  <2>4. PICK seg : seg = Segment(ids, al, k) OBVIOUS
  <2>5. x - first \in DOMAIN seg BY <2>2, <2>3, <2>4 DEF Placed
  <2>6. seg[x - first] = ids[first + (x - first)] BY <2>3, <2>4, <2>5 DEF Placed
  <2>7. first + (x - first) = x BY <1>1
  <2>8. a = seg[x - first] BY <2>1, <2>6, <2>7
  <2>9. a \in Range(seg) BY <2>5, <2>8 DEF Range
  <2> QED BY <2>4, <2>9
<1> QED BY <1>2, <1>3

\* A relation between every token and the later ones holds within a segment,
\* and from the tokens of a chunk to those of a later chunk.
LEMMA SegmentsPairwise ==
  ASSUME NEW T, NEW ids \in Seq(T), NEW al \in Nat \ {0}, NEW R, Pairwise(ids, R)
  PROVE  /\ \A k \in Chunk : Pairwise(Segment(ids, al, k), R)
         /\ \A j, k \in Chunk : j < k =>
              \A u \in Range(Segment(ids, al, j)), v \in Range(Segment(ids, al, k)) : <<u, v>> \in R
<1>0. c \in Nat \ {0} /\ Chunk = 0 .. c - 1 BY ChunksAre
<1>1. PICK len \in Nat : len = Len(ids) /\ DOMAIN ids = 1 .. len BY LenProperties
<1>2. ASSUME NEW k \in Chunk PROVE Pairwise(Segment(ids, al, k), R)
  <2>1. PICK first \in Nat : Placed(Segment(ids, al, k), ids, al, k, first) BY SegmentIs
  <2>2. PICK seg : seg = Segment(ids, al, k) OBVIOUS
  <2>3. ASSUME NEW x \in DOMAIN seg, NEW y \in DOMAIN seg, x < y PROVE <<seg[x], seg[y]>> \in R
    <3>1. /\ x \in Nat /\ y \in Nat /\ first + x \in DOMAIN ids /\ first + y \in DOMAIN ids
          /\ seg[x] = ids[first + x] /\ seg[y] = ids[first + y]
      BY <2>1, <2>2 DEF Placed
    <3>2. first + x < first + y BY <3>1, <2>3
    <3>3. <<ids[first + x], ids[first + y]>> \in R BY <3>1, <3>2 DEF Pairwise
    <3> QED BY <3>1, <3>3
  <2> QED BY <2>2, <2>3 DEF Pairwise
<1>3. ASSUME NEW j \in Chunk, NEW k \in Chunk, j < k,
             NEW u \in Range(Segment(ids, al, j)), NEW v \in Range(Segment(ids, al, k))
      PROVE  <<u, v>> \in R
  <2>1. PICK x \in DOMAIN ids : u = ids[x] /\ InChunk(len, al, x, j)
    <3>1. PICK first \in Nat : Placed(Segment(ids, al, j), ids, al, j, first) BY SegmentIs
    <3>2. PICK seg : seg = Segment(ids, al, j) OBVIOUS
    <3>3. PICK i \in DOMAIN seg : u = seg[i] BY <3>2, <1>3 DEF Range
    <3>4. /\ first + i \in DOMAIN ids /\ seg[i] = ids[first + i]
          /\ InChunk(Len(ids), al, first + i, j)
      BY <3>1, <3>2, <3>3 DEF Placed
    <3> QED BY <1>1, <3>3, <3>4
  <2>2. PICK y \in DOMAIN ids : v = ids[y] /\ InChunk(len, al, y, k)
    <3>1. PICK first \in Nat : Placed(Segment(ids, al, k), ids, al, k, first) BY SegmentIs
    <3>2. PICK seg : seg = Segment(ids, al, k) OBVIOUS
    <3>3. PICK i \in DOMAIN seg : v = seg[i] BY <3>2, <1>3 DEF Range
    <3>4. /\ first + i \in DOMAIN ids /\ seg[i] = ids[first + i]
          /\ InChunk(Len(ids), al, first + i, k)
      BY <3>1, <3>2, <3>3 DEF Placed
    <3> QED BY <1>1, <3>3, <3>4
  <2>3. x < y
    <3>1. ChunkStart(len, al)[j] + ChunkSize(len, al)[j] <= ChunkStart(len, al)[k]
      BY <1>3, ChunksAscend
    <3>2. PICK sj \in Nat, zj \in Nat, sk \in Nat :
            /\ sj = ChunkStart(len, al)[j] /\ zj = ChunkSize(len, al)[j]
            /\ sk = ChunkStart(len, al)[k]
      <4>1. PICK start, size : /\ start = ChunkStart(len, al) /\ size = ChunkSize(len, al)
                               /\ Layout(len, start, size)
        BY LayoutIs
      <4>2. start \in [Chunk -> Nat] /\ size \in [Chunk -> Nat] BY <4>1 DEF Layout
      <4>3. start[j] \in Nat /\ size[j] \in Nat /\ start[k] \in Nat BY <4>2
      <4> QED BY <4>1, <4>3
    <3>3. x <= sj + zj /\ sk < y BY <2>1, <2>2, <3>2 DEF InChunk
    <3>4. x \in Nat /\ y \in Nat BY <1>1, <2>1, <2>2
    <3>5. sj + zj <= sk BY <3>1, <3>2
    <3> QED BY <3>3, <3>4, <3>5
  <2> QED BY <2>1, <2>2, <2>3 DEF Pairwise
<1> QED BY <1>2, <1>3

\* Two tokens are different.
Apart == {p \in Nat \X Nat : p[1] # p[2]}

\* The two relations, by their elements.
LEMMA PairsAre ==
  ASSUME NEW u, NEW v
  PROVE  /\ <<u, v>> \in Apart <=> u \in Nat /\ v \in Nat /\ u # v
         /\ <<u, v>> \in Before <=> u \in Nat /\ v \in Nat /\ u < v
<1>1. <<u, v>>[1] = u /\ <<u, v>>[2] = v OBVIOUS
<1>2. <<u, v>> \in Nat \X Nat <=> u \in Nat /\ v \in Nat OBVIOUS
<1>3. <<u, v>> \in Apart <=> u \in Nat /\ v \in Nat /\ u # v BY <1>1, <1>2 DEF Apart
<1>4. <<u, v>> \in Before <=> u \in Nat /\ v \in Nat /\ u < v BY <1>1, <1>2 DEF Before
<1> QED BY <1>3, <1>4

\* A sequence of numbers is injective when its elements are pairwise different.
LEMMA InjectiveIsApart ==
  ASSUME NEW T \in SUBSET Nat, NEW s \in Seq(T)
  PROVE  IsInjective(s) <=> Pairwise(s, Apart)
<1>1. PICK l \in Nat : DOMAIN s = 1 .. l /\ \A x \in 1 .. l : s[x] \in Nat
  <2>1. DOMAIN s = 1 .. Len(s) /\ Len(s) \in Nat /\ s \in [1 .. Len(s) -> T] BY LenProperties
  <2>2. \A x \in 1 .. Len(s) : s[x] \in Nat BY <2>1
  <2> QED BY <2>1, <2>2
<1>2. ASSUME IsInjective(s), NEW x \in 1 .. l, NEW y \in 1 .. l, x < y PROVE <<s[x], s[y]>> \in Apart
  <2>1. s[x] # s[y] BY <1>1, <1>2 DEF IsInjective
  <2> QED BY <2>1, <1>1, PairsAre
<1>3. ASSUME Pairwise(s, Apart), NEW x \in 1 .. l, NEW y \in 1 .. l, s[x] = s[y] PROVE x = y
  <2>1. ~ (x < y)
    <3> SUFFICES ASSUME x < y PROVE FALSE OBVIOUS
    <3>1. <<s[x], s[y]>> \in Apart BY <1>1, <1>3 DEF Pairwise
    <3> QED BY <3>1, <1>3, PairsAre
  <2>2. ~ (y < x)
    <3> SUFFICES ASSUME y < x PROVE FALSE OBVIOUS
    <3>1. <<s[y], s[x]>> \in Apart BY <1>1, <1>3 DEF Pairwise
    <3> QED BY <3>1, <1>3, PairsAre
  <2> QED BY <2>1, <2>2
<1> QED BY <1>1, <1>2, <1>3 DEF IsInjective, Pairwise

\* A token is in one chunk only.
LEMMA SegmentsApart ==
  ASSUME NEW T, NEW ids \in Seq(T), Pairwise(ids, Apart), NEW al \in Nat \ {0},
         NEW j \in Chunk, NEW k \in Chunk, NEW a,
         a \in Range(Segment(ids, al, j)), a \in Range(Segment(ids, al, k))
  PROVE  j = k
<1>1. \A i, l \in Chunk : i < l =>
        \A u \in Range(Segment(ids, al, i)), v \in Range(Segment(ids, al, l)) : <<u, v>> \in Apart
  BY SegmentsPairwise
<1>2. j < k => <<a, a>> \in Apart BY <1>1
<1>3. k < j => <<a, a>> \in Apart BY <1>1
<1>4. ~ (<<a, a>> \in Apart) BY PairsAre
<1> QED BY <1>2, <1>3, <1>4, ChunksAre

-----------------------------------------------------------------------------
(* One level of the decomposition (Child). *)

\* The tokens of a child are those of the chunks its owner gathers, each once,
\* and in increasing order if they were and the gather is sorted.
LEMMA ChildIds ==
  ASSUME NEW T \in SUBSET Nat, NEW t, t.ids \in Seq(T), Pairwise(t.ids, Apart),
         NEW al \in Nat \ {0}, NEW o \in Chunk, NEW srt \in BOOLEAN
  PROVE  /\ Child(t, o, srt, al).ids \in Seq(T)
         /\ \A a : a \in Range(Child(t, o, srt, al).ids) <=>
                     \E k \in Chunk : Gathers(o, k) /\ a \in Range(Segment(t.ids, al, k))
         /\ Pairwise(Child(t, o, srt, al).ids, Apart)
         /\ srt /\ Pairwise(t.ids, Before) => Pairwise(Child(t, o, srt, al).ids, Before)
<1>1. PICK m \in Nat \ {0} :
        /\ GatherOrder(o, srt) \in [1 .. m -> Chunk]
        /\ \A i, j \in 1 .. m : GatherOrder(o, srt)[i] = GatherOrder(o, srt)[j] => i = j
        /\ srt => \A i, j \in 1 .. m : i < j => GatherOrder(o, srt)[i] < GatherOrder(o, srt)[j]
        /\ \A k : (\E i \in 1 .. m : GatherOrder(o, srt)[i] = k) <=> Gathers(o, k)
  BY GatherOrderIs
<1>2. PICK order : order = GatherOrder(o, srt) OBVIOUS
<1>3. /\ \A i \in 1 .. m : order[i] \in Chunk
      /\ DOMAIN order = 1 .. m
      /\ \A i, j \in 1 .. m : order[i] = order[j] => i = j
      /\ srt => \A i, j \in 1 .. m : i < j => order[i] < order[j]
      /\ \A k : (\E i \in 1 .. m : order[i] = k) <=> Gathers(o, k)
  BY <1>1, <1>2
<1>4. PICK ids \in Seq(T) : ids = t.ids OBVIOUS
<1> DEFINE segs == [i \in 1 .. m |-> Segment(ids, al, order[i])]
<1>5. Child(t, o, srt, al).ids = FlattenSeq(segs)
  <2>1. Child(t, o, srt, al).ids = FlattenSeq([i \in DOMAIN order |-> Segment(ids, al, order[i])])
    BY <1>2, <1>4 DEF Child
  <2> QED BY <2>1, <1>3
<1>6. segs \in [1 .. m -> Seq(T)] BY <1>3, SegmentIs
<1>7. \A i \in 1 .. m : segs[i] = Segment(ids, al, order[i]) OBVIOUS
<1> HIDE DEF segs
<1>8. /\ FlattenSeq(segs) \in Seq(T)
      /\ \A v : v \in Range(FlattenSeq(segs)) <=> \E i \in 1 .. m : v \in Range(segs[i])
  BY <1>6, FlattenRange
<1>9. \A a : a \in Range(FlattenSeq(segs)) <=>
               \E k \in Chunk : Gathers(o, k) /\ a \in Range(Segment(ids, al, k))
  <2>1. ASSUME NEW a, NEW i \in 1 .. m, a \in Range(segs[i])
        PROVE  \E k \in Chunk : Gathers(o, k) /\ a \in Range(Segment(ids, al, k))
    BY <2>1, <1>3, <1>7
  <2>2. ASSUME NEW a, NEW k \in Chunk, Gathers(o, k), a \in Range(Segment(ids, al, k))
        PROVE  \E i \in 1 .. m : a \in Range(segs[i])
    <3>1. PICK i \in 1 .. m : order[i] = k BY <2>2, <1>3
    <3> QED BY <2>2, <3>1, <1>7
  <2> QED BY <1>8, <2>1, <2>2
<1>10. Pairwise(FlattenSeq(segs), Apart)
  <2>1. \A i \in 1 .. m : Pairwise(segs[i], Apart) BY <1>3, <1>4, <1>7, SegmentsPairwise
  <2>2. ASSUME NEW i \in 1 .. m, NEW j \in 1 .. m, i < j,
               NEW u \in Range(segs[i]), NEW v \in Range(segs[j])
        PROVE  <<u, v>> \in Apart
    <3>1. order[i] \in Chunk /\ order[j] \in Chunk /\ order[i] # order[j] BY <2>2, <1>3
    <3>2. u \in Range(Segment(ids, al, order[i])) /\ v \in Range(Segment(ids, al, order[j]))
      BY <2>2, <1>7
    <3>3. \A l, k \in Chunk : l < k =>
            \A y \in Range(Segment(ids, al, l)), z \in Range(Segment(ids, al, k)) : <<y, z>> \in Apart
      BY <1>4, SegmentsPairwise
    <3>4. order[i] < order[j] => <<u, v>> \in Apart BY <3>1, <3>2, <3>3
    <3>5. order[j] < order[i] => <<v, u>> \in Apart BY <3>1, <3>2, <3>3
    <3>6. <<v, u>> \in Apart => <<u, v>> \in Apart BY PairsAre
    <3> QED BY <3>1, <3>4, <3>5, <3>6, ChunksAre
  <2> QED BY <2>1, <2>2, <1>6, FlattenPairwise
<1>11. ASSUME srt, Pairwise(t.ids, Before) PROVE Pairwise(FlattenSeq(segs), Before)
  <2>1. \A i \in 1 .. m : Pairwise(segs[i], Before) BY <1>3, <1>4, <1>7, <1>11, SegmentsPairwise
  <2>2. ASSUME NEW i \in 1 .. m, NEW j \in 1 .. m, i < j,
               NEW u \in Range(segs[i]), NEW v \in Range(segs[j])
        PROVE  <<u, v>> \in Before
    <3>1. order[i] \in Chunk /\ order[j] \in Chunk /\ order[i] < order[j] BY <2>2, <1>3, <1>11
    <3>2. u \in Range(Segment(ids, al, order[i])) /\ v \in Range(Segment(ids, al, order[j]))
      BY <2>2, <1>7
    <3>3. \A l, k \in Chunk : l < k =>
            \A y \in Range(Segment(ids, al, l)), z \in Range(Segment(ids, al, k)) : <<y, z>> \in Before
      BY <1>4, <1>11, SegmentsPairwise
    <3> QED BY <3>1, <3>2, <3>3
  <2> QED BY <2>1, <2>2, <1>6, FlattenPairwise
<1> QED BY <1>4, <1>5, <1>8, <1>9, <1>10, <1>11

\* The groups of kid are those of t, as far as kid gathers them, and the chunks
\* of t that o gathers from the other owners.
GroupsFrom(kid, t, o, al) ==
  \A g : g \in kid.groups <=>
    /\ g # {}
    /\ \/ \E h \in t.groups : g = h \cap Range(kid.ids)
       \/ \E k \in Chunk : Gathers(o, k) /\ k # o /\ g = Range(Segment(t.ids, al, k))

\* The groups of a child: the parent's, as far as they are gathered, and the
\* gathered chunks of the other owners.
LEMMA ChildGroups ==
  ASSUME NEW t, NEW al, NEW o \in Chunk, NEW srt \in BOOLEAN
  PROVE  GroupsFrom(Child(t, o, srt, al), t, o, al)
<1>1. PICK m \in Nat \ {0} :
        /\ GatherOrder(o, srt) \in [1 .. m -> Chunk]
        /\ \A i, j \in 1 .. m : GatherOrder(o, srt)[i] = GatherOrder(o, srt)[j] => i = j
        /\ srt => \A i, j \in 1 .. m : i < j => GatherOrder(o, srt)[i] < GatherOrder(o, srt)[j]
        /\ \A k : (\E i \in 1 .. m : GatherOrder(o, srt)[i] = k) <=> Gathers(o, k)
  BY GatherOrderIs
<1>2. PICK order : order = GatherOrder(o, srt) OBVIOUS
<1>3. /\ \A i \in 1 .. m : order[i] \in Chunk
      /\ DOMAIN order = 1 .. m
      /\ \A k : (\E i \in 1 .. m : order[i] = k) <=> Gathers(o, k)
  BY <1>1, <1>2
<1> DEFINE segs == [i \in 1 .. m |-> Segment(t.ids, al, order[i])]
           foreign == {Range(segs[i]) : i \in NonSelf(order, o)}
           earlier == Inherited(t.groups, Range(Child(t, o, srt, al).ids))
<1>4. Child(t, o, srt, al).groups = (earlier \cup foreign) \ {{}}
  BY <1>2, <1>3 DEF Child
<1>5. \A g : g \in foreign <=>
               \E k \in Chunk : Gathers(o, k) /\ k # o /\ g = Range(Segment(t.ids, al, k))
  <2>1. \A g : g \in foreign <=>
                 \E i \in 1 .. m : order[i] # o /\ g = Range(Segment(t.ids, al, order[i]))
    BY <1>3 DEF NonSelf
  <2>2. \A g : (\E i \in 1 .. m : order[i] # o /\ g = Range(Segment(t.ids, al, order[i]))) <=>
               (\E k \in Chunk : Gathers(o, k) /\ k # o /\ g = Range(Segment(t.ids, al, k)))
    BY <1>3
  <2> QED BY <2>1, <2>2
<1>6. \A g : g \in earlier <=> \E h \in t.groups : g = h \cap Range(Child(t, o, srt, al).ids)
  BY DEF Inherited
<1> HIDE DEF foreign, earlier
<1> QED BY <1>4, <1>5, <1>6 DEF GroupsFrom

\* A child masks what its parent masks, and the pairs within a chunk it gathers
\* that is not its own.
LEMMA ChildMasks ==
  ASSUME NEW T \in SUBSET Nat, NEW t, t.ids \in Seq(T), Pairwise(t.ids, Apart),
         NEW al \in Nat \ {0}, NEW o \in Chunk, NEW srt \in BOOLEAN,
         NEW x \in Range(Child(t, o, srt, al).ids), NEW y \in Range(Child(t, o, srt, al).ids)
  PROVE  Masked(Child(t, o, srt, al), x, y) <=>
           \/ Masked(t, x, y)
           \/ \E k \in Chunk : /\ Gathers(o, k) /\ k # o
                               /\ x \in Range(Segment(t.ids, al, k))
                               /\ y \in Range(Segment(t.ids, al, k))
<1>1. PICK kid : kid = Child(t, o, srt, al) OBVIOUS
<1>2. PICK seg : seg = [k \in Chunk |-> Segment(t.ids, al, k)] OBVIOUS
<1>3. \A k \in Chunk : seg[k] = Segment(t.ids, al, k) BY <1>2
<1>4. \A g : g \in kid.groups <=>
        /\ g # {}
        /\ \/ \E h \in t.groups : g = h \cap Range(kid.ids)
           \/ \E k \in Chunk : Gathers(o, k) /\ k # o /\ g = Range(seg[k])
  <2>1. GroupsFrom(kid, t, o, al) BY <1>1, ChildGroups
  <2> QED BY <2>1, <1>3 DEF GroupsFrom
<1>5. x \in Range(kid.ids) /\ y \in Range(kid.ids) BY <1>1
<1>6. ASSUME NEW g \in kid.groups, x \in g, y \in g
      PROVE  Masked(t, x, y) \/ \E k \in Chunk : Gathers(o, k) /\ k # o /\ x \in Range(seg[k]) /\ y \in Range(seg[k])
  <2>1. CASE \E h \in t.groups : g = h \cap Range(kid.ids) BY <1>6, <2>1 DEF Masked
  <2>2. CASE \E k \in Chunk : Gathers(o, k) /\ k # o /\ g = Range(seg[k]) BY <1>6, <2>2
  <2> QED BY <1>4, <2>1, <2>2
<1>7. ASSUME NEW h \in t.groups, x \in h, y \in h PROVE Masked(kid, x, y)
  <2>1. h \cap Range(kid.ids) \in kid.groups BY <1>4, <1>5, <1>7
  <2> QED BY <2>1, <1>5, <1>7 DEF Masked
<1>8. ASSUME NEW k \in Chunk, Gathers(o, k), k # o, x \in Range(seg[k]), y \in Range(seg[k])
      PROVE  Masked(kid, x, y)
  <2>1. Range(seg[k]) \in kid.groups BY <1>4, <1>8
  <2> QED BY <2>1, <1>8 DEF Masked
<1>9. Masked(kid, x, y) <=>
        Masked(t, x, y) \/ \E k \in Chunk : Gathers(o, k) /\ k # o /\ x \in Range(seg[k]) /\ y \in Range(seg[k])
  BY <1>6, <1>7, <1>8 DEF Masked
<1> QED BY <1>1, <1>3, <1>9

\* The pairs of chunks that the subsequence of an owner keeps: two of the chunks
\* it gathers, or its own with itself.
KeepsChunks(o, j, k) == Gathers(o, j) /\ Gathers(o, k) /\ (j = k => j = o)

\* A child keeps exactly those pairs of its parent whose chunks it keeps.
LEMMA ChildKept ==
  ASSUME NEW T \in SUBSET Nat, NEW t, t.ids \in Seq(T), Pairwise(t.ids, Apart),
         NEW al \in Nat \ {0}, NEW o \in Chunk, NEW srt \in BOOLEAN, NEW causal \in BOOLEAN, NEW p
  PROVE  p \in Kept(Child(t, o, srt, al), causal) <=>
           /\ p \in Kept(t, causal)
           /\ \E j, k \in Chunk : /\ p[1] \in Range(Segment(t.ids, al, j))
                                  /\ p[2] \in Range(Segment(t.ids, al, k))
                                  /\ KeepsChunks(o, j, k)
<1>1. PICK kid : kid = Child(t, o, srt, al) OBVIOUS
<1>2. PICK seg : seg = [k \in Chunk |-> Segment(t.ids, al, k)] OBVIOUS
<1>3. \A k \in Chunk : seg[k] = Segment(t.ids, al, k) BY <1>2
<1>4. \A a : a \in Range(kid.ids) <=> \E k \in Chunk : Gathers(o, k) /\ a \in Range(seg[k])
  <2>1. \A a : a \in Range(Child(t, o, srt, al).ids) <=>
                 \E k \in Chunk : Gathers(o, k) /\ a \in Range(Segment(t.ids, al, k))
    BY ChildIds
  <2> QED BY <2>1, <1>1, <1>3
<1>5. \A k \in Chunk : Range(seg[k]) \subseteq Range(t.ids) BY <1>3, SegmentsCover
<1>6. \A a, j, k : j \in Chunk /\ k \in Chunk /\ a \in Range(seg[j]) /\ a \in Range(seg[k]) => j = k
  BY <1>3, SegmentsApart
<1>7. ASSUME NEW x \in Range(kid.ids), NEW y \in Range(kid.ids)
      PROVE  Masked(kid, x, y) <=>
               Masked(t, x, y) \/ \E k \in Chunk : Gathers(o, k) /\ k # o /\ x \in Range(seg[k]) /\ y \in Range(seg[k])
  <2>1. x \in Range(Child(t, o, srt, al).ids) /\ y \in Range(Child(t, o, srt, al).ids) BY <1>1
  <2>2. Masked(Child(t, o, srt, al), x, y) <=>
          \/ Masked(t, x, y)
          \/ \E k \in Chunk : /\ Gathers(o, k) /\ k # o
                              /\ x \in Range(Segment(t.ids, al, k))
                              /\ y \in Range(Segment(t.ids, al, k))
    BY <2>1, ChildMasks
  <2> QED BY <2>2, <1>1, <1>3
<1>8. ASSUME p \in Kept(kid, causal)
      PROVE  /\ p \in Kept(t, causal)
             /\ \E j, k \in Chunk : p[1] \in Range(seg[j]) /\ p[2] \in Range(seg[k]) /\ KeepsChunks(o, j, k)
  <2>1. /\ p \in Range(kid.ids) \X Range(kid.ids) /\ ~ Masked(kid, p[1], p[2])
        /\ causal => p[2] <= p[1]
    BY <1>8 DEF Kept
  <2>2. PICK j \in Chunk : Gathers(o, j) /\ p[1] \in Range(seg[j]) BY <1>4, <2>1
  <2>3. PICK k \in Chunk : Gathers(o, k) /\ p[2] \in Range(seg[k]) BY <1>4, <2>1
  <2>4. j = k => j = o BY <1>7, <2>1, <2>2, <2>3
  <2>5. ~ Masked(t, p[1], p[2]) BY <1>7, <2>1
  <2>6. p \in Range(t.ids) \X Range(t.ids) BY <1>5, <2>1, <2>2, <2>3
  <2>7. p \in Kept(t, causal) BY <2>1, <2>5, <2>6 DEF Kept
  <2> QED BY <2>2, <2>3, <2>4, <2>7 DEF KeepsChunks
<1>9. ASSUME p \in Kept(t, causal), NEW j \in Chunk, NEW k \in Chunk,
              p[1] \in Range(seg[j]), p[2] \in Range(seg[k]), KeepsChunks(o, j, k)
       PROVE  p \in Kept(kid, causal)
  <2>1. /\ p \in Range(t.ids) \X Range(t.ids) /\ ~ Masked(t, p[1], p[2])
        /\ causal => p[2] <= p[1]
    BY <1>9 DEF Kept
  <2>2. p[1] \in Range(kid.ids) /\ p[2] \in Range(kid.ids) BY <1>4, <1>9 DEF KeepsChunks
  <2>3. ASSUME NEW l \in Chunk, l # o, p[1] \in Range(seg[l]), p[2] \in Range(seg[l]) PROVE FALSE
    <3>1. l = j /\ l = k BY <1>6, <1>9, <2>3
    <3> QED BY <3>1, <2>3, <1>9 DEF KeepsChunks
  <2>4. ~ Masked(kid, p[1], p[2]) BY <1>7, <2>1, <2>2, <2>3
  <2>5. p \in Range(kid.ids) \X Range(kid.ids) BY <2>1, <2>2
  <2> QED BY <2>1, <2>4, <2>5 DEF Kept
<1> QED BY <1>1, <1>3, <1>8, <1>9

-----------------------------------------------------------------------------
(* The owner of a pair of chunks. *)

\* Every pair of chunks is kept by exactly one owner: that is what a perfect
\* difference set is for.
LEMMA OneOwner ==
  ASSUME NEW j \in Chunk, NEW k \in Chunk
  PROVE  \E o \in Chunk : /\ KeepsChunks(o, j, k)
                          /\ \A q \in Chunk : KeepsChunks(q, j, k) => q = o
<1> c \in Nat /\ c > 1 /\ Chunk = 0 .. c - 1 BY ChunksAre
<1>1. Offsets \subseteq Chunk /\ 0 \in Offsets BY PerfectDifferenceSet DEF PerfectDifferenceSet
<1>2. CASE j = k
  <2>1. (j + 0) % c = j
    <3>1. 0 \in Chunk /\ j + 0 < c OBVIOUS
    <3>2. (j + 0) % c = IF j + 0 < c THEN j + 0 ELSE j + 0 - c BY <3>1, ModSum
    <3> QED BY <3>1, <3>2
  <2>2. Gathers(j, j) BY <1>1, <2>1 DEF Gathers
  <2> QED BY <1>2, <2>2 DEF KeepsChunks
<1>3. CASE j # k
  <2> DEFINE delta == (j - k) % c
             D == {p \in Offsets \X Offsets : (p[1] - p[2]) % c = delta}
  <2>1. delta \in Chunk \ {0}
    <3>1. delta = IF j >= k THEN j - k ELSE j - k + c BY ModDifference
    <3> QED BY <1>3, <3>1
  <2>2. Cardinality(D) = 1 BY <2>1, PerfectDifferenceSet DEF PerfectDifferenceSet
  <2>3. IsFiniteSet(D)
    <3>1. IsFiniteSet(Chunk) BY FS_Interval
    <3>2. IsFiniteSet(Offsets) BY <1>1, <3>1, FS_Subset
    <3>3. IsFiniteSet(Offsets \X Offsets) BY <3>2, FS_Product
    <3> QED BY <3>3, FS_Subset
  <2> HIDE DEF D
  <2>4. PICK w : D = {w} BY <2>2, <2>3, FS_Singleton
  <2>5. PICK d \in Chunk, e \in Chunk :
          /\ d \in Offsets /\ e \in Offsets /\ w = <<d, e>> /\ (d - e) % c = delta
    <3>1. w \in Offsets \X Offsets /\ (w[1] - w[2]) % c = delta BY <2>4 DEF D
    <3>2. w = <<w[1], w[2]>> /\ w[1] \in Offsets /\ w[2] \in Offsets BY <3>1
    <3> QED BY <1>1, <3>1, <3>2
  <2>6. ASSUME NEW x \in Offsets, NEW y \in Offsets, (x - y) % c = delta PROVE x = d /\ y = e
    <3>1. <<x, y>> \in D BY <2>6 DEF D
    <3>2. <<x, y>> = <<d, e>> BY <2>4, <2>5, <3>1
    <3> QED BY <3>2
  <2> HIDE DEF delta
  <2>7. PICK o \in Chunk : (o + d) % c = j /\ (o + e) % c = k
    <3>1. (d - e) % c = IF d >= e THEN d - e ELSE d - e + c BY ModDifference
    <3>2. (j - k) % c = IF j >= k THEN j - k ELSE j - k + c BY ModDifference
    <3>3. PICK o \in Chunk : (j >= d /\ o = j - d) \/ (j < d /\ o = j - d + c)
      <4>1. CASE j >= d
        <5>1. j - d \in Chunk BY <4>1
        <5> QED BY <4>1, <5>1
      <4>2. CASE j < d
        <5>1. j - d + c \in Chunk BY <4>2
        <5> QED BY <4>2, <5>1
      <4> QED BY <4>1, <4>2
    <3>4. (o + d) % c = IF o + d < c THEN o + d ELSE o + d - c BY ModSum
    <3>5. (o + e) % c = IF o + e < c THEN o + e ELSE o + e - c BY ModSum
    <3>6. (d - e) % c = (j - k) % c BY <2>5 DEF delta
    <3>7. (o + d) % c = j BY <3>3, <3>4
    <3>8. (o + e) % c = k
      <4>1. (IF d >= e THEN d - e ELSE d - e + c) = (IF j >= k THEN j - k ELSE j - k + c)
        BY <3>1, <3>2, <3>6
      <4>2. (IF o + e < c THEN o + e ELSE o + e - c) = k BY <3>3, <4>1
      <4> QED BY <3>5, <4>2
    <3> QED BY <3>7, <3>8
  <2>8. KeepsChunks(o, j, k) BY <2>5, <2>7, <1>3 DEF KeepsChunks, Gathers
  <2>9. ASSUME NEW q \in Chunk, KeepsChunks(q, j, k) PROVE q = o
    <3>1. PICK x \in Chunk, y \in Chunk : x \in Offsets /\ y \in Offsets /\ j = (q + x) % c /\ k = (q + y) % c
      BY <1>1, <2>9 DEF KeepsChunks, Gathers
    <3>2. (x - y) % c = IF x >= y THEN x - y ELSE x - y + c BY ModDifference
    <3>3. (j - k) % c = IF j >= k THEN j - k ELSE j - k + c BY ModDifference
    <3>4. (q + x) % c = IF q + x < c THEN q + x ELSE q + x - c BY ModSum
    <3>5. (q + y) % c = IF q + y < c THEN q + y ELSE q + y - c BY ModSum
    <3>6. (x - y) % c = delta
      <4>1. /\ j = IF q + x < c THEN q + x ELSE q + x - c
            /\ k = IF q + y < c THEN q + y ELSE q + y - c
        BY <3>1, <3>4, <3>5
      <4>2. (IF x >= y THEN x - y ELSE x - y + c) = (IF j >= k THEN j - k ELSE j - k + c) BY <4>1
      <4> QED BY <3>2, <3>3, <4>2 DEF delta
    <3>7. x = d BY <2>6, <3>1, <3>6
    <3>8. (o + d) % c = IF o + d < c THEN o + d ELSE o + d - c BY ModSum
    <3>9. /\ j = IF q + d < c THEN q + d ELSE q + d - c
          /\ j = IF o + d < c THEN o + d ELSE o + d - c
      BY <2>7, <3>1, <3>4, <3>7, <3>8
    <3>10. q \in 0 .. c - 1 /\ o \in 0 .. c - 1 /\ d \in 0 .. c - 1 OBVIOUS
    <3> HIDE DEF delta
    <3> QED BY <3>9, <3>10
  <2> QED BY <2>8, <2>9
<1> QED BY <1>2, <1>3

-----------------------------------------------------------------------------
(* Subproblems of a call with len tokens. *)

\* What a subproblem is made of; TypeOK says it of the one at hand.
WellFormed(t, len, srt) ==
  /\ t.path \in Seq(Chunk)
  /\ t.ids \in Seq(0 .. len - 1) /\ Pairwise(t.ids, Apart)
  /\ srt => Pairwise(t.ids, Before)
  /\ \A g \in t.groups : g # {} /\ g \subseteq Range(t.ids)

\* Token ids are numbers.
LEMMA TokensAre == ASSUME NEW len \in Nat PROVE 0 .. len - 1 \in SUBSET Nat
OBVIOUS

\* WellFormed says of a subproblem what TypeOK says of the one at hand.
LEMMA WellFormedIs ==
  ASSUME NEW len \in Nat, NEW srt \in BOOLEAN, NEW t
  PROVE  WellFormed(t, len, srt) <=>
           /\ t.path \in Seq(Chunk)
           /\ t.ids \in Seq(0 .. len - 1)
           /\ IsInjective(t.ids)
           /\ srt => \A i, j \in DOMAIN t.ids : i < j => t.ids[i] < t.ids[j]
           /\ \A g \in t.groups : g # {} /\ g \subseteq Range(t.ids)
<1>1. PICK T : T = 0 .. len - 1 /\ T \in SUBSET Nat BY TokensAre
<1>2. ASSUME t.ids \in Seq(T)
      PROVE  /\ IsInjective(t.ids) <=> Pairwise(t.ids, Apart)
             /\ (\A i, j \in DOMAIN t.ids : i < j => t.ids[i] < t.ids[j]) <=> Pairwise(t.ids, Before)
  <2>1. PICK ids \in Seq(T) : ids = t.ids BY <1>2
  <2>2. IsInjective(ids) <=> Pairwise(ids, Apart) BY <1>1, InjectiveIsApart
  <2>3. \A i \in DOMAIN ids : ids[i] \in Nat
    <3>1. ids \in [1 .. Len(ids) -> T] BY LenProperties
    <3> QED BY <3>1, <1>1
  <2>4. (\A i, j \in DOMAIN ids : i < j => ids[i] < ids[j]) <=> Pairwise(ids, Before)
    BY <2>3, PairsAre DEF Pairwise
  <2> QED BY <2>1, <2>2, <2>4
<1> QED BY <1>1, <1>2 DEF WellFormed

\* The whole call is a subproblem.
LEMMA RootWellFormed ==
  ASSUME NEW len \in Nat, NEW srt \in BOOLEAN
  PROVE  WellFormed(Root(len), len, srt) /\ Range(Root(len).ids) = 0 .. len - 1
<1>1. PICK ids : ids = [i \in 1 .. len |-> i - 1] OBVIOUS
<1>2. Root(len).path = <<>> /\ Root(len).ids = ids /\ Root(len).groups = {} BY <1>1 DEF Root
<1>3. ids \in Seq(0 .. len - 1)
  <2>1. ids \in [1 .. len -> 0 .. len - 1] BY <1>1
  <2> QED BY <2>1, SeqDef
<1>4. ASSUME NEW x \in DOMAIN ids, NEW y \in DOMAIN ids, x < y
      PROVE  <<ids[x], ids[y]>> \in Apart /\ <<ids[x], ids[y]>> \in Before
  <2>1. x \in 1 .. len /\ y \in 1 .. len /\ ids[x] = x - 1 /\ ids[y] = y - 1 BY <1>1
  <2>2. ids[x] \in Nat /\ ids[y] \in Nat /\ ids[x] < ids[y] BY <2>1, <1>4
  <2> QED BY <2>2, PairsAre
<1>5. Range(ids) = 0 .. len - 1
  <2>1. ASSUME NEW a \in 0 .. len - 1 PROVE a \in Range(ids)
    <3>1. a + 1 \in 1 .. len /\ ids[a + 1] = a BY <1>1
    <3> QED BY <3>1, <1>1 DEF Range
  <2>2. ASSUME NEW a \in Range(ids) PROVE a \in 0 .. len - 1
    <3>1. PICK x \in 1 .. len : a = ids[x] BY <1>1, <2>2 DEF Range
    <3>2. a = x - 1 BY <1>1, <3>1
    <3> QED BY <3>2
  <2> QED BY <2>1, <2>2
<1>6. <<>> \in Seq(Chunk) OBVIOUS
<1>7. Pairwise(ids, Apart) /\ Pairwise(ids, Before) BY <1>4 DEF Pairwise
<1> QED BY <1>2, <1>3, <1>5, <1>6, <1>7 DEF WellFormed

\* A child of a subproblem is one.
LEMMA ChildWellFormed ==
  ASSUME NEW len \in Nat, NEW srt \in BOOLEAN, NEW t, WellFormed(t, len, srt),
         NEW al \in Nat \ {0}, NEW o \in Chunk
  PROVE  WellFormed(Child(t, o, srt, al), len, srt)
<1> DEFINE T == 0 .. len - 1
<1>1. T \in SUBSET Nat OBVIOUS
<1> HIDE DEF T
<1>2. /\ t.path \in Seq(Chunk) /\ t.ids \in Seq(T) /\ Pairwise(t.ids, Apart)
      /\ srt => Pairwise(t.ids, Before)
  BY DEF WellFormed, T
<1>3. PICK kid : kid = Child(t, o, srt, al) OBVIOUS
<1>4. /\ kid.ids \in Seq(T)
      /\ \A a : a \in Range(kid.ids) <=> \E k \in Chunk : Gathers(o, k) /\ a \in Range(Segment(t.ids, al, k))
      /\ Pairwise(kid.ids, Apart)
      /\ srt /\ Pairwise(t.ids, Before) => Pairwise(kid.ids, Before)
  <2>1. Child(t, o, srt, al).ids \in Seq(T) BY <1>1, <1>2, ChildIds
  <2>2. \A a : a \in Range(Child(t, o, srt, al).ids) <=>
                 \E k \in Chunk : Gathers(o, k) /\ a \in Range(Segment(t.ids, al, k))
    BY <1>1, <1>2, ChildIds
  <2>3. /\ Pairwise(Child(t, o, srt, al).ids, Apart)
        /\ srt /\ Pairwise(t.ids, Before) => Pairwise(Child(t, o, srt, al).ids, Before)
    BY <1>1, <1>2, ChildIds
  <2> QED BY <1>3, <2>1, <2>2, <2>3
<1>5. kid.path \in Seq(Chunk)
  <2>1. kid.path = Append(t.path, o) BY <1>3 DEF Child
  <2> QED BY <1>2, <2>1, AppendProperties
<1>6. ASSUME NEW g \in kid.groups PROVE g # {} /\ g \subseteq Range(kid.ids)
  <2>1. GroupsFrom(kid, t, o, al) BY <1>3, ChildGroups
  <2>2. /\ g # {}
        /\ \/ \E h \in t.groups : g = h \cap Range(kid.ids)
           \/ \E k \in Chunk : Gathers(o, k) /\ k # o /\ g = Range(Segment(t.ids, al, k))
    BY <1>6, <2>1 DEF GroupsFrom
  <2>3. CASE \E h \in t.groups : g = h \cap Range(kid.ids) BY <2>2, <2>3
  <2>4. CASE \E k \in Chunk : Gathers(o, k) /\ k # o /\ g = Range(Segment(t.ids, al, k))
    BY <2>2, <2>4, <1>4
  <2> QED BY <2>2, <2>3, <2>4
<1> QED BY <1>2, <1>3, <1>4, <1>5, <1>6 DEF WellFormed, T

\* The children of t keep p if t does, and then exactly one of them.
KeptOnce(t, srt, al, causal, p) ==
  /\ \A o \in Chunk : p \in Kept(Child(t, o, srt, al), causal) => p \in Kept(t, causal)
  /\ p \in Kept(t, causal) =>
       \E o \in Chunk : /\ p \in Kept(Child(t, o, srt, al), causal)
                        /\ \A q \in Chunk : p \in Kept(Child(t, q, srt, al), causal) => q = o

\* A pair that a subproblem keeps is kept by exactly one of its children, and
\* the children keep no other.
LEMMA OneChild ==
  ASSUME NEW len \in Nat, NEW srt \in BOOLEAN, NEW t, WellFormed(t, len, srt),
         NEW al \in Nat \ {0}, NEW causal \in BOOLEAN, NEW p
  PROVE  KeptOnce(t, srt, al, causal, p)
<1> DEFINE T == 0 .. len - 1
<1>1. T \in SUBSET Nat OBVIOUS
<1> HIDE DEF T
<1>2. t.ids \in Seq(T) /\ Pairwise(t.ids, Apart) BY DEF WellFormed, T
<1>3. PICK seg : seg = [k \in Chunk |-> Segment(t.ids, al, k)] OBVIOUS
<1>4. \A k \in Chunk : seg[k] = Segment(t.ids, al, k) BY <1>3
<1>5. \A o \in Chunk : p \in Kept(Child(t, o, srt, al), causal) <=>
        /\ p \in Kept(t, causal)
        /\ \E j, k \in Chunk : p[1] \in Range(seg[j]) /\ p[2] \in Range(seg[k]) /\ KeepsChunks(o, j, k)
  <2> SUFFICES ASSUME NEW o \in Chunk
               PROVE  p \in Kept(Child(t, o, srt, al), causal) <=>
                        /\ p \in Kept(t, causal)
                        /\ \E j, k \in Chunk : /\ p[1] \in Range(seg[j]) /\ p[2] \in Range(seg[k])
                                               /\ KeepsChunks(o, j, k)
    OBVIOUS
  <2>1. p \in Kept(Child(t, o, srt, al), causal) <=>
           /\ p \in Kept(t, causal)
           /\ \E j, k \in Chunk : /\ p[1] \in Range(Segment(t.ids, al, j))
                                  /\ p[2] \in Range(Segment(t.ids, al, k))
                                  /\ KeepsChunks(o, j, k)
    BY <1>1, <1>2, ChildKept
  <2> QED BY <2>1, <1>4
<1>6. ASSUME p \in Kept(t, causal)
      PROVE  \E o \in Chunk : /\ p \in Kept(Child(t, o, srt, al), causal)
                              /\ \A q \in Chunk : p \in Kept(Child(t, q, srt, al), causal) => q = o
  <2>1. p[1] \in Range(t.ids) /\ p[2] \in Range(t.ids) BY <1>6 DEF Kept
  <2>2. PICK j \in Chunk : p[1] \in Range(seg[j]) BY <2>1, <1>2, <1>4, SegmentsCover
  <2>3. PICK k \in Chunk : p[2] \in Range(seg[k]) BY <2>1, <1>2, <1>4, SegmentsCover
  <2>4. \A i \in Chunk : (p[1] \in Range(seg[i]) => i = j) /\ (p[2] \in Range(seg[i]) => i = k)
    BY <2>2, <2>3, <1>2, <1>4, SegmentsApart
  <2>5. PICK o \in Chunk : KeepsChunks(o, j, k) /\ \A q \in Chunk : KeepsChunks(q, j, k) => q = o
    BY OneOwner
  <2>6. p \in Kept(Child(t, o, srt, al), causal) BY <1>5, <1>6, <2>2, <2>3, <2>5
  <2>7. ASSUME NEW q \in Chunk, p \in Kept(Child(t, q, srt, al), causal) PROVE q = o
    <3>1. PICK i \in Chunk, l \in Chunk : p[1] \in Range(seg[i]) /\ p[2] \in Range(seg[l]) /\ KeepsChunks(q, i, l)
      BY <1>5, <2>7
    <3>2. i = j /\ l = k BY <2>4, <3>1
    <3> QED BY <2>5, <3>1, <3>2
  <2> QED BY <2>6, <2>7
<1> QED BY <1>5, <1>6 DEF KeptOnce

\* The m children of t are those of the owners own[1] to own[m].
OwnedBy(t, srt, al, m, own) ==
  /\ Children(t, srt, al) = [i \in 1 .. m |-> Child(t, own[i], srt, al)]
  /\ \A i, j \in 1 .. m : own[i] = own[j] => i = j
  /\ \A o \in Chunk : (\E i \in 1 .. m : own[i] = o) <=> Child(t, o, srt, al).ids # <<>>

\* refine_task returns the child of every owner that gathers anything, each once.
LEMMA ChildrenAre ==
  ASSUME NEW t, NEW srt \in BOOLEAN, NEW al \in Nat \ {0}
  PROVE  \E m \in Nat : \E own \in [1 .. m -> Chunk] : OwnedBy(t, srt, al, m, own)
<1> c \in Nat /\ c > 1 /\ Chunk = 0 .. c - 1 BY ChunksAre
<1> DEFINE S == {o \in Chunk : Child(t, o, srt, al).ids # <<>>}
<1>1. S \in SUBSET Int /\ IsFiniteSet(S)
  <2>1. IsFiniteSet(Chunk) BY FS_Interval
  <2>2. S \in SUBSET Int OBVIOUS
  <2>3. S \in SUBSET Chunk OBVIOUS
  <2> HIDE DEF S
  <2> QED BY <2>1, <2>2, <2>3, FS_Subset
<1>2. \A o \in Chunk : o \in S <=> Child(t, o, srt, al).ids # <<>> OBVIOUS
<1>3. \A o \in S : o \in Chunk /\ o \in Int OBVIOUS
<1>4. Children(t, srt, al) = [i \in DOMAIN Ascending(S) |-> Child(t, Ascending(S)[i], srt, al)]
  BY DEF Children
<1> HIDE DEF S
<1>5. PICK m \in Nat :
        /\ Ascending(S) \in [1 .. m -> S]
        /\ \A i, j \in 1 .. m : i < j => Ascending(S)[i] < Ascending(S)[j]
        /\ \A x \in S : \E i \in 1 .. m : Ascending(S)[i] = x
  BY <1>1, AscendingIs
<1>6. PICK own : own = Ascending(S) OBVIOUS
<1>7. /\ own \in [1 .. m -> S]
      /\ \A i, j \in 1 .. m : i < j => own[i] < own[j]
      /\ \A x \in S : \E i \in 1 .. m : own[i] = x
  BY <1>5, <1>6
<1>8. \A i \in 1 .. m : own[i] \in S /\ own[i] \in Chunk /\ own[i] \in Int BY <1>3, <1>7
<1>9. own \in [1 .. m -> Chunk]
  <2>1. own = [i \in 1 .. m |-> own[i]] BY <1>7
  <2>2. \A i \in 1 .. m : own[i] \in Chunk BY <1>8
  <2> HIDE DEF Chunk
  <2> QED BY <2>1, <2>2
<1>10. \A i, j \in 1 .. m : own[i] = own[j] => i = j
  <2> SUFFICES ASSUME NEW i \in 1 .. m, NEW j \in 1 .. m, i < j, own[i] = own[j] PROVE FALSE OBVIOUS
  <2> QED BY <1>7, <1>8
<1>11. \A o \in Chunk : (\E i \in 1 .. m : own[i] = o) <=> Child(t, o, srt, al).ids # <<>>
  BY <1>2, <1>7, <1>8
<1>12. Children(t, srt, al) = [i \in 1 .. m |-> Child(t, own[i], srt, al)] BY <1>4, <1>6, <1>7
<1>13. OwnedBy(t, srt, al, m, own) BY <1>10, <1>11, <1>12 DEF OwnedBy
<1> QED BY <1>9, <1>13

-----------------------------------------------------------------------------
(* Subproblems by their path (AtPath). *)

\* w lists the subproblems on the way down a path of k owners.
WalksDown(w, len, path, k, srt, al) ==
  \A i \in 0 .. k : w[i] = IF i = 0 THEN Root(len) ELSE Child(w[i - 1], path[i], srt, al)

\* A path is walked down level by level.
LEMMA AtPathWalks ==
  ASSUME NEW len, NEW k \in Nat, NEW path \in [1 .. k -> Chunk], NEW srt, NEW al
  PROVE  \E w : WalksDown(w, len, path, k, srt, al) /\ AtPath(len, path, srt, al) = w[k]
<1> DEFINE Is(w, j) == w = [i \in 0 .. j |-> IF i = 0 THEN Root(len) ELSE Child(w[i - 1], path[i], srt, al)]
           Have == {j \in Nat : \E w : Is(w, j)}
<1>1. 0 \in Have
  <2>1. Is([i \in 0 .. 0 |-> Root(len)], 0) OBVIOUS
  <2> HIDE DEF Is
  <2> QED BY <2>1
<1>2. ASSUME NEW j \in Nat, j < k, j \in Have PROVE j + 1 \in Have
  <2>1. PICK w : Is(w, j)
    <3> HIDE DEF Is
    <3> QED BY <1>2
  <2> DEFINE g == [i \in 0 .. j + 1 |-> IF i < j + 1 THEN w[i] ELSE Child(w[j], path[i], srt, al)]
  <2>2. \A i \in 0 .. j : w[i] = IF i = 0 THEN Root(len) ELSE Child(w[i - 1], path[i], srt, al)
    BY <2>1
  <2>3. \A i \in 0 .. j + 1 : g[i] = IF i = 0 THEN Root(len) ELSE Child(g[i - 1], path[i], srt, al)
    <3> SUFFICES ASSUME NEW i \in 0 .. j + 1
                 PROVE  g[i] = IF i = 0 THEN Root(len) ELSE Child(g[i - 1], path[i], srt, al)
      OBVIOUS
    <3>0. g[i] = IF i < j + 1 THEN w[i] ELSE Child(w[j], path[i], srt, al) OBVIOUS
    <3>1. CASE i = j + 1
      <4>1. j \in 0 .. j + 1 /\ j < j + 1 /\ i - 1 = j /\ i # 0 /\ ~ (i < j + 1) BY <3>1
      <4>2. g[j] = w[j] BY <4>1
      <4> HIDE DEF g
      <4> QED BY <3>0, <4>1, <4>2
    <3>2. CASE i # j + 1
      <4>1. i \in 0 .. j /\ i < j + 1 BY <3>2
      <4>2. i # 0 => i - 1 \in 0 .. j + 1 /\ g[i - 1] = w[i - 1] BY <3>2
      <4> HIDE DEF g
      <4> QED BY <2>2, <3>0, <4>1, <4>2
    <3> QED BY <3>1, <3>2
  <2>4. Is(g, j + 1)
    <3>1. g = [i \in 0 .. j + 1 |-> g[i]] OBVIOUS
    <3> HIDE DEF g
    <3>2. g = [i \in 0 .. j + 1 |-> IF i = 0 THEN Root(len) ELSE Child(g[i - 1], path[i], srt, al)]
      BY <2>3, <3>1
    <3> QED BY <3>2
  <2> HIDE DEF Is
  <2> QED BY <2>4
<1>3. \E w : Is(w, k)
  <2> HIDE DEF Have
  <2>1. \A j \in 0 .. k : j \in Have BY <1>1, <1>2, UpTo
  <2>2. k \in Have BY <2>1
  <2> HIDE DEF Is
  <2> QED BY <2>2 DEF Have
<1>4. Len(path) = k
  <2>1. path \in Seq(Chunk) BY SeqDef
  <2> QED BY <2>1, LenProperties
<1>5. AtPath(len, path, srt, al) = (CHOOSE w : Is(w, k))[k] BY <1>4 DEF AtPath
<1>6. PICK w : Is(w, k) /\ AtPath(len, path, srt, al) = w[k]
  <2> HIDE DEF Is
  <2> QED BY <1>3, <1>5
<1>7. WalksDown(w, len, path, k, srt, al) BY <1>6 DEF WalksDown
<1> HIDE DEF Is
<1> QED BY <1>6, <1>7

\* The empty path leads to the call, and one owner more to the owner's child.
LEMMA AtPathStep ==
  ASSUME NEW len, NEW k \in Nat, NEW path \in [1 .. k + 1 -> Chunk], NEW srt, NEW al
  PROVE  /\ [i \in 1 .. k |-> path[i]] \in [1 .. k -> Chunk]
         /\ AtPath(len, path, srt, al) =
              Child(AtPath(len, [i \in 1 .. k |-> path[i]], srt, al), path[k + 1], srt, al)
<1>1. PICK pre \in [1 .. k -> Chunk] : pre = [i \in 1 .. k |-> path[i]]
  <2>1. \A i \in 1 .. k : i \in 1 .. k + 1 OBVIOUS
  <2>2. \A i \in 1 .. k : path[i] \in Chunk BY <2>1
  <2>3. [i \in 1 .. k |-> path[i]] \in [1 .. k -> Chunk] BY <2>2
  <2> QED BY <2>3
<1>2. \A i \in 1 .. k : pre[i] = path[i] BY <1>1
<1>3. PICK v : WalksDown(v, len, pre, k, srt, al) /\ AtPath(len, pre, srt, al) = v[k]
  BY AtPathWalks
<1>4. k + 1 \in Nat OBVIOUS
<1>5. PICK w : WalksDown(w, len, path, k + 1, srt, al) /\ AtPath(len, path, srt, al) = w[k + 1]
  BY <1>4, AtPathWalks
<1> DEFINE Same == {i \in Nat : i <= k => v[i] = w[i]}
<1>6. 0 \in Same
  <2>1. 0 \in 0 .. k /\ 0 \in 0 .. k + 1 OBVIOUS
  <2> QED BY <2>1, <1>3, <1>5 DEF WalksDown
<1>7. ASSUME NEW i \in Nat, i < k, i \in Same PROVE i + 1 \in Same
  <2>1. i + 1 \in 0 .. k /\ i + 1 \in 0 .. k + 1 /\ i + 1 # 0 /\ (i + 1) - 1 = i /\ i + 1 \in 1 .. k
    BY <1>7
  <2>2. v[i + 1] = Child(v[i], pre[i + 1], srt, al) BY <2>1, <1>3 DEF WalksDown
  <2>3. w[i + 1] = Child(w[i], path[i + 1], srt, al) BY <2>1, <1>5 DEF WalksDown
  <2>4. v[i] = w[i] BY <1>7
  <2>5. v[i + 1] = w[i + 1] BY <2>1, <2>2, <2>3, <2>4, <1>2
  <2> QED BY <2>1, <2>5
<1>8. v[k] = w[k]
  <2> HIDE DEF Same
  <2>1. \A i \in 0 .. k : i \in Same BY <1>6, <1>7, UpTo
  <2>2. k \in Same BY <2>1
  <2> QED BY <2>2 DEF Same
<1>9. w[k + 1] = Child(w[k], path[k + 1], srt, al)
  <2>1. k + 1 \in 0 .. k + 1 /\ k + 1 # 0 /\ (k + 1) - 1 = k OBVIOUS
  <2> QED BY <2>1, <1>5 DEF WalksDown
<1> QED BY <1>1, <1>3, <1>5, <1>8, <1>9

\* The subproblem of the empty path is the whole call.
LEMMA AtPathRoot ==
  ASSUME NEW len, NEW path \in [1 .. 0 -> Chunk], NEW srt, NEW al
  PROVE  AtPath(len, path, srt, al) = Root(len)
<1>1. ASSUME NEW k \in Nat, NEW q \in [1 .. k -> Chunk], k = 0
      PROVE  AtPath(len, q, srt, al) = Root(len)
  <2>1. PICK w : WalksDown(w, len, q, k, srt, al) /\ AtPath(len, q, srt, al) = w[k]
    BY AtPathWalks
  <2>2. 0 \in 0 .. k BY <1>1
  <2>3. w[0] = Root(len) BY <2>1, <2>2 DEF WalksDown
  <2> QED BY <1>1, <2>1, <2>3
<1>2. 0 \in Nat /\ path \in [1 .. 0 -> Chunk] OBVIOUS
<1> QED BY <1>1, <1>2

\* Every path leads to a subproblem of the call.
LEMMA AtPathWellFormed ==
  ASSUME NEW len \in Nat, NEW srt \in BOOLEAN, NEW al \in Nat \ {0}, NEW itr \in Nat
  PROVE  \A path \in [1 .. itr -> Chunk] : WellFormed(AtPath(len, path, srt, al), len, srt)
<1> DEFINE Good == {k \in Nat : \A path \in [1 .. k -> Chunk] : WellFormed(AtPath(len, path, srt, al), len, srt)}
<1>1. 0 \in Good
  <2>1. WellFormed(Root(len), len, srt) BY RootWellFormed
  <2> QED BY <2>1, AtPathRoot
<1>2. ASSUME NEW k \in Nat, k < itr, k \in Good PROVE k + 1 \in Good
  <2>1. ASSUME NEW path \in [1 .. k + 1 -> Chunk] PROVE WellFormed(AtPath(len, path, srt, al), len, srt)
    <3>1. PICK pre : pre = [i \in 1 .. k |-> path[i]] OBVIOUS
    <3>2. /\ pre \in [1 .. k -> Chunk]
          /\ AtPath(len, path, srt, al) = Child(AtPath(len, pre, srt, al), path[k + 1], srt, al)
      BY <3>1, AtPathStep
    <3>3. PICK t : t = AtPath(len, pre, srt, al) OBVIOUS
    <3>4. WellFormed(t, len, srt) BY <1>2, <3>2, <3>3
    <3>5. path[k + 1] \in Chunk OBVIOUS
    <3>6. WellFormed(Child(t, path[k + 1], srt, al), len, srt) BY <3>4, <3>5, ChildWellFormed
    <3> QED BY <3>2, <3>3, <3>6
  <2> QED BY <2>1
<1> HIDE DEF Good
<1>3. \A k \in 0 .. itr : k \in Good BY <1>1, <1>2, UpTo
<1>4. itr \in Good BY <1>3
<1> QED BY <1>4 DEF Good

\* Of the paths as long as this one, it is the only one whose subproblem keeps p.
OnlyPath(path, len, itr, srt, al, causal, p) ==
  /\ p \in Kept(AtPath(len, path, srt, al), causal)
  /\ \A other \in [1 .. itr -> Chunk] :
       p \in Kept(AtPath(len, other, srt, al), causal) => other = path

\* Every target pair is kept at the end of exactly one path of each length.
LEMMA OnePath ==
  ASSUME NEW len \in Nat, NEW srt \in BOOLEAN, NEW al \in Nat \ {0}, NEW itr \in Nat,
         NEW causal \in BOOLEAN, NEW p \in Target(len, causal)
  PROVE  \E path \in [1 .. itr -> Chunk] : OnlyPath(path, len, itr, srt, al, causal, p)
<1> DEFINE K(path) == p \in Kept(AtPath(len, path, srt, al), causal)
           Only(path, k) == K(path) /\ \A other \in [1 .. k -> Chunk] : K(other) => other = path
           Good == {k \in Nat : \E path \in [1 .. k -> Chunk] : Only(path, k)}
<1>1. 0 \in Good
  <2>1. PICK path \in [1 .. 0 -> Chunk] : TRUE
    <3>1. [i \in 1 .. 0 |-> 0] \in [1 .. 0 -> Chunk] OBVIOUS
    <3> QED BY <3>1
  <2>2. AtPath(len, path, srt, al) = Root(len) BY AtPathRoot
  <2>3. Range(Root(len).ids) = 0 .. len - 1 /\ Root(len).groups = {} BY RootWellFormed DEF Root
  <2>4. p \in Kept(Root(len), causal) BY <2>3 DEF Kept, Masked, Target
  <2>5. K(path) BY <2>2, <2>4
  <2>6. \A other \in [1 .. 0 -> Chunk] : other = path OBVIOUS
  <2> HIDE DEF K
  <2>7. Only(path, 0) BY <2>5, <2>6
  <2> HIDE DEF Only
  <2> QED BY <2>7
<1>2. ASSUME NEW k \in Nat, k < itr, k \in Good PROVE k + 1 \in Good
  <2>1. PICK path \in [1 .. k -> Chunk] : Only(path, k)
    <3> HIDE DEF Only
    <3> QED BY <1>2
  <2>2. PICK t : t = AtPath(len, path, srt, al) OBVIOUS
  <2>3. WellFormed(t, len, srt) BY <2>2, AtPathWellFormed
  <2>4. p \in Kept(t, causal) BY <2>1, <2>2
  <2>5. KeptOnce(t, srt, al, causal, p) BY <2>3, OneChild
  <2>6. PICK o \in Chunk : /\ p \in Kept(Child(t, o, srt, al), causal)
                           /\ \A q \in Chunk : p \in Kept(Child(t, q, srt, al), causal) => q = o
    BY <2>4, <2>5 DEF KeptOnce
  <2>7. PICK next \in [1 .. k + 1 -> Chunk] : next = [i \in 1 .. k + 1 |-> IF i <= k THEN path[i] ELSE o]
    <3> DEFINE ext == [i \in 1 .. k + 1 |-> IF i <= k THEN path[i] ELSE o]
    <3>1. \A i \in 1 .. k + 1 : (IF i <= k THEN path[i] ELSE o) \in Chunk
      <4> HIDE DEF Chunk
      <4> QED OBVIOUS
    <3>2. ext \in [1 .. k + 1 -> Chunk]
      <4> HIDE DEF Chunk
      <4> QED BY <3>1
    <3> QED BY <3>2
  <2>8. path = [i \in 1 .. k |-> next[i]] /\ next[k + 1] = o
    <3>1. \A i \in 1 .. k : next[i] = path[i] BY <2>7
    <3>2. path = [i \in 1 .. k |-> path[i]] OBVIOUS
    <3>3. next[k + 1] = o BY <2>7
    <3> HIDE <2>7
    <3> QED BY <3>1, <3>2, <3>3
  <2>9. K(next)
    <3>1. AtPath(len, next, srt, al) = Child(t, o, srt, al) BY <2>2, <2>8, AtPathStep
    <3> QED BY <2>6, <3>1
  <2>10. ASSUME NEW other \in [1 .. k + 1 -> Chunk], K(other) PROVE other = next
    <3>1. PICK pre : pre = [i \in 1 .. k |-> other[i]] OBVIOUS
    <3>2. /\ pre \in [1 .. k -> Chunk]
          /\ AtPath(len, other, srt, al) = Child(AtPath(len, pre, srt, al), other[k + 1], srt, al)
      BY <3>1, AtPathStep
    <3>3. PICK u : u = AtPath(len, pre, srt, al) OBVIOUS
    <3>4. WellFormed(u, len, srt) BY <3>2, <3>3, AtPathWellFormed
    <3>5. KeptOnce(u, srt, al, causal, p) BY <3>4, OneChild
    <3>6. other[k + 1] \in Chunk OBVIOUS
    <3>7. p \in Kept(u, causal) BY <2>10, <3>2, <3>3, <3>5, <3>6 DEF KeptOnce
    <3>8. pre = path BY <2>1, <3>2, <3>3, <3>7
    <3>9. other[k + 1] = o BY <2>2, <2>6, <2>10, <3>2, <3>6, <3>8
    <3>10. \A i \in 1 .. k + 1 : other[i] = next[i]
      <4>1. \A i \in 1 .. k : other[i] = path[i] BY <3>1, <3>8
      <4>2. \A i \in 1 .. k : next[i] = path[i] BY <2>7
      <4>3. \A i \in 1 .. k + 1 : i \in 1 .. k \/ i = k + 1 OBVIOUS
      <4> QED BY <2>8, <3>9, <4>1, <4>2, <4>3
    <3> QED BY <3>10
  <2> HIDE DEF K
  <2>11. Only(next, k + 1) BY <2>9, <2>10
  <2> HIDE DEF Only
  <2> QED BY <2>11
<1> HIDE DEF Good
<1>3. \A k \in 0 .. itr : k \in Good BY <1>1, <1>2, UpTo
<1>4. itr \in Good BY <1>3
<1>5. PICK path \in [1 .. itr -> Chunk] : Only(path, itr)
  <2> HIDE DEF Only
  <2> QED BY <1>4 DEF Good
<1>6. OnlyPath(path, len, itr, srt, al, causal, p) BY <1>5 DEF OnlyPath
<1> QED BY <1>5, <1>6

-----------------------------------------------------------------------------
(* The leaves of a uniform decomposition keep every target pair once. *)

\* What PairCoverage says of the leaves of one depth.
LeavesCover(len, itr, srt, al, causal) ==
  LET leaves == Leaves(len, itr, srt, al)
  IN  /\ \A t \in leaves : Kept(t, causal) \subseteq Target(len, causal)
      /\ \A p \in Target(len, causal) : Cardinality({t \in leaves : p \in Kept(t, causal)}) = 1

\* build_tasks at a uniform depth keeps every pair of the target in exactly one leaf.
LEMMA LeavesCoverOnce ==
  ASSUME NEW len \in Nat, NEW srt \in BOOLEAN, NEW al \in Nat \ {0}, NEW itr \in Nat,
         NEW causal \in BOOLEAN
  PROVE  LeavesCover(len, itr, srt, al, causal)
<1> DEFINE leaves == Leaves(len, itr, srt, al)
<1>1. \A t : t \in leaves <=>
        /\ t.ids # <<>>
        /\ \E path \in [1 .. itr -> Chunk] : t = AtPath(len, path, srt, al)
  BY DEF Leaves
<1> HIDE DEF leaves
<1>2. ASSUME NEW t \in leaves PROVE Kept(t, causal) \subseteq Target(len, causal)
  <2>1. WellFormed(t, len, srt) BY <1>1, AtPathWellFormed
  <2>2. Range(t.ids) \subseteq 0 .. len - 1
    <3>1. PICK ids \in Seq(0 .. len - 1) : ids = t.ids BY <2>1 DEF WellFormed
    <3>2. ids \in [1 .. Len(ids) -> 0 .. len - 1] BY LenProperties
    <3>3. \A x \in DOMAIN ids : ids[x] \in 0 .. len - 1 BY <3>2
    <3> QED BY <3>1, <3>3 DEF Range
  <2>3. ASSUME NEW p \in Kept(t, causal) PROVE p \in Target(len, causal)
    <3>1. p \in Range(t.ids) \X Range(t.ids) /\ (causal => p[2] <= p[1]) BY <2>3 DEF Kept
    <3>2. p \in (0 .. len - 1) \X (0 .. len - 1) BY <2>2, <3>1
    <3> QED BY <3>1, <3>2 DEF Target
  <2> QED BY <2>3
<1>3. ASSUME NEW p \in Target(len, causal)
      PROVE  Cardinality({t \in leaves : p \in Kept(t, causal)}) = 1
  <2>0. PICK path \in [1 .. itr -> Chunk] : OnlyPath(path, len, itr, srt, al, causal, p)
    BY OnePath, SMTT(30)
  <2>1. /\ p \in Kept(AtPath(len, path, srt, al), causal)
        /\ \A other \in [1 .. itr -> Chunk] :
             p \in Kept(AtPath(len, other, srt, al), causal) => other = path
    BY <2>0 DEF OnlyPath
  <2>2. PICK leaf : leaf = AtPath(len, path, srt, al) OBVIOUS
  <2>3. leaf.ids # <<>>
    <3>1. p[1] \in Range(leaf.ids) BY <2>1, <2>2 DEF Kept
    <3> QED BY <3>1 DEF Range
  <2>4. leaf \in leaves /\ p \in Kept(leaf, causal) BY <1>1, <2>1, <2>2, <2>3
  <2>5. \A t \in leaves : p \in Kept(t, causal) => t = leaf BY <1>1, <2>1, <2>2
  <2>6. {t \in leaves : p \in Kept(t, causal)} = {leaf} BY <2>4, <2>5
  <2> QED BY <2>6, FS_Singleton
<1> QED BY <1>2, <1>3 DEF LeavesCover, leaves

-----------------------------------------------------------------------------
(* Aligned blocks (segment_block_base). *)

\* x tokens are whole blocks.
Whole(x, al) == \E m \in Nat : x = m * al

\* Within an aligned block of positions the tokens are consecutive.
Runs(ids, al) ==
  \A m \in Nat, i \in 0 .. al - 1 :
    m * al + i + 1 \in DOMAIN ids => ids[m * al + i + 1] = ids[m * al + 1] + i

\* Whole blocks, added and taken away.
LEMMA Wholes ==
  ASSUME NEW p \in Nat, NEW q \in Nat, NEW al \in Nat
  PROVE  /\ p * al \in Nat /\ (p + q) * al = p * al + q * al
         /\ p < q => p * al + al <= q * al
         /\ q <= p => p - q \in Nat /\ (p - q) * al = p * al - q * al
<1>1. p * al \in Nat /\ q * al \in Nat /\ (p + q) * al = p * al + q * al OBVIOUS
<1>2. ASSUME p < q PROVE p * al + al <= q * al
  <2>1. PICK d \in Nat : q = p + d + 1
    <3>1. q - p - 1 \in Nat /\ q = p + (q - p - 1) + 1 BY <1>2
    <3> QED BY <3>1
  <2>2. q * al = p * al + d * al + al /\ d * al \in Nat /\ d * al >= 0 BY <2>1
  <2> QED BY <2>2, <1>1
<1>3. ASSUME q <= p PROVE p - q \in Nat /\ (p - q) * al = p * al - q * al
  <2>1. p - q \in Nat BY <1>3
  <2>2. (p - q) * al = p * al - q * al OBVIOUS
  <2> QED BY <2>1, <2>2
<1> QED BY <1>1, <1>2, <1>3

\* chunk_layout lets every chunk start on a block, and all but the last end on one.
LEMMA ChunksWhole ==
  ASSUME NEW len \in Nat, NEW al \in Nat \ {0}, NEW k \in Chunk
  PROVE  /\ Whole(ChunkStart(len, al)[k], al)
         /\ k # c - 1 => Whole(ChunkSize(len, al)[k], al)
<1> c \in Nat \ {0} /\ Chunk = 0 .. c - 1 BY ChunksAre
<1>1. PICK start, size : /\ start = ChunkStart(len, al) /\ size = ChunkSize(len, al)
                         /\ Layout(len, start, size)
  BY LayoutIs
<1>2. /\ \A j \in Chunk : size[j] \in Nat /\ start[j] \in Nat
      /\ start[0] = 0 /\ \A j \in Chunk : j # 0 => start[j] = start[j - 1] + size[j - 1]
  BY <1>1 DEF Layout
<1>3. ASSUME NEW j \in Chunk, j # c - 1 PROVE Whole(size[j], al)
  <2>1. CASE al <= 1
    <3>1. al = 1 BY <2>1
    <3>2. size[j] = size[j] * al BY <1>2, <3>1
    <3> QED BY <1>2, <3>2 DEF Whole
  <2>2. CASE ~ (al <= 1)
    <3>1. size[j] = AlignedSize(len, al, j) BY <1>1, <2>2 DEF ChunkSize
    <3>2. PICK blocks \in Nat : blocks = len \div al BY Division
    <3>3. PICK q \in Nat : q = blocks \div c BY Division
    <3>4. size[j] = q * al + (IF j < blocks % c THEN al ELSE 0)
      BY <1>3, <3>1, <3>2, <3>3 DEF AlignedSize
    <3>5. size[j] = q * al \/ size[j] = (q + 1) * al
      <4>1. (q + 1) * al = q * al + al /\ q * al \in Nat OBVIOUS
      <4> QED BY <3>4, <4>1
    <3>6. q + 1 \in Nat OBVIOUS
    <3> QED BY <3>5, <3>6 DEF Whole
  <2> QED BY <2>1, <2>2
<1> DEFINE S == {j \in Nat : j <= c - 1 => Whole(start[j], al)}
<1>4. 0 \in S
  <2>1. 0 = 0 * al OBVIOUS
  <2> QED BY <2>1, <1>2 DEF Whole
<1>5. ASSUME NEW j \in Nat, j < c - 1, j \in S PROVE j + 1 \in S
  <2>1. j \in Chunk /\ j # c - 1 /\ j + 1 \in Chunk /\ j + 1 # 0 /\ (j + 1) - 1 = j BY <1>5
  <2>2. PICK p \in Nat : start[j] = p * al BY <1>5, <2>1 DEF Whole
  <2>3. PICK q \in Nat : size[j] = q * al BY <1>3, <2>1 DEF Whole
  <2>4. start[j + 1] = (p + q) * al
    <3>1. start[j + 1] = start[j] + size[j] BY <1>2, <2>1
    <3>2. (p + q) * al = p * al + q * al BY Wholes
    <3> QED BY <3>1, <3>2, <2>2, <2>3
  <2>5. p + q \in Nat OBVIOUS
  <2> QED BY <2>1, <2>4, <2>5 DEF Whole
<1>6. c - 1 \in Nat OBVIOUS
<1> HIDE DEF S
<1>7. k \in S BY <1>4, <1>5, <1>6, UpTo
<1> QED BY <1>1, <1>3, <1>7 DEF S

\* The tokens of a chunk are consecutive within its blocks if those of the
\* subproblem are.
LEMMA SegmentRuns ==
  ASSUME NEW T \in SUBSET Nat, NEW ids \in Seq(T), NEW al \in Nat \ {0}, Runs(ids, al), NEW k \in Chunk
  PROVE  Runs(Segment(ids, al, k), al) /\ (k # c - 1 => Whole(Len(Segment(ids, al, k)), al))
<1>1. PICK len \in Nat : len = Len(ids) /\ DOMAIN ids = 1 .. len BY LenProperties
<1>2. PICK start, size : /\ start = ChunkStart(len, al) /\ size = ChunkSize(len, al)
                         /\ Layout(len, start, size)
  BY LayoutIs
<1>3. PICK first \in Nat, room \in Nat : first = start[k] /\ room = size[k] BY <1>2 DEF Layout
<1>4. Whole(first, al) /\ (k # c - 1 => Whole(room, al)) BY <1>2, <1>3, ChunksWhole
<1>5. PICK q \in Nat : first = q * al BY <1>4 DEF Whole
<1>6. \A x \in Int : first < x /\ x <= first + room => x \in 1 .. len
  <2>1. \A x \in Int : InChunk(len, al, x, k) => x \in 1 .. len BY OneChunk
  <2> QED BY <2>1, <1>2, <1>3 DEF InChunk
<1>7. PICK seg : seg = SubSeq(ids, first + 1, first + room) /\ seg = Segment(ids, al, k)
  BY <1>1, <1>2, <1>3 DEF Segment
<1>8. /\ DOMAIN seg = 1 .. room /\ Len(seg) = room
      /\ \A i \in 1 .. room : first + i \in 1 .. len /\ seg[i] = ids[first + i]
  <2>1. \A i \in first + 1 .. first + room : ids[i] \in T
    <3> SUFFICES ASSUME NEW i \in first + 1 .. first + room PROVE ids[i] \in T OBVIOUS
    <3>1. i \in 1 .. len BY <1>6
    <3> QED BY <3>1, <1>1, ElementOfSeq
  <2>2. first + 1 \in Int /\ first + room \in Int OBVIOUS
  <2>3. /\ seg \in Seq(T)
        /\ Len(seg) = IF first + 1 <= first + room THEN (first + room) - (first + 1) + 1 ELSE 0
        /\ \A i \in 1 .. (first + room) - (first + 1) + 1 : seg[i] = ids[(first + 1) + i - 1]
    BY <2>1, <2>2, <1>7, SubSeqProperties
  <2>4. Len(seg) = room
    <3>1. (first + room) - (first + 1) + 1 = room OBVIOUS
    <3>2. ~ (first + 1 <= first + room) => room = 0 OBVIOUS
    <3> QED BY <2>3, <3>1, <3>2
  <2>5. DOMAIN seg = 1 .. room BY <2>3, <2>4, LenProperties
  <2>6. ASSUME NEW i \in 1 .. room PROVE first + i \in 1 .. len /\ seg[i] = ids[first + i]
    <3>1. first + i \in 1 .. len
      <4>1. first + i \in Int /\ first < first + i /\ first + i <= first + room OBVIOUS
      <4> QED BY <4>1, <1>6
    <3>2. i \in 1 .. (first + room) - (first + 1) + 1 /\ (first + 1) + i - 1 = first + i OBVIOUS
    <3> QED BY <3>1, <3>2, <2>3
  <2> QED BY <2>4, <2>5, <2>6
<1>9. Runs(seg, al)
  <2> SUFFICES ASSUME NEW m \in Nat, NEW i \in 0 .. al - 1, m * al + i + 1 \in 1 .. room
               PROVE  seg[m * al + i + 1] = seg[m * al + 1] + i
    BY <1>8 DEF Runs
  <2>1. PICK x \in Nat : x = m * al BY Wholes
  <2>2. (q + m) * al = first + x BY <1>5, <2>1, Wholes
  <2>3. x + i + 1 \in 1 .. room /\ x + 1 \in 1 .. room BY <2>1
  <2>4. /\ seg[x + i + 1] = ids[first + (x + i + 1)] /\ seg[x + 1] = ids[first + (x + 1)]
        /\ first + (x + i + 1) \in 1 .. len
    BY <2>3, <1>8
  <2>5. first + (x + i + 1) = (first + x) + i + 1 /\ first + (x + 1) = (first + x) + 1 OBVIOUS
  <2>6. ids[(first + x) + i + 1] = ids[(first + x) + 1] + i
    <3>1. q + m \in Nat OBVIOUS
    <3>2. (q + m) * al + i + 1 \in DOMAIN ids BY <2>2, <2>4, <2>5, <1>1
    <3>3. ids[(q + m) * al + i + 1] = ids[(q + m) * al + 1] + i BY <3>1, <3>2 DEF Runs
    <3> QED BY <3>3, <2>2
  <2>7. seg[x + i + 1] = seg[x + 1] + i BY <2>4, <2>5, <2>6
  <2> QED BY <2>1, <2>7
<1> QED BY <1>4, <1>7, <1>8, <1>9

\* Runs are kept when what comes first is whole blocks.
LEMMA JoinRuns ==
  ASSUME NEW T \in SUBSET Nat, NEW s1 \in Seq(T), NEW s2 \in Seq(T), NEW al \in Nat \ {0},
         Runs(s1, al), Runs(s2, al), Whole(Len(s1), al)
  PROVE  Runs(s1 \o s2, al)
<1>1. PICK l1 \in Nat, l2 \in Nat :
        /\ l1 = Len(s1) /\ l2 = Len(s2) /\ DOMAIN s1 = 1 .. l1 /\ DOMAIN s2 = 1 .. l2
  BY LenProperties
<1>2. PICK s : s = s1 \o s2 OBVIOUS
<1>3. /\ DOMAIN s = 1 .. l1 + l2
      /\ \A i \in 1 .. l1 + l2 : s[i] = IF i <= l1 THEN s1[i] ELSE s2[i - l1]
  <2>1. s \in Seq(T) /\ Len(s) = l1 + l2 BY <1>1, <1>2, ConcatProperties
  <2>2. DOMAIN s = 1 .. l1 + l2 BY <2>1, LenProperties
  <2>3. \A i \in 1 .. l1 + l2 : s[i] = IF i <= l1 THEN s1[i] ELSE s2[i - l1]
    BY <1>1, <1>2, ConcatProperties
  <2> QED BY <2>2, <2>3
<1>4. PICK q \in Nat : l1 = q * al BY <1>1 DEF Whole
<1>5. ASSUME NEW m \in Nat, NEW i \in 0 .. al - 1, m * al + i + 1 \in 1 .. l1 + l2
      PROVE  s[m * al + i + 1] = s[m * al + 1] + i
  <2>1. PICK x \in Nat : x = m * al BY Wholes
  <2>2. x + i + 1 \in 1 .. l1 + l2 /\ x + 1 \in 1 .. l1 + l2 BY <1>5, <2>1
  <2>3. CASE m < q
    <3>1. x + al <= l1 BY <2>1, <2>3, <1>4, Wholes
    <3>2. x + i + 1 <= l1 /\ x + 1 <= l1 /\ x + i + 1 \in 1 .. l1 BY <3>1, <2>2
    <3>3. s[x + i + 1] = s1[x + i + 1] /\ s[x + 1] = s1[x + 1] BY <3>2, <2>2, <1>3
    <3>4. s1[m * al + i + 1] = s1[m * al + 1] + i BY <3>2, <2>1, <1>1 DEF Runs
    <3> QED BY <3>3, <3>4, <2>1
  <2>4. CASE ~ (m < q)
    <3>1. m - q \in Nat /\ (m - q) * al = x - l1 BY <2>1, <2>4, <1>4, Wholes
    <3>2. PICK y \in Nat : y = x - l1 /\ y = (m - q) * al
      <4>1. (m - q) * al \in Nat BY <3>1, Wholes
      <4> QED BY <4>1, <3>1
    <3>3. /\ ~ (x + i + 1 <= l1) /\ ~ (x + 1 <= l1) /\ y + i + 1 \in 1 .. l2
          /\ (x + i + 1) - l1 = y + i + 1 /\ (x + 1) - l1 = y + 1
      BY <3>2, <2>2
    <3>4. s[x + i + 1] = s2[y + i + 1] /\ s[x + 1] = s2[y + 1]
      <4>1. s[x + i + 1] = s2[(x + i + 1) - l1] BY <3>3, <2>2, <1>3
      <4>2. s[x + 1] = s2[(x + 1) - l1] BY <3>3, <2>2, <1>3
      <4> QED BY <4>1, <4>2, <3>3
    <3>5. s2[(m - q) * al + i + 1] = s2[(m - q) * al + 1] + i BY <3>1, <3>2, <3>3, <1>1 DEF Runs
    <3> QED BY <3>2, <3>4, <3>5, <2>1
  <2> QED BY <2>3, <2>4
<1> QED BY <1>2, <1>3, <1>5 DEF Runs

\* Two times whole blocks are whole blocks.
LEMMA JoinWhole ==
  ASSUME NEW T, NEW s1 \in Seq(T), NEW s2 \in Seq(T), NEW al \in Nat \ {0},
         Whole(Len(s1), al), Whole(Len(s2), al)
  PROVE  Whole(Len(s1 \o s2), al)
<1>1. PICK p \in Nat : Len(s1) = p * al BY DEF Whole
<1>2. PICK q \in Nat : Len(s2) = q * al BY DEF Whole
<1>3. Len(s1 \o s2) = (p + q) * al
  <2>1. Len(s1 \o s2) = Len(s1) + Len(s2) BY ConcatProperties
  <2>2. (p + q) * al = p * al + q * al BY Wholes
  <2> QED BY <1>1, <1>2, <2>1, <2>2
<1>4. p + q \in Nat OBVIOUS
<1> QED BY <1>3, <1>4 DEF Whole

\* Runs are kept by flattening when all parts but the last are whole blocks.
LEMMA FlattenRuns ==
  ASSUME NEW T \in SUBSET Nat, NEW m \in Nat \ {0}, NEW segs \in [1 .. m -> Seq(T)],
         NEW al \in Nat \ {0}, \A i \in 1 .. m : Runs(segs[i], al),
         \A i \in 1 .. m : i # m => Whole(Len(segs[i]), al)
  PROVE  Runs(FlattenSeq(segs), al)
<1>0. PICK f : Joins(f, segs, m, T) /\ FlattenSeq(segs) = f[m] BY FlattenByParts
<1>1. /\ \A k \in 1 .. m : f[k] \in Seq(T)
      /\ f[1] = segs[1]
      /\ \A k \in 1 .. m : k # 1 => f[k] = f[k - 1] \o segs[k]
      /\ FlattenSeq(segs) = f[m]
  BY <1>0 DEF Joins
<1> DEFINE Fit(k) == Runs(f[k], al) /\ (k # m => Whole(Len(f[k]), al))
           Good == {k \in Nat : k < m => Fit(k + 1)}
<1>2. 0 \in Good
  <2>1. 0 + 1 = 1 /\ 1 \in 1 .. m OBVIOUS
  <2>2. Fit(1) BY <1>1, <2>1
  <2> HIDE DEF Fit
  <2> QED BY <2>1, <2>2
<1>3. ASSUME NEW k \in Nat, k < m - 1, k \in Good PROVE k + 1 \in Good
  <2>1. /\ k + 2 \in 1 .. m /\ k + 2 # 1 /\ (k + 2) - 1 = k + 1 /\ (k + 1) + 1 = k + 2
        /\ k + 1 \in 1 .. m /\ k + 1 # m /\ k < m
    BY <1>3
  <2>2. f[k + 2] = f[k + 1] \o segs[k + 2] BY <1>1, <2>1
  <2>3. f[k + 1] \in Seq(T) /\ segs[k + 2] \in Seq(T) BY <1>1, <2>1
  <2>4. Fit(k + 1)
    <3> HIDE DEF Fit
    <3> QED BY <1>3, <2>1
  <2>5. Runs(f[k + 2], al) BY <2>1, <2>2, <2>3, <2>4, JoinRuns
  <2>6. k + 2 # m => Whole(Len(f[k + 2]), al) BY <2>1, <2>2, <2>3, <2>4, JoinWhole
  <2>7. Fit(k + 2) BY <2>5, <2>6
  <2> HIDE DEF Fit
  <2> QED BY <2>1, <2>7
<1>4. Fit(m)
  <2>1. m - 1 \in Nat /\ m - 1 < m /\ (m - 1) + 1 = m OBVIOUS
  <2> HIDE DEF Good
  <2>2. \A k \in 0 .. m - 1 : k \in Good BY <1>2, <1>3, <2>1, UpTo
  <2>3. m - 1 \in Good BY <2>1, <2>2
  <2> HIDE DEF Fit
  <2> QED BY <2>1, <2>3 DEF Good
<1> QED BY <1>1, <1>4

\* A child with a sorted gather has its tokens in runs if its parent has.
LEMMA ChildRuns ==
  ASSUME NEW T \in SUBSET Nat, NEW t, t.ids \in Seq(T), NEW al \in Nat \ {0}, NEW o \in Chunk,
         Runs(t.ids, al)
  PROVE  Runs(Child(t, o, TRUE, al).ids, al)
<1> c \in Nat \ {0} /\ Chunk = 0 .. c - 1 BY ChunksAre
<1>0. PICK srt \in BOOLEAN : srt = TRUE OBVIOUS
<1>1. PICK m \in Nat \ {0} :
        /\ GatherOrder(o, srt) \in [1 .. m -> Chunk]
        /\ srt => \A i, j \in 1 .. m : i < j => GatherOrder(o, srt)[i] < GatherOrder(o, srt)[j]
  BY GatherOrderIs
<1>2. PICK order : order = GatherOrder(o, srt) OBVIOUS
<1>3. /\ \A i \in 1 .. m : order[i] \in Chunk
      /\ DOMAIN order = 1 .. m
      /\ \A i, j \in 1 .. m : i < j => order[i] < order[j]
  BY <1>0, <1>1, <1>2
<1>4. PICK ids \in Seq(T) : ids = t.ids OBVIOUS
<1> DEFINE segs == [i \in 1 .. m |-> Segment(ids, al, order[i])]
<1>5. Child(t, o, srt, al).ids = FlattenSeq(segs)
  <2>1. Child(t, o, srt, al).ids = FlattenSeq([i \in DOMAIN order |-> Segment(ids, al, order[i])])
    BY <1>2, <1>4 DEF Child
  <2> QED BY <2>1, <1>3
<1>6. segs \in [1 .. m -> Seq(T)] BY <1>3, SegmentIs
<1>7. \A i \in 1 .. m : segs[i] = Segment(ids, al, order[i]) OBVIOUS
<1> HIDE DEF segs
<1>8. \A i \in 1 .. m : Runs(segs[i], al) BY <1>3, <1>4, <1>7, SegmentRuns
<1>9. ASSUME NEW i \in 1 .. m, i # m PROVE Whole(Len(segs[i]), al)
  <2>1. m \in 1 .. m /\ i < m BY <1>9
  <2>2. order[i] < order[m] /\ order[i] \in Chunk /\ order[m] \in Chunk BY <2>1, <1>3
  <2>3. order[i] # c - 1 BY <2>2
  <2> QED BY <2>2, <2>3, <1>4, <1>7, SegmentRuns
<1>10. Runs(FlattenSeq(segs), al) BY <1>6, <1>8, <1>9, FlattenRuns
<1> QED BY <1>0, <1>5, <1>10

\* The tokens of the whole call are consecutive.
LEMMA RootRuns ==
  ASSUME NEW len \in Nat, NEW al \in Nat \ {0}
  PROVE  Runs(Root(len).ids, al)
<1>1. Root(len).ids = [i \in 1 .. len |-> i - 1] BY DEF Root
<1>2. ASSUME NEW m \in Nat, NEW i \in 0 .. al - 1, m * al + i + 1 \in 1 .. len
      PROVE  Root(len).ids[m * al + i + 1] = Root(len).ids[m * al + 1] + i
  <2>1. PICK x \in Nat : x = m * al BY Wholes
  <2>2. x + i + 1 \in 1 .. len /\ x + 1 \in 1 .. len BY <1>2, <2>1
  <2>3. Root(len).ids[x + i + 1] = x + i /\ Root(len).ids[x + 1] = x BY <1>1, <2>2
  <2> QED BY <2>1, <2>3
<1> QED BY <1>1, <1>2 DEF Runs

-----------------------------------------------------------------------------
(* Depth (max_depth_for). *)

\* f lists the powers of c up to the k-th.
Powers(f, k) == \A i \in 0 .. k : f[i] = IF i = 0 THEN 1 ELSE c * f[i - 1]

\* A power is the last of such a list.
LEMMA PowersAre ==
  ASSUME NEW k \in Nat
  PROVE  \E f : Powers(f, k) /\ Power(k) = f[k]
<1> DEFINE Is(f, j) == f = [i \in 0 .. j |-> IF i = 0 THEN 1 ELSE c * f[i - 1]]
           Have == {j \in Nat : \E f : Is(f, j)}
<1>1. 0 \in Have
  <2>1. Is([i \in 0 .. 0 |-> 1], 0) OBVIOUS
  <2> HIDE DEF Is
  <2> QED BY <2>1
<1>2. ASSUME NEW j \in Nat, j < k, j \in Have PROVE j + 1 \in Have
  <2>1. PICK f : Is(f, j)
    <3> HIDE DEF Is
    <3> QED BY <1>2
  <2> DEFINE g == [i \in 0 .. j + 1 |-> IF i < j + 1 THEN f[i] ELSE c * f[j]]
  <2>2. \A i \in 0 .. j : f[i] = IF i = 0 THEN 1 ELSE c * f[i - 1] BY <2>1
  <2>3. \A i \in 0 .. j + 1 : g[i] = IF i = 0 THEN 1 ELSE c * g[i - 1]
    <3> SUFFICES ASSUME NEW i \in 0 .. j + 1 PROVE g[i] = IF i = 0 THEN 1 ELSE c * g[i - 1] OBVIOUS
    <3>0. g[i] = IF i < j + 1 THEN f[i] ELSE c * f[j] OBVIOUS
    <3>1. CASE i = j + 1
      <4>1. j \in 0 .. j + 1 /\ j < j + 1 /\ i - 1 = j /\ i # 0 /\ ~ (i < j + 1) BY <3>1
      <4>2. g[j] = f[j] BY <4>1
      <4> HIDE DEF g
      <4> QED BY <3>0, <4>1, <4>2
    <3>2. CASE i # j + 1
      <4>1. i \in 0 .. j /\ i < j + 1 BY <3>2
      <4>2. i # 0 => i - 1 \in 0 .. j + 1 /\ g[i - 1] = f[i - 1] BY <3>2
      <4> HIDE DEF g
      <4> QED BY <2>2, <3>0, <4>1, <4>2
    <3> QED BY <3>1, <3>2
  <2>4. Is(g, j + 1)
    <3>1. g = [i \in 0 .. j + 1 |-> g[i]] OBVIOUS
    <3> HIDE DEF g
    <3> QED BY <2>3, <3>1
  <2> HIDE DEF Is
  <2> QED BY <2>4
<1>3. \E f : Is(f, k)
  <2> HIDE DEF Have
  <2>1. \A j \in 0 .. k : j \in Have BY <1>1, <1>2, UpTo
  <2>2. k \in Have BY <2>1
  <2> HIDE DEF Is
  <2> QED BY <2>2 DEF Have
<1>4. Power(k) = (CHOOSE f : Is(f, k))[k] BY DEF Power
<1>5. PICK f : Is(f, k) /\ Power(k) = f[k]
  <2> HIDE DEF Is
  <2> QED BY <1>3, <1>4
<1>6. Powers(f, k) BY <1>5 DEF Powers
<1> HIDE DEF Is
<1> QED BY <1>5, <1>6

\* Powers, one level at a time.
LEMMA PowerSteps ==
  ASSUME NEW k \in Nat
  PROVE  Power(0) = 1 /\ Power(k + 1) = c * Power(k)
<1>1. ASSUME NEW j \in Nat, j = 0 PROVE Power(j) = 1
  <2>1. PICK f : Powers(f, j) /\ Power(j) = f[j] BY PowersAre
  <2>2. 0 \in 0 .. j BY <1>1
  <2> QED BY <1>1, <2>1, <2>2 DEF Powers
<1>2. Power(0) = 1 BY <1>1
<1>3. PICK v : Powers(v, k) /\ Power(k) = v[k] BY PowersAre
<1>4. k + 1 \in Nat OBVIOUS
<1>5. PICK w : Powers(w, k + 1) /\ Power(k + 1) = w[k + 1] BY <1>4, PowersAre
<1> DEFINE Same == {i \in Nat : i <= k => v[i] = w[i]}
<1>6. 0 \in Same
  <2>1. 0 \in 0 .. k /\ 0 \in 0 .. k + 1 OBVIOUS
  <2> QED BY <2>1, <1>3, <1>5 DEF Powers
<1>7. ASSUME NEW i \in Nat, i < k, i \in Same PROVE i + 1 \in Same
  <2>1. i + 1 \in 0 .. k /\ i + 1 \in 0 .. k + 1 /\ i + 1 # 0 /\ (i + 1) - 1 = i BY <1>7
  <2>2. v[i + 1] = c * v[i] BY <2>1, <1>3 DEF Powers
  <2>3. w[i + 1] = c * w[i] BY <2>1, <1>5 DEF Powers
  <2>4. v[i] = w[i] BY <1>7
  <2>5. v[i + 1] = w[i + 1] BY <2>2, <2>3, <2>4
  <2> QED BY <2>1, <2>5
<1>8. v[k] = w[k]
  <2> HIDE DEF Same
  <2>1. \A i \in 0 .. k : i \in Same BY <1>6, <1>7, UpTo
  <2>2. k \in Same BY <2>1
  <2> QED BY <2>2 DEF Same
<1>9. w[k + 1] = c * w[k]
  <2>1. k + 1 \in 0 .. k + 1 /\ k + 1 # 0 /\ (k + 1) - 1 = k OBVIOUS
  <2> QED BY <2>1, <1>5 DEF Powers
<1> QED BY <1>2, <1>3, <1>5, <1>8, <1>9

\* A power is a number beyond its exponent.
LEMMA PowerIsNat ==
  ASSUME NEW k \in Nat
  PROVE  Power(k) \in Nat /\ k < Power(k)
<1> c \in Nat /\ c > 1 BY ChunksAre
<1> DEFINE Good == {j \in Nat : Power(j) \in Nat /\ j < Power(j)}
<1>1. 0 \in Good
  <2>1. 0 \in Nat OBVIOUS
  <2>2. Power(0) = 1 BY <2>1, PowerSteps
  <2> QED BY <2>2
<1>2. ASSUME NEW j \in Nat, j < k, j \in Good PROVE j + 1 \in Good
  <2>1. Power(j + 1) = c * Power(j) BY PowerSteps
  <2>2. PICK p \in Nat : p = Power(j) /\ j < p BY <1>2
  <2>3. PICK e \in Nat : c = e + 2
    <3>1. c - 2 \in Nat /\ c = (c - 2) + 2 OBVIOUS
    <3> QED BY <3>1
  <2>4. c * p = e * p + p + p /\ e * p \in Nat BY <2>3
  <2>5. c * p \in Nat /\ j + 1 < c * p BY <2>2, <2>4
  <2> QED BY <2>1, <2>2, <2>5
<1>3. k \in Good
  <2> HIDE DEF Good
  <2>1. \A j \in 0 .. k : j \in Good BY <1>1, <1>2, UpTo
  <2> QED BY <2>1
<1> QED BY <1>3

\* max_depth_for: there is a depth whose chunks still hold a token each and whose
\* next does not.
LEMMA MaxDepthIs ==
  ASSUME NEW len \in Nat \ {0}
  PROVE  /\ MaxDepth(len) \in Nat
         /\ Power(MaxDepth(len)) <= len /\ len < Power(MaxDepth(len) + 1)
<1> DEFINE Beyond == {k \in Nat : len < Power(k)}
<1>1. len \in Beyond BY PowerIsNat
<1>2. PICK x \in Beyond : \A y \in Beyond : x <= y
  <2>1. Beyond \in SUBSET Nat /\ Beyond # {} BY <1>1
  <2> HIDE DEF Beyond
  <2> QED BY <2>1, LeastNat
<1>3. x # 0
  <2>1. 0 \in Nat OBVIOUS
  <2>2. Power(0) = 1 BY <2>1, PowerSteps
  <2> QED BY <2>2, <1>2
<1>4. PICK k \in Nat : x = k + 1
  <2>1. x - 1 \in Nat /\ x = (x - 1) + 1 BY <1>3
  <2> QED BY <2>1
<1>5. k \in 0 .. len BY <1>1, <1>2, <1>4
<1>6. Power(k) <= len
  <2>1. k \notin Beyond BY <1>2, <1>4
  <2> QED BY <2>1, PowerIsNat
<1>7. len < Power(k + 1) BY <1>2, <1>4
<1>8. MaxDepth(len) = CHOOSE j \in 0 .. len : Power(j) <= len /\ len < Power(j + 1) BY DEF MaxDepth
<1>9. \E j \in 0 .. len : Power(j) <= len /\ len < Power(j + 1) BY <1>5, <1>6, <1>7
<1> HIDE DEF Beyond
<1> QED BY <1>8, <1>9

\* A segment is as long as its chunk.
LEMMA SegmentLength ==
  ASSUME NEW T, NEW ids \in Seq(T), NEW al \in Nat \ {0}, NEW k \in Chunk
  PROVE  Len(Segment(ids, al, k)) = ChunkSize(Len(ids), al)[k]
<1>1. PICK len \in Nat : len = Len(ids) /\ DOMAIN ids = 1 .. len BY LenProperties
<1>2. PICK start, size : /\ start = ChunkStart(len, al) /\ size = ChunkSize(len, al)
                         /\ Layout(len, start, size)
  BY LayoutIs
<1>3. PICK first \in Nat, room \in Nat : first = start[k] /\ room = size[k] BY <1>2 DEF Layout
<1>4. \A x \in Int : first < x /\ x <= first + room => x \in 1 .. len
  <2>1. \A x \in Int : InChunk(len, al, x, k) => x \in 1 .. len BY OneChunk
  <2> QED BY <2>1, <1>2, <1>3 DEF InChunk
<1>5. PICK seg : seg = SubSeq(ids, first + 1, first + room) /\ seg = Segment(ids, al, k)
  BY <1>1, <1>2, <1>3 DEF Segment
<1>6. \A i \in first + 1 .. first + room : ids[i] \in T
  <2> SUFFICES ASSUME NEW i \in first + 1 .. first + room PROVE ids[i] \in T OBVIOUS
  <2>1. i \in 1 .. len BY <1>4
  <2> QED BY <2>1, <1>1, ElementOfSeq
<1>7. first + 1 \in Int /\ first + room \in Int OBVIOUS
<1>8. Len(seg) = IF first + 1 <= first + room THEN (first + room) - (first + 1) + 1 ELSE 0
  BY <1>5, <1>6, <1>7, SubSeqProperties
<1>9. Len(seg) = room
  <2>1. (first + room) - (first + 1) + 1 = room OBVIOUS
  <2>2. ~ (first + 1 <= first + room) => room = 0 OBVIOUS
  <2> QED BY <1>8, <2>1, <2>2
<1> QED BY <1>1, <1>2, <1>3, <1>5, <1>9

\* A sequence of different numbers has as many as it is long.
LEMMA DifferentCount ==
  ASSUME NEW T \in SUBSET Nat, NEW s \in Seq(T), Pairwise(s, Apart)
  PROVE  IsFiniteSet(Range(s)) /\ Cardinality(Range(s)) = Len(s)
<1>1. PICK l \in Nat : l = Len(s) /\ DOMAIN s = 1 .. l BY LenProperties
<1>2. IsInjective(s) BY InjectiveIsApart
<1>3. s \in [1 .. l -> Range(s)]
  <2>1. s \in [1 .. l -> T] BY <1>1, LenProperties
  <2>2. \A x \in 1 .. l : s[x] \in Range(s) BY <1>1 DEF Range
  <2> QED BY <2>1, <2>2
<1>4. \A x, y \in 1 .. l : s[x] = s[y] => x = y BY <1>1, <1>2 DEF IsInjective
<1>5. \A v \in Range(s) : \E x \in 1 .. l : s[x] = v BY <1>1 DEF Range
<1>6. s \in Bijection(1 .. l, Range(s))
  BY <1>3, <1>4, <1>5 DEF Bijection, Injection, Surjection, IsInjective
<1>7. ExistsBijection(1 .. l, Range(s)) BY <1>6 DEF ExistsBijection
<1>8. IsFiniteSet(1 .. l) /\ Cardinality(1 .. l) = l
  <2>1. 1 \in Int /\ l \in Int OBVIOUS
  <2>2. IsFiniteSet(1 .. l) /\ Cardinality(1 .. l) = IF 1 > l THEN 0 ELSE l - 1 + 1
    BY <2>1, FS_Interval
  <2> QED BY <2>2
<1> QED BY <1>1, <1>7, <1>8, FS_Bijection

\* Without alignment every chunk has its share of the tokens.
LEMMA EvenShare ==
  ASSUME NEW len \in Nat, NEW al \in Nat \ {0}, al = 1, NEW p \in Nat, c * p <= len, NEW k \in Chunk
  PROVE  ChunkSize(len, al)[k] \in Nat /\ p <= ChunkSize(len, al)[k]
<1> c \in Nat \ {0} /\ Chunk = 0 .. c - 1 BY ChunksAre
<1>1. ChunkSize(len, al)[k] = len \div c + (IF k < len % c THEN 1 ELSE 0)
  BY DEF ChunkSize, EvenSize
<1>2. PICK q \in Nat, r \in 0 .. c - 1 : q = len \div c /\ r = len % c /\ len = c * q + r
  <2>1. len \div c \in Nat /\ len % c \in 0 .. c - 1 /\ len = c * (len \div c) + (len % c) BY Division
  <2> QED BY <2>1
<1>3. p <= q
  <2> SUFFICES ASSUME q < p PROVE FALSE OBVIOUS
  <2>1. PICK e \in Nat : p = q + e + 1
    <3>1. p - q - 1 \in Nat /\ p = q + (p - q - 1) + 1 OBVIOUS
    <3> QED BY <3>1
  <2>2. c * p = c * q + c * e + c /\ c * e \in Nat BY <2>1
  <2> QED BY <1>2, <2>2
<1> QED BY <1>1, <1>2, <1>3

\* No owner gathers every chunk: if one did, all of them did, and two of them
\* would keep the same pairs.
LEMMA Ungathered ==
  ASSUME NEW o \in Chunk
  PROVE  \E k \in Chunk : ~ Gathers(o, k)
<1> c \in Nat /\ c > 1 /\ Chunk = 0 .. c - 1 BY ChunksAre
<1> SUFFICES ASSUME \A k \in Chunk : Gathers(o, k) PROVE FALSE OBVIOUS
<1>1. Offsets \subseteq Chunk BY PerfectDifferenceSet DEF PerfectDifferenceSet
<1>2. ASSUME NEW x \in Chunk PROVE x \in Offsets
  <2>1. (o + x) % c \in Chunk BY OffsetsApart
  <2>2. PICK d \in Offsets : (o + x) % c = (o + d) % c BY <2>1 DEF Gathers
  <2>3. d \in Chunk BY <1>1
  <2>4. x = d BY <2>2, <2>3, OffsetsApart
  <2> QED BY <2>4
<1>3. ASSUME NEW q \in Chunk, NEW k \in Chunk PROVE Gathers(q, k)
  <2>1. PICK d \in Chunk : d = IF k >= q THEN k - q ELSE k - q + c
    <3>1. CASE k >= q
      <4>1. k - q \in Chunk BY <3>1
      <4> QED BY <3>1, <4>1
    <3>2. CASE k < q
      <4>1. k - q + c \in Chunk BY <3>2
      <4> QED BY <3>2, <4>1
    <3> QED BY <3>1, <3>2
  <2>2. (q + d) % c = IF q + d < c THEN q + d ELSE q + d - c BY ModSum
  <2>3. (q + d) % c = k BY <2>1, <2>2
  <2>4. d \in Offsets BY <1>2
  <2> QED BY <2>3, <2>4 DEF Gathers
<1>4. PICK j \in Chunk, k \in Chunk : j = 0 /\ k = 1 OBVIOUS
<1>5. \A q \in Chunk : KeepsChunks(q, j, k) BY <1>3, <1>4 DEF KeepsChunks
<1>6. PICK q \in Chunk : \A p \in Chunk : KeepsChunks(p, j, k) => p = q BY OneOwner
<1>7. j = q /\ k = q BY <1>5, <1>6
<1> QED BY <1>4, <1>7

\* A child without alignment: it keeps its share of the tokens and leaves some out.
LEMMA ChildShrinks ==
  ASSUME NEW len \in Nat, NEW srt \in BOOLEAN, NEW t, WellFormed(t, len, srt),
         NEW al \in Nat \ {0}, al = 1, NEW p \in Nat \ {0}, c * p <= Len(t.ids), NEW o \in Chunk
  PROVE  /\ Len(Child(t, o, srt, al).ids) \in Nat
         /\ p <= Len(Child(t, o, srt, al).ids) /\ Len(Child(t, o, srt, al).ids) < Len(t.ids)
<1>1. PICK T \in SUBSET Nat : T = 0 .. len - 1 BY TokensAre
<1>2. PICK ids \in Seq(T) : ids = t.ids /\ Pairwise(ids, Apart) BY <1>1 DEF WellFormed
<1>3. PICK kid \in Seq(T) :
        /\ kid = Child(t, o, srt, al).ids
        /\ \A a : a \in Range(kid) <=> \E k \in Chunk : Gathers(o, k) /\ a \in Range(Segment(ids, al, k))
        /\ Pairwise(kid, Apart)
  <2>1. /\ Child(t, o, srt, al).ids \in Seq(T)
        /\ \A a : a \in Range(Child(t, o, srt, al).ids) <=>
                    \E k \in Chunk : Gathers(o, k) /\ a \in Range(Segment(t.ids, al, k))
        /\ Pairwise(Child(t, o, srt, al).ids, Apart)
    BY <1>2, ChildIds
  <2> QED BY <1>2, <2>1
<1>4. PICK all \in Nat, few \in Nat : all = Len(ids) /\ few = Len(kid) BY LenProperties
<1>5. /\ IsFiniteSet(Range(ids)) /\ Cardinality(Range(ids)) = all
      /\ IsFiniteSet(Range(kid)) /\ Cardinality(Range(kid)) = few
  BY <1>2, <1>3, <1>4, DifferentCount
<1>6. ASSUME NEW k \in Chunk
      PROVE  /\ Segment(ids, al, k) \in Seq(T) /\ Pairwise(Segment(ids, al, k), Apart)
             /\ Range(Segment(ids, al, k)) \subseteq Range(ids)
             /\ Len(Segment(ids, al, k)) \in Nat /\ p <= Len(Segment(ids, al, k))
  <2>1. Segment(ids, al, k) \in Seq(T) BY SegmentIs
  <2>2. Pairwise(Segment(ids, al, k), Apart) BY <1>2, SegmentsPairwise
  <2>3. Range(Segment(ids, al, k)) \subseteq Range(ids) BY SegmentsCover
  <2>4. Len(Segment(ids, al, k)) = ChunkSize(all, al)[k] BY <1>4, SegmentLength
  <2>5. ChunkSize(all, al)[k] \in Nat /\ p <= ChunkSize(all, al)[k]
    <3>1. c * p <= all BY <1>2, <1>4
    <3> QED BY <3>1, EvenShare
  <2> QED BY <2>1, <2>2, <2>3, <2>4, <2>5
<1>7. Range(kid) \subseteq Range(ids) BY <1>3, <1>6
<1>8. p <= few
  <2>1. PICK k \in Chunk : Gathers(o, k)
    <3>1. PICK q \in Chunk : KeepsChunks(q, o, o) BY OneOwner
    <3> QED BY <3>1 DEF KeepsChunks
  <2>2. Range(Segment(ids, al, k)) \in SUBSET Range(kid) BY <1>3, <2>1
  <2>3. Cardinality(Range(Segment(ids, al, k))) = Len(Segment(ids, al, k)) BY <1>6, DifferentCount
  <2>4. Cardinality(Range(Segment(ids, al, k))) <= Cardinality(Range(kid)) BY <2>2, <1>5, FS_Subset
  <2> QED BY <1>5, <1>6, <2>3, <2>4
<1>9. few < all
  <2>1. PICK k \in Chunk : ~ Gathers(o, k) BY Ungathered
  <2>2. PICK a : a \in Range(Segment(ids, al, k))
    <3>1. PICK seg \in Seq(T) : seg = Segment(ids, al, k) /\ Len(seg) \in Nat /\ p <= Len(seg) BY <1>6
    <3>2. 1 \in DOMAIN seg
      <4>1. DOMAIN seg = 1 .. Len(seg) BY LenProperties
      <4> QED BY <3>1, <4>1
    <3>3. seg[1] \in Range(seg) BY <3>2 DEF Range
    <3> QED BY <3>1, <3>3
  <2>3. a \in Range(ids) BY <1>6, <2>2
  <2>4. a \notin Range(kid)
    <3> SUFFICES ASSUME a \in Range(kid) PROVE FALSE OBVIOUS
    <3>1. PICK j \in Chunk : Gathers(o, j) /\ a \in Range(Segment(ids, al, j)) BY <1>3
    <3>2. j = k BY <1>2, <2>2, <3>1, SegmentsApart
    <3> QED BY <2>1, <3>1, <3>2
  <2>5. Range(kid) \in SUBSET Range(ids) /\ Range(kid) # Range(ids) BY <1>7, <2>3, <2>4
  <2>6. few <= all /\ few # all BY <1>5, <2>5, FS_Subset
  <2> QED BY <2>6
<1> QED BY <1>2, <1>3, <1>4, <1>8, <1>9

=============================================================================
