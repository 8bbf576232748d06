------------------------ MODULE LegacyBackward_proofs ------------------------
(* No path's gradients are lost or added twice by the legacy backward:      *)
(* theorems of LegacyBackward, for any number of paths and slots, either    *)
(* scheduler, wherever memory runs out.                                     *)
EXTENDS LegacyBackwardInv, SequenceTheorems, FiniteSetTheorems, WellFoundedInduction, TLAPS

-----------------------------------------------------------------------------
(* Operators of the libraries. *)

\* The lesser of two numbers, and the greater.
LEMMA OfTwo ==
  ASSUME NEW a \in Int, NEW b \in Int
  PROVE  /\ Min({a, b}) = IF a <= b THEN a ELSE b
         /\ Max({a, b}) = IF a >= b THEN a ELSE b
<1>1. \A x \in {a, b} : x \in Int OBVIOUS
<1>2. \A x \in {a, b} : (\A y \in {a, b} : x <= y) <=> x = IF a <= b THEN a ELSE b OBVIOUS
<1>3. \A x \in {a, b} : (\A y \in {a, b} : x >= y) <=> x = IF a >= b THEN a ELSE b OBVIOUS
<1>4. (IF a <= b THEN a ELSE b) \in {a, b} /\ (IF a >= b THEN a ELSE b) \in {a, b} OBVIOUS
<1>5. Min({a, b}) = IF a <= b THEN a ELSE b BY <1>2, <1>4 DEF Min
<1>6. Max({a, b}) = IF a >= b THEN a ELSE b BY <1>3, <1>4 DEF Max
<1> QED BY <1>5, <1>6

\* The greatest of three numbers.
LEMMA OfThree ==
  ASSUME NEW a \in Int, NEW b \in Int, NEW d \in Int
  PROVE  /\ Max({a, b, d}) \in {a, b, d}
         /\ a <= Max({a, b, d}) /\ b <= Max({a, b, d}) /\ d <= Max({a, b, d})
<1>1. \E x \in {a, b, d} : \A y \in {a, b, d} : x >= y
  <2>1. CASE a >= b /\ a >= d BY <2>1
  <2>2. CASE b >= a /\ b >= d BY <2>2
  <2>3. CASE d >= a /\ d >= b BY <2>3
  <2> QED BY <2>1, <2>2, <2>3
<1>2. PICK x : x = Max({a, b, d}) OBVIOUS
<1>3. x \in {a, b, d} /\ \A y \in {a, b, d} : x >= y BY <1>1, <1>2 DEF Max
<1>4. a <= x /\ b <= x /\ d <= x BY <1>3
<1> QED BY <1>2, <1>3, <1>4

\* What is left of a sequence of different elements without its first one.
LEMMA WithoutFirst ==
  ASSUME NEW T, NEW s \in Seq(T), s # <<>>, IsInjective(s)
  PROVE  /\ 1 \in DOMAIN s /\ s[1] = Head(s) /\ Head(s) \in Range(s)
         /\ SubSeq(s, 2, Len(s)) = Tail(s)
         /\ Tail(s) \in Seq(T) /\ IsInjective(Tail(s))
         /\ Range(Tail(s)) = Range(s) \ {Head(s)}
<1>1. PICK l \in Nat : l = Len(s) /\ DOMAIN s = 1 .. l BY LenProperties
<1>2. l # 0 BY <1>1, EmptySeq
<1>3. 1 \in DOMAIN s /\ s[1] = Head(s) BY <1>1, <1>2
<1>4. PICK t \in Seq(T) : t = Tail(s) /\ DOMAIN t = 1 .. l - 1 /\ \A i \in 1 .. l - 1 : t[i] = s[i + 1]
  <2>1. Tail(s) \in Seq(T) /\ Len(Tail(s)) = l - 1 /\ \A i \in 1 .. Len(Tail(s)) : Tail(s)[i] = s[i + 1]
    BY <1>1, HeadTailProperties
  <2>2. DOMAIN Tail(s) = 1 .. Len(Tail(s)) BY <2>1, LenProperties
  <2> QED BY <2>1, <2>2
<1>5. SubSeq(s, 2, Len(s)) = Tail(s) BY TailIsSubSeq
<1>6. IsInjective(t)
  <2> SUFFICES ASSUME NEW i \in 1 .. l - 1, NEW j \in 1 .. l - 1, t[i] = t[j] PROVE i = j
    BY <1>4 DEF IsInjective
  <2>1. i + 1 \in 1 .. l /\ j + 1 \in 1 .. l OBVIOUS
  <2>2. s[i + 1] = s[j + 1] BY <1>4
  <2>3. i + 1 = j + 1 BY <1>1, <2>1, <2>2 DEF IsInjective
  <2> QED BY <2>3
<1>7. ASSUME NEW v PROVE v \in Range(t) <=> v \in Range(s) /\ v # s[1]
  <2>1. ASSUME NEW i \in 1 .. l - 1, v = t[i] PROVE v \in Range(s) /\ v # s[1]
    <3>1. i + 1 \in 1 .. l /\ i + 1 # 1 OBVIOUS
    <3>2. v = s[i + 1] BY <2>1, <1>4
    <3> QED BY <1>1, <1>3, <3>1, <3>2 DEF Range, IsInjective
  <2>2. ASSUME NEW i \in 1 .. l, v = s[i], v # s[1] PROVE v \in Range(t)
    <3>1. i - 1 \in 1 .. l - 1 /\ (i - 1) + 1 = i BY <2>2
    <3>2. v = t[i - 1] BY <2>2, <3>1, <1>4
    <3> QED BY <1>4, <3>1, <3>2 DEF Range
  <2>3. v \in Range(t) => \E i \in 1 .. l - 1 : v = t[i] BY <1>4 DEF Range
  <2>4. v \in Range(s) => \E i \in 1 .. l : v = s[i] BY <1>1 DEF Range
  <2> QED BY <2>1, <2>2, <2>3, <2>4
<1>8. Range(t) = Range(s) \ {s[1]} BY <1>7
<1>9. s[1] \in Range(s) BY <1>3 DEF Range
<1> QED BY <1>3, <1>4, <1>5, <1>6, <1>8, <1>9

\* Two sequences of different elements, one after the other.
LEMMA Joined ==
  ASSUME NEW T, NEW s1 \in Seq(T), NEW s2 \in Seq(T), IsInjective(s1), IsInjective(s2),
         Range(s1) \cap Range(s2) = {}
  PROVE  /\ s1 \o s2 \in Seq(T) /\ IsInjective(s1 \o s2)
         /\ Range(s1 \o s2) = Range(s1) \cup Range(s2)
<1>1. PICK l1 \in Nat, l2 \in Nat :
        /\ l1 = Len(s1) /\ l2 = Len(s2) /\ DOMAIN s1 = 1 .. l1 /\ DOMAIN s2 = 1 .. l2
  BY LenProperties
<1>2. PICK s \in Seq(T) : /\ s = s1 \o s2 /\ DOMAIN s = 1 .. l1 + l2
                          /\ \A i \in 1 .. l1 + l2 : s[i] = IF i <= l1 THEN s1[i] ELSE s2[i - l1]
  <2>1. /\ s1 \o s2 \in Seq(T) /\ Len(s1 \o s2) = l1 + l2
        /\ \A i \in 1 .. l1 + l2 : (s1 \o s2)[i] = IF i <= l1 THEN s1[i] ELSE s2[i - l1]
    BY <1>1, ConcatProperties
  <2>2. DOMAIN (s1 \o s2) = 1 .. l1 + l2 BY <2>1, LenProperties
  <2> QED BY <2>1, <2>2
<1>3. \A i \in 1 .. l1 : i \in 1 .. l1 + l2 /\ s[i] = s1[i] /\ s1[i] \in Range(s1)
  BY <1>1, <1>2 DEF Range
<1>4. \A i \in 1 .. l1 + l2 : i > l1 => i - l1 \in 1 .. l2 /\ s[i] = s2[i - l1] /\ s2[i - l1] \in Range(s2)
  <2> SUFFICES ASSUME NEW i \in 1 .. l1 + l2, i > l1
               PROVE  i - l1 \in 1 .. l2 /\ s[i] = s2[i - l1] /\ s2[i - l1] \in Range(s2)
    OBVIOUS
  <2>1. i - l1 \in 1 .. l2 /\ ~ (i <= l1) OBVIOUS
  <2>2. s[i] = s2[i - l1] BY <2>1, <1>2
  <2> QED BY <2>1, <2>2, <1>1 DEF Range
<1>5. \A j \in 1 .. l2 : l1 + j \in 1 .. l1 + l2 /\ s[l1 + j] = s2[j]
  <2> SUFFICES ASSUME NEW j \in 1 .. l2 PROVE l1 + j \in 1 .. l1 + l2 /\ s[l1 + j] = s2[j] OBVIOUS
  <2>1. l1 + j \in 1 .. l1 + l2 /\ l1 + j > l1 /\ (l1 + j) - l1 = j OBVIOUS
  <2> QED BY <2>1, <1>4
<1>6. IsInjective(s)
  <2> SUFFICES ASSUME NEW i \in 1 .. l1 + l2, NEW j \in 1 .. l1 + l2, s[i] = s[j] PROVE i = j
    BY <1>2 DEF IsInjective
  <2>1. CASE i <= l1 /\ j <= l1
    <3>1. i \in 1 .. l1 /\ j \in 1 .. l1 BY <2>1
    <3>2. s1[i] = s1[j] BY <3>1, <1>3
    <3> QED BY <3>1, <3>2, <1>1 DEF IsInjective
  <2>2. CASE i > l1 /\ j > l1
    <3>1. i - l1 \in 1 .. l2 /\ j - l1 \in 1 .. l2 /\ s2[i - l1] = s2[j - l1] BY <2>2, <1>4
    <3>2. i - l1 = j - l1 BY <3>1, <1>1 DEF IsInjective
    <3> QED BY <3>2
  <2>3. CASE i <= l1 /\ j > l1
    <3>1. i \in 1 .. l1 BY <2>3
    <3> QED BY <3>1, <2>3, <1>3, <1>4
  <2>4. CASE i > l1 /\ j <= l1
    <3>1. j \in 1 .. l1 BY <2>4
    <3> QED BY <3>1, <2>4, <1>3, <1>4
  <2> QED BY <2>1, <2>2, <2>3, <2>4
<1>7. ASSUME NEW v PROVE v \in Range(s) <=> v \in Range(s1) \/ v \in Range(s2)
  <2>1. ASSUME NEW i \in 1 .. l1 + l2, v = s[i] PROVE v \in Range(s1) \/ v \in Range(s2)
    <3>1. i <= l1 => i \in 1 .. l1 OBVIOUS
    <3> QED BY <2>1, <3>1, <1>3, <1>4
  <2>2. v \in Range(s) => \E i \in 1 .. l1 + l2 : v = s[i] BY <1>2 DEF Range
  <2>3. v \in Range(s1) => v \in Range(s)
    <3> SUFFICES ASSUME NEW i \in 1 .. l1, v = s1[i] PROVE v \in Range(s) BY <1>1 DEF Range
    <3>1. i \in DOMAIN s /\ s[i] = v BY <1>2, <1>3
    <3> QED BY <3>1 DEF Range
  <2>4. v \in Range(s2) => v \in Range(s)
    <3> SUFFICES ASSUME NEW i \in 1 .. l2, v = s2[i] PROVE v \in Range(s) BY <1>1 DEF Range
    <3>1. l1 + i \in DOMAIN s /\ s[l1 + i] = v BY <1>2, <1>5
    <3> QED BY <3>1 DEF Range
  <2> QED BY <2>1, <2>2, <2>3, <2>4
<1>8. Range(s) = Range(s1) \cup Range(s2) BY <1>7
<1> QED BY <1>2, <1>6, <1>8

\* An order of a finite set has its elements, each once.
LEMMA OrderIs ==
  ASSUME NEW T, NEW S \in SUBSET T, IsFiniteSet(S), NEW order \in SetToSeqs(S)
  PROVE  order \in Seq(T) /\ IsInjective(order) /\ Range(order) = S
<1>1. PICK m \in Nat : m = Cardinality(S) BY FS_CardinalityType
<1>2. order \in [1 .. m -> S] /\ \A i, j \in 1 .. m : i # j => order[i] # order[j]
  BY <1>1 DEF SetToSeqs
<1>3. order \in Seq(T)
  <2>1. order \in [1 .. m -> T] BY <1>2
  <2> QED BY <2>1, SeqDef
<1>4. IsInjective(order) BY <1>2 DEF IsInjective
<1>5. order \in Injection(1 .. m, S) BY <1>2 DEF Injection, IsInjective
<1>6. IsFiniteSet(1 .. m) /\ Cardinality(1 .. m) = m
  <2>1. 1 \in Int /\ m \in Int OBVIOUS
  <2>2. IsFiniteSet(1 .. m) /\ Cardinality(1 .. m) = IF 1 > m THEN 0 ELSE m - 1 + 1 BY <2>1, FS_Interval
  <2> QED BY <2>2
<1>7. order \in Surjection(1 .. m, S)
  <2>1. Cardinality(1 .. m) = Cardinality(S) <=> order \in Surjection(1 .. m, S) BY <1>5, FS_Injection
  <2> QED BY <2>1, <1>1, <1>6
<1>8. \A v \in S : \E i \in 1 .. m : order[i] = v BY <1>7 DEF Surjection
<1>9. Range(order) = S BY <1>2, <1>8 DEF Range
<1> QED BY <1>3, <1>4, <1>9

-----------------------------------------------------------------------------
(* Slots, targets and places. *)

\* There is a slot, and no more of them than paths.
LEMMA SlotsAre ==
  /\ InitialParallel \in Nat \ {0} /\ InitialParallel <= NumPaths
  /\ NumPaths \in Nat \ {0}
<1>1. NumPaths \in Nat \ {0} /\ MaxParallel \in Nat \ {0} BY LegacyParameters DEF LegacyParameters
<1>2. InitialParallel = IF MaxParallel <= NumPaths THEN MaxParallel ELSE NumPaths
  BY <1>1, OfTwo DEF InitialParallel
<1> QED BY <1>1, <1>2

\* Paths and slots are finitely many.
LEMMA FinitePaths ==
  /\ \A S \in SUBSET Path : IsFiniteSet(S) /\ Cardinality(S) \in 0 .. NumPaths
  /\ \A S \in SUBSET Slot : IsFiniteSet(S) /\ Cardinality(S) \in Nat
<1>1. 0 \in Int /\ NumPaths - 1 \in Int /\ InitialParallel - 1 \in Int BY SlotsAre
<1>2. IsFiniteSet(Path) /\ Cardinality(Path) = NumPaths
  <2>1. /\ IsFiniteSet(0 .. NumPaths - 1)
        /\ Cardinality(0 .. NumPaths - 1) = IF 0 > NumPaths - 1 THEN 0 ELSE NumPaths - 1 - 0 + 1
    BY <1>1, FS_Interval
  <2> QED BY <2>1, SlotsAre DEF Path
<1>3. IsFiniteSet(Slot)
  <2>1. IsFiniteSet(0 .. InitialParallel - 1) BY <1>1, FS_Interval
  <2> QED BY <2>1 DEF Slot
<1>4. ASSUME NEW S \in SUBSET Path PROVE IsFiniteSet(S) /\ Cardinality(S) \in 0 .. NumPaths
  <2>1. IsFiniteSet(S) /\ Cardinality(S) <= NumPaths BY <1>2, FS_Subset
  <2>2. Cardinality(S) \in Nat BY <2>1, FS_CardinalityType
  <2> QED BY <2>1, <2>2, SlotsAre
<1>5. ASSUME NEW S \in SUBSET Slot PROVE IsFiniteSet(S) /\ Cardinality(S) \in Nat
  <2>1. IsFiniteSet(S) BY <1>3, FS_Subset
  <2> QED BY <2>1, FS_CardinalityType
<1> QED BY <1>4, <1>5

\* The target that max_rounds allows is a number of paths, all of them without it.
LEMMA RoundBasedIs ==
  ASSUME NEW j \in Nat
  PROVE  /\ RoundBased(j) \in 0 .. NumPaths
         /\ MaxRounds = 0 => RoundBased(j) = NumPaths
<1>1. NumPaths \in Nat /\ MaxRounds \in Nat BY LegacyParameters DEF LegacyParameters
<1>2. PICK x \in Nat : x = MaxRounds * j BY <1>1
<1>3. Min({NumPaths, MaxRounds * j}) = IF NumPaths <= x THEN NumPaths ELSE x BY <1>1, <1>2, OfTwo
<1> QED BY <1>1, <1>3 DEF RoundBased

\* Paths that go from one place to another leave every path at one place.
Moved(old, new, some, from, to) ==
  \A x \in Place : new[x] = IF x = from THEN old[x] \ some
                            ELSE IF x = to THEN old[x] \cup some ELSE old[x]

LEMMA MovedOnce ==
  ASSUME NEW old, NEW new, NEW some, NEW from \in Place, NEW to \in Place, from # to,
         OnePlaceEach(old), some \subseteq old[from], Moved(old, new, some, from, to)
  PROVE  OnePlaceEach(new)
<1> SUFFICES ASSUME NEW p \in Path
             PROVE  \E x \in Place : p \in new[x] /\ \A y \in Place : p \in new[y] => y = x
  BY DEF OnePlaceEach
<1>1. PICK x \in Place : p \in old[x] /\ \A y \in Place : p \in old[y] => y = x BY DEF OnePlaceEach
<1>2. CASE p \in some
  <2>1. x = from BY <1>1, <1>2
  <2>2. p \in new[to] BY <1>2 DEF Moved
  <2>3. ASSUME NEW y \in Place, p \in new[y] PROVE y = to
    BY <1>1, <1>2, <2>1, <2>3 DEF Moved
  <2> QED BY <2>2, <2>3
<1>3. CASE p \notin some
  <2>1. \A y \in Place : p \in new[y] <=> p \in old[y] BY <1>3 DEF Moved
  <2> QED BY <1>1, <2>1
<1> QED BY <1>2, <1>3

\* A path at one place is at no other.
LEMMA Elsewhere ==
  ASSUME NEW holding, OnePlaceEach(holding), NEW p \in Path, NEW x \in Place, NEW y \in Place,
         p \in holding[x], p \in holding[y]
  PROVE  x = y
BY DEF OnePlaceEach

\* The names of the places are different.
LEMMA PlacesAre ==
  /\ {"none", "preparing", "ready", "inflight", "merging", "added", "skipped"} = Place
  /\ Holding["none"] = submitted .. NumPaths - 1
  /\ Holding["preparing"] = preparing
  /\ Holding["ready"] = Range(ready)
  /\ Holding["inflight"] = {inflight[s] : s \in Slot} \ {None}
  /\ Holding["merging"] = Range(merging)
  /\ Holding["added"] = {p \in Path : added[p] = 1}
  /\ Holding["skipped"] = skipped
BY DEF Place, Holding

\* What is ready lies within the target.
LEMMA AllInReach ==
  ASSUME TypeOK, OnePlaceEach(Holding)
  PROVE  InReach = DOMAIN ready
<1>1. \A i \in DOMAIN ready : ready[i] < target
  <2> SUFFICES ASSUME NEW i \in DOMAIN ready PROVE ready[i] < target OBVIOUS
  <2>1. ready[i] \in Path /\ ready[i] \in Range(ready)
    <3>1. ready \in Seq(Path) BY DEF TypeOK
    <3>2. ready \in [1 .. Len(ready) -> Path] /\ DOMAIN ready = 1 .. Len(ready) BY <3>1, LenProperties
    <3> QED BY <3>2 DEF Range
  <2>2. ready[i] \notin submitted .. NumPaths - 1
    <3> SUFFICES ASSUME ready[i] \in submitted .. NumPaths - 1 PROVE FALSE OBVIOUS
    <3>1. ready[i] \in Holding["none"] /\ ready[i] \in Holding["ready"] BY <2>1, PlacesAre
    <3>2. "none" \in Place /\ "ready" \in Place BY DEF Place
    <3>3. "none" = "ready" BY <2>1, <3>1, <3>2, Elsewhere
    <3> QED BY <3>3
  <2> QED BY <2>1, <2>2, SlotsAre DEF TypeOK, Path
<1> QED BY <1>1 DEF InReach

\* _pop_ready_prepared takes the first that is ready and leaves the others.
LEMMA PoppedIs ==
  ASSUME TypeOK, NoneTwice, OnePlaceEach(Holding), NEW p, Popped(p)
  PROVE  /\ p \in Path /\ p \in Range(ready) /\ ready # <<>>
         /\ Rest \in Seq(Path) /\ IsInjective(Rest) /\ Range(Rest) = Range(ready) \ {p}
<1>1. ready \in Seq(Path) /\ IsInjective(ready) BY DEF TypeOK, NoneTwice
<1>2. PICK l \in Nat : l = Len(ready) /\ DOMAIN ready = 1 .. l /\ InReach = 1 .. l /\ l # 0
  <2>1. InReach # {} BY DEF Popped
  <2> QED BY <2>1, <1>1, LenProperties, AllInReach
<1>3. Min(InReach) = 1
  <2>1. 1 \in 1 .. l /\ \A y \in 1 .. l : 1 <= y BY <1>2
  <2>2. \A x \in 1 .. l : (\A y \in 1 .. l : x <= y) <=> x = 1 BY <2>1
  <2> QED BY <2>1, <2>2, <1>2 DEF Min
<1>4. ready # <<>> BY <1>2, EmptySeq
<1>5. p = Head(ready) BY <1>1, <1>3, <1>4, WithoutFirst DEF Popped
<1>6. Rest = Tail(ready)
  <2>1. Rest = SubSeq(ready, 1 + 1, Len(ready)) BY <1>2, <1>3 DEF Rest
  <2>2. 1 + 1 = 2 OBVIOUS
  <2> QED BY <2>1, <2>2, <1>1, <1>4, WithoutFirst
<1>7. /\ Head(ready) \in Range(ready) /\ Tail(ready) \in Seq(Path) /\ IsInjective(Tail(ready))
      /\ Range(Tail(ready)) = Range(ready) \ {Head(ready)}
  BY <1>1, <1>4, WithoutFirst
<1>8. Range(ready) \subseteq Path
  <2>1. ready \in [1 .. l -> Path] BY <1>1, <1>2, LenProperties
  <2> QED BY <2>1 DEF Range
<1> QED BY <1>4, <1>5, <1>6, <1>7, <1>8

\* _submit_more_prepared hands the pool the next paths up to the target at most.
LEMMA SubmitMoreIs ==
  ASSUME TypeOK, NEW now \in SUBSET Path, NEW queue \in Seq(Path), NEW busy \in Nat,
         SubmitMore(now, queue, busy)
  PROVE  /\ submitted' \in submitted .. target
         /\ preparing' = now \cup (submitted .. submitted' - 1)
<1>1. submitted \in Nat /\ target \in Nat /\ submitted <= target /\ k \in Nat
  BY SlotsAre DEF TypeOK
<1>2. PICK limit \in Int : limit = PrefetchLimit
  <2>1. PICK more \in Int : more = k + 2 BY <1>1
  <2>2. Max({2, more}) = IF 2 >= more THEN 2 ELSE more
    <3>1. 2 \in Int OBVIOUS
    <3> QED BY <3>1, OfTwo
  <2> QED BY <2>1, <2>2, <1>1 DEF PrefetchLimit
<1>3. PICK left \in Int : left = PrefetchLimit - Cardinality(now) - Len(queue) - busy
  <2>1. Cardinality(now) \in Int BY FinitePaths
  <2>2. Len(queue) \in Int BY LenProperties
  <2> QED BY <1>2, <2>1, <2>2
<1>4. PICK room \in Nat : room = Max({0, left})
  <2>1. 0 \in Int OBVIOUS
  <2>2. Max({0, left}) = IF 0 >= left THEN 0 ELSE left BY <2>1, OfTwo
  <2> QED BY <2>2
<1>5. PICK most \in Int : most = Min({target, submitted + room}) /\ most <= target
  <2>1. submitted + room \in Int BY <1>1
  <2> QED BY <1>1, <2>1, OfTwo
<1>6. Max({submitted, most}) = IF submitted >= most THEN submitted ELSE most
  <2>1. submitted \in Int BY <1>1
  <2> QED BY <2>1, OfTwo
<1>7. submitted' = Max({submitted, most}) /\ preparing' = now \cup (submitted .. submitted' - 1)
  BY <1>3, <1>4, <1>5 DEF SubmitMore
<1> QED BY <1>1, <1>5, <1>6, <1>7

-----------------------------------------------------------------------------
(* Where the paths are. *)

Books == TypeOK /\ NoneTwice /\ OnePlaceEach(Holding)

\* Control that is not about paths.
Steady ==
  /\ schedule' = schedule
  /\ pc' \in {"submit", "collect", "harvest", "launch", "merge", "round", "fill", "wait", "end"}
  /\ launched' \in Nat

\* What has been handed to the pool besides `now`.
Handed(now) ==
  /\ submitted' \in submitted .. target
  /\ preparing' = now \cup (submitted .. submitted' - 1)

\* Nothing is handed over.
LEMMA HandedNone ==
  ASSUME TypeOK, UNCHANGED <<submitted, preparing>>
  PROVE  Handed(preparing)
<1>1. submitted \in Nat /\ target \in Nat /\ submitted <= target BY SlotsAre DEF TypeOK
<1>2. submitted .. submitted - 1 = {} BY <1>1
<1> QED BY <1>1, <1>2 DEF Handed

\* What is handed over are paths.
LEMMA HandedPaths ==
  ASSUME TypeOK, NEW now \in SUBSET Path, Handed(now)
  PROVE  submitted' \in 0 .. target /\ preparing' \subseteq Path /\ now \subseteq preparing'
<1>1. /\ submitted \in Nat /\ target \in Nat /\ submitted <= target /\ target <= NumPaths
      /\ NumPaths \in Nat
  BY SlotsAre DEF TypeOK
<1>2. submitted' \in Nat /\ submitted' <= target BY <1>1 DEF Handed
<1>3. PICK m \in Nat, n \in Nat : m = submitted /\ n = submitted' /\ n <= NumPaths BY <1>1, <1>2
<1>4. ASSUME NEW p \in m .. n - 1 PROVE p \in 0 .. NumPaths - 1
  <2>1. NumPaths \in Nat BY <1>1
  <2>2. n \in Int /\ m \in Nat OBVIOUS
  <2>3. p \in Int /\ m <= p /\ p <= n - 1 BY <2>2, <1>4
  <2>4. p >= 0 BY <2>2, <2>3
  <2>5. n <= NumPaths BY <1>3
  <2>6. p <= NumPaths - 1 BY <2>1, <2>2, <2>3, <2>5
  <2> QED BY <2>3, <2>4, <2>6
<1>5. PICK news : news = m .. n - 1 /\ news \subseteq Path BY <1>4 DEF Path
<1>6. preparing' = now \cup news BY <1>3, <1>5 DEF Handed
<1> QED BY <1>1, <1>2, <1>5, <1>6

\* Different places have no path in common.
LEMMA PlacesApart ==
  ASSUME OnePlaceEach(Holding), NEW x \in Place, NEW y \in Place, x # y
  PROVE  \A p \in Path : ~ (p \in Holding[x] /\ p \in Holding[y])
BY Elsewhere

\* Some paths go from one place to another, and more are handed to the pool.
LEMMA HeldAfter ==
  ASSUME TypeOK, OnePlaceEach(Holding), NEW from \in Place, NEW to \in Place,
         from # to, from # "none", to # "none", NEW some, some \subseteq Holding[from],
         NEW at, Moved(Holding, at, some, from, to),
         Handed(at["preparing"]), Range(ready') = at["ready"],
         {inflight'[s] : s \in Slot} \ {None} = at["inflight"], Range(merging') = at["merging"],
         {p \in Path : added'[p] = 1} = at["added"], skipped' = at["skipped"]
  PROVE  OnePlaceEach(Holding')
<1>1. OnePlaceEach(at) BY MovedOnce
<1>2. submitted \in Nat /\ submitted' \in Nat /\ submitted <= submitted' /\ submitted' <= NumPaths
  BY SlotsAre DEF TypeOK, Handed
<1>3. "none" \in Place /\ "preparing" \in Place BY DEF Place
<1>4. at["none"] = submitted .. NumPaths - 1 BY <1>3, PlacesAre DEF Moved
<1>5. submitted .. submitted' - 1 \subseteq at["none"] BY <1>2, <1>4, SlotsAre
<1>6. submitted' .. NumPaths - 1 = at["none"] \ (submitted .. submitted' - 1) BY <1>2, <1>4, SlotsAre
<1>7. PICK new : new = Holding' OBVIOUS
<1>8. /\ new["none"] = submitted' .. NumPaths - 1
      /\ new["preparing"] = at["preparing"] \cup (submitted .. submitted' - 1)
      /\ new["ready"] = at["ready"] /\ new["inflight"] = at["inflight"]
      /\ new["merging"] = at["merging"] /\ new["added"] = at["added"] /\ new["skipped"] = at["skipped"]
  BY <1>7 DEF Holding, Handed
<1>9. PICK more : more = submitted .. submitted' - 1 /\ more \subseteq at["none"] BY <1>5
<1>10. Moved(at, new, more, "none", "preparing") BY <1>6, <1>8, <1>9 DEF Moved, Place
<1>11. PICK a \in Place, b \in Place : a = "none" /\ b = "preparing" BY <1>3
<1>12. a # b /\ Moved(at, new, more, a, b) /\ more \subseteq at[a] BY <1>9, <1>10, <1>11
<1>13. OnePlaceEach(new) BY <1>1, <1>12, MovedOnce
<1> QED BY <1>7, <1>13

\* _submit_more_prepared on its own.
LEMMA SubmitBooks ==
  ASSUME Books, Steady, Handed(preparing),
         UNCHANGED <<k, target, prepared, ready, inflight, merging, added, skipped>>
  PROVE  Books'
<1>1. PICK at : at = [x \in Place |-> Holding[x]] OBVIOUS
<1>2. Moved(Holding, at, {}, "preparing", "ready") BY <1>1 DEF Moved
<1>3. "preparing" \in Place /\ "ready" \in Place BY DEF Place
<1>4. /\ at["preparing"] = preparing /\ at["ready"] = Range(ready)
      /\ at["inflight"] = {inflight[s] : s \in Slot} \ {None} /\ at["merging"] = Range(merging)
      /\ at["added"] = {p \in Path : added[p] = 1} /\ at["skipped"] = skipped
  BY <1>1, PlacesAre
<1>5. OnePlaceEach(Holding') BY <1>2, <1>3, <1>4, HeldAfter DEF Books
<1>6. TypeOK'
  <2>1. preparing \in SUBSET Path BY DEF Books, TypeOK
  <2>2. submitted' \in 0 .. target /\ preparing' \subseteq Path /\ preparing \subseteq preparing'
    BY <2>1, HandedPaths DEF Books
  <2> QED BY <2>1, <2>2 DEF Books, TypeOK, Steady
<1>7. NoneTwice' BY DEF Books, NoneTwice
<1> QED BY <1>5, <1>6, <1>7 DEF Books

\* _harvest_prepared, and what it submits.
LEMMA HarvestBooks ==
  ASSUME Books, Steady, NEW order \in SetToSeqs(prepared), prepared' = {}, ready' = ready \o order,
         Handed(preparing \ prepared), UNCHANGED <<k, target, inflight, merging, added, skipped>>
  PROVE  Books'
<1>1. /\ prepared \subseteq preparing /\ preparing \subseteq Path /\ ready \in Seq(Path)
      /\ IsInjective(ready) /\ OnePlaceEach(Holding)
  BY DEF Books, TypeOK, NoneTwice
<1>2. order \in Seq(Path) /\ IsInjective(order) /\ Range(order) = prepared
  <2>1. prepared \in SUBSET Path /\ IsFiniteSet(prepared) BY <1>1, FinitePaths
  <2> QED BY <2>1, OrderIs
<1>3. "preparing" \in Place /\ "ready" \in Place BY DEF Place
<1>4. Range(ready) \cap Range(order) = {}
  <2>1. \A p \in Path : ~ (p \in Holding["ready"] /\ p \in Holding["preparing"])
    BY <1>1, <1>3, PlacesApart
  <2> QED BY <2>1, <1>1, <1>2, PlacesAre
<1>5. ready' \in Seq(Path) /\ IsInjective(ready') /\ Range(ready') = Range(ready) \cup prepared
  BY <1>1, <1>2, <1>4, Joined
<1>6. PICK at : at = [x \in Place |-> IF x = "preparing" THEN Holding[x] \ prepared
                                      ELSE IF x = "ready" THEN Holding[x] \cup prepared ELSE Holding[x]]
  OBVIOUS
<1>7. Moved(Holding, at, prepared, "preparing", "ready") BY <1>6 DEF Moved
<1>8. /\ at["preparing"] = preparing \ prepared /\ at["ready"] = Range(ready) \cup prepared
      /\ at["inflight"] = {inflight[s] : s \in Slot} \ {None} /\ at["merging"] = Range(merging)
      /\ at["added"] = {p \in Path : added[p] = 1} /\ at["skipped"] = skipped
  BY <1>6, PlacesAre
<1>9. prepared \subseteq Holding["preparing"] BY <1>1, PlacesAre
<1>10. OnePlaceEach(Holding')
  <2>1. PICK from \in Place, to \in Place : from = "preparing" /\ to = "ready" BY <1>3
  <2>2. from # to /\ from # "none" /\ to # "none" BY <2>1
  <2>3. Moved(Holding, at, prepared, from, to) /\ prepared \subseteq Holding[from] BY <1>7, <1>9, <2>1
  <2>4. /\ Handed(at["preparing"]) /\ Range(ready') = at["ready"]
        /\ {inflight'[s] : s \in Slot} \ {None} = at["inflight"] /\ Range(merging') = at["merging"]
        /\ {p \in Path : added'[p] = 1} = at["added"] /\ skipped' = at["skipped"]
    BY <1>5, <1>8
  <2> QED BY <2>2, <2>3, <2>4, <1>1, HeldAfter DEF Books
<1>11. TypeOK'
  <2>1. preparing \ prepared \in SUBSET Path BY <1>1
  <2>2. submitted' \in 0 .. target /\ preparing' \subseteq Path BY <2>1, HandedPaths DEF Books
  <2> QED BY <2>1, <2>2, <1>5 DEF Books, TypeOK, Steady
<1>12. NoneTwice' BY <1>5 DEF Books, NoneTwice
<1> QED BY <1>10, <1>11, <1>12 DEF Books

\* A path without tokens is passed over.
LEMMA SkipBooks ==
  ASSUME Books, Steady, NEW p, Popped(p), Skip(p), Handed(preparing)
  PROVE  Books'
<1>1. /\ p \in Path /\ p \in Range(ready) /\ Rest \in Seq(Path) /\ IsInjective(Rest)
      /\ Range(Rest) = Range(ready) \ {p}
  BY PoppedIs DEF Books
<1>2. /\ p \in Empty /\ skipped' = skipped \cup {p} /\ ready' = Rest
      /\ UNCHANGED <<k, target, prepared, inflight, merging, added>>
  BY DEF Skip, slots
<1>3. "ready" \in Place /\ "skipped" \in Place BY DEF Place
<1>4. PICK at : at = [x \in Place |-> IF x = "ready" THEN Holding[x] \ {p}
                                      ELSE IF x = "skipped" THEN Holding[x] \cup {p} ELSE Holding[x]]
  OBVIOUS
<1>5. Moved(Holding, at, {p}, "ready", "skipped") BY <1>4 DEF Moved
<1>6. /\ at["preparing"] = preparing /\ at["ready"] = Range(ready) \ {p}
      /\ at["inflight"] = {inflight[s] : s \in Slot} \ {None} /\ at["merging"] = Range(merging)
      /\ at["added"] = {q \in Path : added[q] = 1} /\ at["skipped"] = skipped \cup {p}
  BY <1>4, PlacesAre
<1>7. {p} \subseteq Holding["ready"] BY <1>1, PlacesAre
<1>8. OnePlaceEach(Holding')
  <2>1. PICK from \in Place, to \in Place : from = "ready" /\ to = "skipped" BY <1>3
  <2>2. from # to /\ from # "none" /\ to # "none" BY <2>1
  <2>3. Moved(Holding, at, {p}, from, to) /\ {p} \subseteq Holding[from] BY <1>5, <1>7, <2>1
  <2>4. /\ Handed(at["preparing"]) /\ Range(ready') = at["ready"]
        /\ {inflight'[s] : s \in Slot} \ {None} = at["inflight"] /\ Range(merging') = at["merging"]
        /\ {q \in Path : added'[q] = 1} = at["added"] /\ skipped' = at["skipped"]
    BY <1>1, <1>2, <1>6
  <2> QED BY <2>2, <2>3, <2>4, HeldAfter DEF Books
<1>9. TypeOK'
  <2>1. preparing \in SUBSET Path BY DEF Books, TypeOK
  <2>2. submitted' \in 0 .. target /\ preparing' \subseteq Path /\ preparing \subseteq preparing'
    BY <2>1, HandedPaths DEF Books
  <2> QED BY <2>1, <2>2, <1>1, <1>2 DEF Books, TypeOK, Steady
<1>10. NoneTwice' BY <1>1, <1>2 DEF Books, NoneTwice
<1> QED BY <1>8, <1>9, <1>10 DEF Books

\* A path is launched on a slot that is free.
LEMMA LaunchBooks ==
  ASSUME Books, Steady, NEW p, Popped(p), NEW s \in Slot, inflight[s] = None, Launch(p, s),
         Handed(preparing)
  PROVE  Books'
<1>1. /\ p \in Path /\ p \in Range(ready) /\ Rest \in Seq(Path) /\ IsInjective(Rest)
      /\ Range(Rest) = Range(ready) \ {p}
  BY PoppedIs DEF Books
<1>2. /\ inflight' = [inflight EXCEPT ![s] = p] /\ ready' = Rest
      /\ UNCHANGED <<k, target, prepared, merging, added, skipped>>
  BY DEF Launch, sums
<1>3. "ready" \in Place /\ "inflight" \in Place BY DEF Place
<1>4. PICK at : at = [x \in Place |-> IF x = "ready" THEN Holding[x] \ {p}
                                      ELSE IF x = "inflight" THEN Holding[x] \cup {p} ELSE Holding[x]]
  OBVIOUS
<1>5. Moved(Holding, at, {p}, "ready", "inflight") BY <1>4 DEF Moved
<1>6. /\ at["preparing"] = preparing /\ at["ready"] = Range(ready) \ {p}
      /\ at["inflight"] = ({inflight[t] : t \in Slot} \ {None}) \cup {p} /\ at["merging"] = Range(merging)
      /\ at["added"] = {q \in Path : added[q] = 1} /\ at["skipped"] = skipped
  BY <1>4, PlacesAre
<1>7. {p} \subseteq Holding["ready"] BY <1>1, PlacesAre
<1>8. inflight \in [Slot -> Path \cup {None}] /\ p # None
  <2>1. None \notin Path BY LegacyParameters DEF LegacyParameters, Path
  <2> QED BY <2>1, <1>1 DEF Books, TypeOK
<1>9. \A t \in Slot : inflight'[t] = IF t = s THEN p ELSE inflight[t] BY <1>2, <1>8
<1>10. {inflight'[t] : t \in Slot} \ {None} = ({inflight[t] : t \in Slot} \ {None}) \cup {p}
  BY <1>8, <1>9
<1>11. OnePlaceEach(Holding')
  <2>1. PICK from \in Place, to \in Place : from = "ready" /\ to = "inflight" BY <1>3
  <2>2. from # to /\ from # "none" /\ to # "none" BY <2>1
  <2>3. Moved(Holding, at, {p}, from, to) /\ {p} \subseteq Holding[from] BY <1>5, <1>7, <2>1
  <2>4. /\ Handed(at["preparing"]) /\ Range(ready') = at["ready"]
        /\ {inflight'[t] : t \in Slot} \ {None} = at["inflight"] /\ Range(merging') = at["merging"]
        /\ {q \in Path : added'[q] = 1} = at["added"] /\ skipped' = at["skipped"]
    BY <1>1, <1>2, <1>6, <1>10
  <2> QED BY <2>2, <2>3, <2>4, HeldAfter DEF Books
<1>12. TypeOK'
  <2>1. preparing \in SUBSET Path BY DEF Books, TypeOK
  <2>2. submitted' \in 0 .. target /\ preparing' \subseteq Path /\ preparing \subseteq preparing'
    BY <2>1, HandedPaths DEF Books
  <2>3. inflight' \in [Slot -> Path \cup {None}] BY <1>1, <1>2, <1>8
  <2> QED BY <2>1, <2>2, <2>3, <1>1, <1>2 DEF Books, TypeOK, Steady
<1>13. NoneTwice'
  <2>1. \A t \in Slot : inflight[t] # p
    <3> SUFFICES ASSUME NEW t \in Slot, inflight[t] = p PROVE FALSE OBVIOUS
    <3>1. p \in Holding["inflight"] /\ p \in Holding["ready"] BY <1>1, <1>8, PlacesAre
    <3> QED BY <3>1, <1>1, <1>3, PlacesApart DEF Books
  <2>2. \A t, u \in Slot : inflight'[t] = inflight'[u] => t = u \/ inflight'[t] = None
    BY <2>1, <1>9 DEF Books, NoneTwice
  <2> QED BY <2>2, <1>1, <1>2 DEF Books, NoneTwice
<1> QED BY <1>11, <1>12, <1>13 DEF Books

\* Nothing moves.
LEMMA SameBooks ==
  ASSUME Books, Steady, prepared' \subseteq preparing,
         UNCHANGED <<k, target, submitted, preparing, ready, inflight, merging, added, skipped>>
  PROVE  Books'
<1>1. TypeOK' BY DEF Books, TypeOK, Steady
<1>2. NoneTwice' BY DEF Books, NoneTwice
<1>3. OnePlaceEach(Holding') BY DEF Books, Holding
<1> QED BY <1>1, <1>2, <1>3 DEF Books

\* _set_target_paths never goes below what has been handed to the pool.
LEMMA TargetIs ==
  ASSUME TypeOK, NEW j \in Nat
  PROVE  /\ TargetFor(j) \in 0 .. NumPaths /\ submitted <= TargetFor(j)
         /\ MaxRounds = 0 => TargetFor(j) = NumPaths
<1>1. submitted \in Nat /\ submitted <= NumPaths /\ NumPaths \in Nat BY SlotsAre DEF TypeOK
<1>2. PICK d \in Nat : d = Done /\ d <= NumPaths
  <2>1. {p \in Path : added[p] > 0} \in SUBSET Path OBVIOUS
  <2> QED BY <1>1, <2>1, FinitePaths DEF Done
<1>3. PICK r \in Nat : r = RoundBased(j) /\ r <= NumPaths /\ (MaxRounds = 0 => r = NumPaths)
  BY <1>1, RoundBasedIs
<1>4. PICK n \in Nat : n = submitted /\ n <= NumPaths BY <1>1
<1>5. PICK m : m = Max({d, n, r}) OBVIOUS
<1>6. d \in Int /\ n \in Int /\ r \in Int OBVIOUS
<1>7. m \in {d, n, r} /\ d <= m /\ n <= m /\ r <= m BY <1>5, <1>6, OfThree
<1>8. m = TargetFor(j) BY <1>2, <1>3, <1>4, <1>5 DEF TargetFor
<1>9. m \in Nat /\ m <= NumPaths BY <1>2, <1>3, <1>4, <1>7
<1>10. MaxRounds = 0 => m = NumPaths BY <1>1, <1>3, <1>7, <1>9
<1> QED BY <1>1, <1>4, <1>7, <1>8, <1>9, <1>10

\* Out of memory: the path stays at the head of the queue, one slot fewer is used.
LEMMA DownscaleBooks ==
  ASSUME Books, Steady, NEW p, Downscale(p)
  PROVE  Books' /\ (MaxRounds = 0 => target' = NumPaths)
<1>1. /\ k > 1 /\ k' = k - 1 /\ target' = TargetFor(k - 1)
      /\ UNCHANGED <<submitted, preparing, prepared, ready, inflight, merging, added, skipped>>
  BY DEF Downscale, Requeued, sums
<1>2. k \in 1 .. InitialParallel /\ k - 1 \in Nat BY <1>1, SlotsAre DEF Books, TypeOK
<1>3. /\ target' \in 0 .. NumPaths /\ submitted <= target'
      /\ MaxRounds = 0 => target' = NumPaths
  BY <1>1, <1>2, TargetIs DEF Books
<1>4. submitted' \in 0 .. target' BY <1>1, <1>3, SlotsAre DEF Books, TypeOK
<1>5. k' \in 1 .. InitialParallel BY <1>1, <1>2, SlotsAre
<1>6. TypeOK' BY <1>1, <1>3, <1>4, <1>5 DEF Books, TypeOK, Steady
<1>7. NoneTwice' BY <1>1 DEF Books, NoneTwice
<1>8. OnePlaceEach(Holding') BY <1>1 DEF Books, Holding
<1> QED BY <1>3, <1>6, <1>7, <1>8 DEF Books

\* What is in flight without the slots that have come back.
LEMMA InflightWithout ==
  ASSUME Books, NEW back \in SUBSET Slot, Collect(back)
  PROVE  /\ inflight' \in [Slot -> Path \cup {None}]
         /\ \A s \in Slot : inflight'[s] = IF s \in back THEN None ELSE inflight[s]
         /\ \A s, t \in Slot : inflight'[s] = inflight'[t] => s = t \/ inflight'[s] = None
         /\ {inflight'[s] : s \in Slot} \ {None}
              = ({inflight[s] : s \in Slot} \ {None}) \ ({inflight[s] : s \in back} \ {None})
<1>1. inflight \in [Slot -> Path \cup {None}] BY DEF Books, TypeOK
<1>2. \A s, t \in Slot : inflight[s] = inflight[t] => s = t \/ inflight[s] = None
  BY DEF Books, NoneTwice
<1>3. inflight' = [s \in Slot |-> IF s \in back THEN None ELSE inflight[s]] BY DEF Collect
<1>4. \A s \in Slot : inflight'[s] = IF s \in back THEN None ELSE inflight[s] BY <1>3
<1>5. inflight' \in [Slot -> Path \cup {None}] BY <1>1, <1>3
<1>6. \A s, t \in Slot : inflight'[s] = inflight'[t] => s = t \/ inflight'[s] = None BY <1>2, <1>4
<1>7. ASSUME NEW p
      PROVE  p \in {inflight'[s] : s \in Slot} \ {None}
               <=> p \in ({inflight[s] : s \in Slot} \ {None}) \ ({inflight[s] : s \in back} \ {None})
  <2>1. ASSUME NEW s \in Slot, p = inflight'[s], p # None
        PROVE  p = inflight[s] /\ \A t \in back : inflight[t] # p
    BY <2>1, <1>2, <1>4
  <2>2. ASSUME NEW s \in Slot, p = inflight[s], p # None, \A t \in back : inflight[t] # p
        PROVE  p = inflight'[s]
    BY <2>2, <1>4
  <2> QED BY <2>1, <2>2
<1> QED BY <1>4, <1>5, <1>6, <1>7

\* The paths that have come back wait to be added.
LEMMA CollectBooks ==
  ASSUME Books, Steady, NEW back \in SUBSET {s \in Slot : inflight[s] # None}, Collect(back),
         NEW order \in SetToSeqs(back),
         merging' = merging \o [i \in DOMAIN order |-> inflight[order[i]]],
         UNCHANGED <<k, target, submitted, preparing, prepared, ready, added, skipped>>
  PROVE  Books'
<1>1. /\ inflight \in [Slot -> Path \cup {None}] /\ merging \in Seq(Path) /\ IsInjective(merging)
      /\ \A s, t \in Slot : inflight[s] = inflight[t] => s = t \/ inflight[s] = None
  BY DEF Books, TypeOK, NoneTwice
<1>2. order \in Seq(Slot) /\ IsInjective(order) /\ Range(order) = back
  <2>1. back \in SUBSET Slot OBVIOUS
  <2>2. IsFiniteSet(back) BY <2>1, FinitePaths
  <2> QED BY <2>1, <2>2, OrderIs
<1>3. PICK l \in Nat : DOMAIN order = 1 .. l BY <1>2, LenProperties
<1>4. PICK came : came = [i \in 1 .. l |-> inflight[order[i]]] OBVIOUS
<1>5. \A i \in 1 .. l : order[i] \in back BY <1>2, <1>3 DEF Range
<1>6. \A i \in 1 .. l : inflight[order[i]] \in Path
  <2>1. \A s \in back : s \in Slot /\ inflight[s] # None OBVIOUS
  <2> QED BY <2>1, <1>1, <1>5
<1>7. came \in Seq(Path)
  <2>1. came \in [1 .. l -> Path] BY <1>4, <1>6
  <2> QED BY <2>1, SeqDef
<1>8. IsInjective(came)
  <2> SUFFICES ASSUME NEW i \in 1 .. l, NEW j \in 1 .. l, came[i] = came[j] PROVE i = j
    BY <1>4 DEF IsInjective
  <2>1. order[i] \in Slot /\ order[j] \in Slot /\ inflight[order[i]] # None BY <1>5
  <2>2. inflight[order[i]] = inflight[order[j]] BY <1>4
  <2>3. order[i] = order[j] BY <2>1, <2>2, <1>1
  <2> QED BY <2>3, <1>2, <1>3 DEF IsInjective
<1>9. PICK gone : gone = {inflight[s] : s \in back} \ {None} OBVIOUS
<1>10. Range(came) = gone
  <2>1. ASSUME NEW p \in Range(came) PROVE p \in gone
    <3>1. PICK i \in 1 .. l : p = inflight[order[i]] BY <2>1, <1>4 DEF Range
    <3> QED BY <3>1, <1>5, <1>9
  <2>2. ASSUME NEW p \in gone PROVE p \in Range(came)
    <3>1. PICK s \in back : p = inflight[s] BY <2>2, <1>9
    <3>2. PICK i \in 1 .. l : s = order[i] BY <1>2, <1>3 DEF Range
    <3> QED BY <3>1, <3>2, <1>4 DEF Range
  <2> QED BY <2>1, <2>2
<1>11. gone \subseteq Holding["inflight"] BY <1>9, PlacesAre
<1>12. "inflight" \in Place /\ "merging" \in Place BY DEF Place
<1>13. Range(merging) \cap Range(came) = {}
  <2>1. \A p \in Path : ~ (p \in Holding["merging"] /\ p \in Holding["inflight"])
    BY <1>12, PlacesApart DEF Books
  <2>2. gone \subseteq Path BY <1>1, <1>9
  <2> QED BY <2>1, <2>2, <1>10, <1>11, PlacesAre
<1>14. merging' \in Seq(Path) /\ IsInjective(merging') /\ Range(merging') = Range(merging) \cup gone
  <2>1. merging' = merging \o came BY <1>3, <1>4
  <2>2. merging \in Seq(Path) /\ IsInjective(merging) BY <1>1
  <2>3. /\ merging \o came \in Seq(Path) /\ IsInjective(merging \o came)
        /\ Range(merging \o came) = Range(merging) \cup Range(came)
    BY <2>2, <1>7, <1>8, <1>13, Joined
  <2> QED BY <2>1, <2>3, <1>10
<1>15. /\ inflight' \in [Slot -> Path \cup {None}]
       /\ \A s, t \in Slot : inflight'[s] = inflight'[t] => s = t \/ inflight'[s] = None
       /\ {inflight'[s] : s \in Slot} \ {None} = ({inflight[s] : s \in Slot} \ {None}) \ gone
  <2>1. back \in SUBSET Slot OBVIOUS
  <2> QED BY <2>1, <1>9, InflightWithout
<1>16. PICK at : at = [x \in Place |-> IF x = "inflight" THEN Holding[x] \ gone
                                       ELSE IF x = "merging" THEN Holding[x] \cup gone ELSE Holding[x]]
  OBVIOUS
<1>17. OnePlaceEach(Holding')
  <2>1. PICK from \in Place, to \in Place : from = "inflight" /\ to = "merging" BY <1>12
  <2>2. from # to /\ from # "none" /\ to # "none" BY <2>1
  <2>3. Moved(Holding, at, gone, from, to) /\ gone \subseteq Holding[from]
    BY <2>1, <1>11, <1>16 DEF Moved
  <2>4. /\ at["preparing"] = preparing /\ at["ready"] = Range(ready)
        /\ at["inflight"] = ({inflight[t] : t \in Slot} \ {None}) \ gone
        /\ at["merging"] = Range(merging) \cup gone
        /\ at["added"] = {q \in Path : added[q] = 1} /\ at["skipped"] = skipped
    BY <1>16, PlacesAre
  <2>5. Handed(at["preparing"]) BY <2>4, HandedNone DEF Books
  <2>6. /\ Range(ready') = at["ready"]
        /\ {inflight'[t] : t \in Slot} \ {None} = at["inflight"] /\ Range(merging') = at["merging"]
        /\ {q \in Path : added'[q] = 1} = at["added"] /\ skipped' = at["skipped"]
    BY <2>4, <1>14, <1>15
  <2> QED BY <2>2, <2>3, <2>5, <2>6, HeldAfter DEF Books
<1>18. TypeOK' BY <1>14, <1>15 DEF Books, TypeOK, Steady
<1>19. NoneTwice' BY <1>14, <1>15 DEF Books, NoneTwice
<1> QED BY <1>17, <1>18, <1>19 DEF Books

\* The gradients of the first path that waits are added.
LEMMA MergeBooks ==
  ASSUME Books, Steady, merging # <<>>, added' = [added EXCEPT ![Head(merging)] = @ + 1],
         merging' = Tail(merging),
         UNCHANGED <<k, target, submitted, preparing, prepared, ready, inflight, skipped>>
  PROVE  Books'
<1>1. merging \in Seq(Path) /\ IsInjective(merging) /\ added \in [Path -> {0, 1}]
  BY DEF Books, TypeOK, NoneTwice
<1>2. PICK p : p = Head(merging) OBVIOUS
<1>3. /\ p \in Range(merging) /\ merging' \in Seq(Path) /\ IsInjective(merging')
      /\ Range(merging') = Range(merging) \ {p}
  BY <1>1, <1>2, WithoutFirst
<1>4. p \in Path
  <2>1. merging \in [1 .. Len(merging) -> Path] /\ DOMAIN merging = 1 .. Len(merging)
    BY <1>1, LenProperties
  <2> QED BY <2>1, <1>3 DEF Range
<1>5. "merging" \in Place /\ "added" \in Place BY DEF Place
<1>6. added[p] = 0
  <2>1. ~ (p \in Holding["merging"] /\ p \in Holding["added"])
    BY <1>4, <1>5, PlacesApart DEF Books
  <2>2. added[p] # 1 BY <2>1, <1>3, <1>4, PlacesAre
  <2> QED BY <2>2, <1>1, <1>4
<1>7. added' \in [Path -> {0, 1}] /\ \A q \in Path : added'[q] = IF q = p THEN 1 ELSE added[q]
  BY <1>1, <1>2, <1>4, <1>6
<1>8. {q \in Path : added'[q] = 1} = {q \in Path : added[q] = 1} \cup {p} BY <1>4, <1>7
<1>9. PICK at : at = [x \in Place |-> IF x = "merging" THEN Holding[x] \ {p}
                                      ELSE IF x = "added" THEN Holding[x] \cup {p} ELSE Holding[x]]
  OBVIOUS
<1>10. OnePlaceEach(Holding')
  <2>1. PICK from \in Place, to \in Place : from = "merging" /\ to = "added" BY <1>5
  <2>2. from # to /\ from # "none" /\ to # "none" BY <2>1
  <2>3. Moved(Holding, at, {p}, from, to) /\ {p} \subseteq Holding[from]
    BY <2>1, <1>3, <1>9, PlacesAre DEF Moved
  <2>4. /\ at["preparing"] = preparing /\ at["ready"] = Range(ready)
        /\ at["inflight"] = {inflight[t] : t \in Slot} \ {None}
        /\ at["merging"] = Range(merging) \ {p}
        /\ at["added"] = {q \in Path : added[q] = 1} \cup {p} /\ at["skipped"] = skipped
    BY <1>9, PlacesAre
  <2>5. Handed(at["preparing"]) BY <2>4, HandedNone DEF Books
  <2>6. /\ Range(ready') = at["ready"]
        /\ {inflight'[t] : t \in Slot} \ {None} = at["inflight"] /\ Range(merging') = at["merging"]
        /\ {q \in Path : added'[q] = 1} = at["added"] /\ skipped' = at["skipped"]
    BY <2>4, <1>3, <1>8
  <2> QED BY <2>2, <2>3, <2>5, <2>6, HeldAfter DEF Books
<1>11. TypeOK' BY <1>3, <1>7 DEF Books, TypeOK, Steady
<1>12. NoneTwice' BY <1>3 DEF Books, NoneTwice
<1> QED BY <1>10, <1>11, <1>12 DEF Books

\* How many of the slots hold a path: one, if it is there.
LEMMA SlotsWith ==
  ASSUME Books, NEW some \in SUBSET Slot, NEW p \in Path
  PROVE  Cardinality({s \in some : inflight[s] = p})
           = IF p \in {inflight[s] : s \in some} THEN 1 ELSE 0
<1>1. p # None BY LegacyParameters DEF LegacyParameters, Path
<1>2. CASE p \notin {inflight[s] : s \in some}
  <2>1. {s \in some : inflight[s] = p} = {} BY <1>2
  <2> QED BY <2>1, <1>2, FS_EmptySet
<1>3. ASSUME NEW t \in some, inflight[t] = p
      PROVE  Cardinality({s \in some : inflight[s] = p}) = 1
  <2>1. {s \in some : inflight[s] = p} = {t} BY <1>1, <1>3 DEF Books, NoneTwice
  <2> QED BY <2>1, FS_Singleton
<1> QED BY <1>2, <1>3

\* At the end of a round what was launched in it is added.
LEMMA RoundEndBooks ==
  ASSUME Books, Steady, NEW filled \in SUBSET Slot, Collect(filled),
         added' = [p \in Path |-> added[p] + Cardinality({s \in filled : inflight[s] = p})],
         UNCHANGED <<k, target, submitted, preparing, prepared, ready, merging, skipped>>
  PROVE  /\ Books'
         /\ {p \in Path : added'[p] = 1}
              = {p \in Path : added[p] = 1} \cup ({inflight[s] : s \in filled} \ {None})
<1>1. inflight \in [Slot -> Path \cup {None}] /\ added \in [Path -> {0, 1}] BY DEF Books, TypeOK
<1>2. PICK gone : gone = {inflight[s] : s \in filled} \ {None} OBVIOUS
<1>3. gone \subseteq Path /\ gone \subseteq Holding["inflight"] BY <1>1, <1>2, PlacesAre
<1>4. "inflight" \in Place /\ "added" \in Place BY DEF Place
<1>5. \A p \in gone : added[p] = 0
  <2> SUFFICES ASSUME NEW p \in gone PROVE added[p] = 0 OBVIOUS
  <2>1. p \in Path /\ p \in Holding["inflight"] BY <1>3
  <2>2. p \notin Holding["added"] BY <2>1, <1>4, PlacesApart DEF Books
  <2>3. added[p] # 1 BY <2>1, <2>2, PlacesAre
  <2> QED BY <2>1, <2>3, <1>1
<1>6. \A p \in Path : added'[p] = IF p \in gone THEN 1 ELSE added[p]
  <2> SUFFICES ASSUME NEW p \in Path PROVE added'[p] = IF p \in gone THEN 1 ELSE added[p] OBVIOUS
  <2>1. p # None BY LegacyParameters DEF LegacyParameters, Path
  <2>2. Cardinality({s \in filled : inflight[s] = p}) = IF p \in gone THEN 1 ELSE 0
    BY <2>1, <1>2, SlotsWith
  <2>3. added'[p] = added[p] + Cardinality({s \in filled : inflight[s] = p}) OBVIOUS
  <2> QED BY <2>2, <2>3, <1>1, <1>5
<1>7. added' \in [Path -> {0, 1}] BY <1>1, <1>6
<1>8. {p \in Path : added'[p] = 1} = {p \in Path : added[p] = 1} \cup gone BY <1>3, <1>6
<1>9. /\ inflight' \in [Slot -> Path \cup {None}]
      /\ \A s, t \in Slot : inflight'[s] = inflight'[t] => s = t \/ inflight'[s] = None
      /\ {inflight'[s] : s \in Slot} \ {None} = ({inflight[s] : s \in Slot} \ {None}) \ gone
  BY <1>2, InflightWithout
<1>10. PICK at : at = [x \in Place |-> IF x = "inflight" THEN Holding[x] \ gone
                                       ELSE IF x = "added" THEN Holding[x] \cup gone ELSE Holding[x]]
  OBVIOUS
<1>11. OnePlaceEach(Holding')
  <2>1. PICK from \in Place, to \in Place : from = "inflight" /\ to = "added" BY <1>4
  <2>2. from # to /\ from # "none" /\ to # "none" BY <2>1
  <2>3. Moved(Holding, at, gone, from, to) /\ gone \subseteq Holding[from]
    BY <2>1, <1>3, <1>10 DEF Moved
  <2>4. /\ at["preparing"] = preparing /\ at["ready"] = Range(ready)
        /\ at["inflight"] = ({inflight[t] : t \in Slot} \ {None}) \ gone
        /\ at["merging"] = Range(merging)
        /\ at["added"] = {q \in Path : added[q] = 1} \cup gone /\ at["skipped"] = skipped
    BY <1>10, PlacesAre
  <2>5. Handed(at["preparing"]) BY <2>4, HandedNone DEF Books
  <2>6. /\ Range(ready') = at["ready"]
        /\ {inflight'[t] : t \in Slot} \ {None} = at["inflight"] /\ Range(merging') = at["merging"]
        /\ {q \in Path : added'[q] = 1} = at["added"] /\ skipped' = at["skipped"]
    BY <2>4, <1>8, <1>9
  <2> QED BY <2>2, <2>3, <2>5, <2>6, HeldAfter DEF Books
<1>12. TypeOK' BY <1>7, <1>9 DEF Books, TypeOK, Steady
<1>13. NoneTwice' BY <1>9 DEF Books, NoneTwice
<1> QED BY <1>2, <1>8, <1>11, <1>12, <1>13 DEF Books

-----------------------------------------------------------------------------
(* The event scheduler, step by step. *)

Course ==
  /\ Rounds
  /\ pc # "end" => outcome = "running"
  /\ MaxRounds = 0 => target = NumPaths
  /\ CompleteUnlessStranded

LEMMA IInvIs == IInv <=> Books /\ Course
BY DEF IInv, Books, Course

\* The slots in use and the free ones are slots.
LEMMA ActiveIs ==
  ASSUME TypeOK
  PROVE  /\ Active \in SUBSET Slot /\ Cardinality(Active) \in Nat
         /\ FreeSlots # {} => Min(FreeSlots) \in FreeSlots /\ Min(FreeSlots) \in Slot
<1>1. PICK n \in Nat : n = k /\ n <= InitialParallel BY SlotsAre DEF TypeOK
<1>2. \A s \in 0 .. n - 1 : s \in 0 .. InitialParallel - 1 BY <1>1, SlotsAre
<1>3. Active \in SUBSET Slot BY <1>1, <1>2 DEF Active, Slot
<1>4. FreeSlots \in SUBSET Slot BY <1>1, <1>2 DEF FreeSlots, Slot
<1>5. ASSUME FreeSlots # {} PROVE Min(FreeSlots) \in FreeSlots
  <2>1. PICK free \in SUBSET Nat : free = FreeSlots /\ free # {}
    <3>1. FreeSlots \in SUBSET Nat BY <1>4, SlotsAre DEF Slot
    <3> QED BY <3>1, <1>5
  <2>2. PICK Less : Less = OpToRel(<, Nat) OBVIOUS
  <2>3. PICK x \in free : \A y \in free : ~ (<<y, x>> \in Less)
    <3>1. IsWellFoundedOn(Less, Nat) BY <2>2, NatLessThanWellFounded
    <3> QED BY <3>1, <2>1, WFMin
  <2>4. \A y \in free : x <= y
    <3> SUFFICES ASSUME NEW y \in free PROVE x <= y OBVIOUS
    <3>1. <<y, x>> \in Nat \X Nat /\ <<y, x>>[1] = y /\ <<y, x>>[2] = x OBVIOUS
    <3>2. ~ (y < x) BY <2>2, <2>3, <3>1 DEF OpToRel
    <3> QED BY <3>2
  <2>5. Min(free) \in free BY <2>4 DEF Min
  <2> QED BY <2>1, <2>5
<1> QED BY <1>3, <1>4, <1>5, FinitePaths

EventPc == {"collect", "harvest", "launch", "merge"}

\* The event loop goes on.
LEMMA EventCourse ==
  ASSUME Books, Course, pc \in EventPc, pc' \in EventPc, UNCHANGED <<schedule, outcome>>,
         MaxRounds = 0 => target' = NumPaths
  PROVE  Course'
<1>1. schedule = "event" /\ outcome = "running"
  BY DEF Course, Rounds, EventPc
<1>2. schedule' = "event" /\ outcome' = "running" BY <1>1
<1>3. Rounds' BY <1>2 DEF Rounds, EventPc
<1>4. CompleteUnlessStranded' BY <1>2 DEF CompleteUnlessStranded
<1> QED BY <1>2, <1>3, <1>4 DEF Course

\* The call ends for want of memory.
LEMMA OutCourse ==
  ASSUME Books, Course, NEW p, RunOut(p)
  PROVE  Books' /\ Course'
<1>1. Steady /\ prepared' \subseteq preparing BY DEF RunOut, Steady, Books, TypeOK, preps
<1>2. UNCHANGED <<k, target, submitted, preparing, ready, inflight, merging, added, skipped>>
  BY DEF RunOut, preps, slots, sums
<1>3. Books' BY <1>1, <1>2, SameBooks
<1>4. pc' = "end" /\ outcome' = "oom" /\ schedule' = schedule BY DEF RunOut
<1>5. Rounds'
  <2>1. schedule' = "round" => merging' = <<>> BY <1>2, <1>4 DEF Course, Rounds
  <2> QED BY <2>1, <1>4 DEF Rounds
<1>6. CompleteUnlessStranded' BY <1>4 DEF CompleteUnlessStranded
<1> QED BY <1>2, <1>3, <1>4, <1>5, <1>6 DEF Course

LEMMA FirstSubmitStep ==
  ASSUME Books, Course, FirstSubmit
  PROVE  Books' /\ Course'
<1>1. /\ pc = "submit" /\ pc' = IF schedule = "event" THEN "collect" ELSE "round"
      /\ UNCHANGED <<schedule, outcome, launched, k, target, prepared, ready, inflight, merging,
                     added, skipped>>
  BY DEF FirstSubmit, slots, sums
<1>2. Handed(preparing)
  <2>1. preparing \in SUBSET Path /\ ready \in Seq(Path) /\ 0 \in Nat BY DEF Books, TypeOK
  <2>2. SubmitMore(preparing, ready, 0) BY DEF FirstSubmit
  <2> QED BY <2>1, <2>2, SubmitMoreIs DEF Books, Handed
<1>3. Books'
  <2>1. Steady BY <1>1 DEF Steady, Books, TypeOK
  <2> QED BY <2>1, <1>1, <1>2, SubmitBooks
<1>4. outcome' = "running" BY <1>1 DEF Course
<1>5. Rounds' BY <1>1 DEF Course, Rounds, Books, TypeOK
<1>6. CompleteUnlessStranded' BY <1>4 DEF CompleteUnlessStranded
<1> QED BY <1>1, <1>3, <1>4, <1>5, <1>6 DEF Course

\* The event loop ends with every path up to the target added, without tokens, or
\* in a slot that is no longer looked at.
LEMMA EventEndStep ==
  ASSUME Books, Course, EventEnd
  PROVE  Books' /\ Course'
<1>1. /\ pc = "collect" /\ pc' = "end" /\ Idle
      /\ UNCHANGED <<schedule, launched, k, target, preps, slots, sums>>
  BY DEF EventEnd
<1>2. UNCHANGED <<submitted, preparing, prepared, ready, inflight, merging, added, skipped>>
  BY <1>1 DEF preps, slots, sums
<1>3. Books'
  <2>1. Steady /\ prepared' \subseteq preparing BY <1>1, <1>2 DEF Steady, Books, TypeOK
  <2> QED BY <2>1, <1>1, <1>2, SameBooks
<1>4. schedule' = "event" BY <1>1 DEF Course, Rounds
<1>5. Rounds' BY <1>1, <1>4 DEF Rounds
<1>6. ASSUME NEW p \in 0 .. target - 1 PROVE added[p] = 1 \/ p \in Empty \/ p \in Stranded
  <2>1. p \in Path /\ p < submitted
    <3>1. target \in Nat /\ target <= NumPaths /\ NumPaths \in Nat BY SlotsAre DEF Books, TypeOK
    <3>2. submitted \in Nat /\ submitted >= target BY <1>1 DEF Idle, Books, TypeOK
    <3> QED BY <3>1, <3>2 DEF Path
  <2>2. PICK x \in Place : p \in Holding[x] BY <2>1 DEF Books, OnePlaceEach
  <2>3. p \notin Holding["none"]
    <3>1. submitted \in Int BY DEF Books, TypeOK
    <3> QED BY <3>1, <2>1, PlacesAre
  <2>4. Holding["preparing"] = {} /\ Holding["ready"] = {} /\ Holding["merging"] = {}
    <3>1. Range(<<>>) = {}
      <4>1. DOMAIN <<>> = {} BY EmptySeq
      <4> QED BY <4>1 DEF Range
    <3> QED BY <3>1, <1>1, PlacesAre DEF Idle
  <2>5. CASE p \in Holding["inflight"]
    <3>1. PICK s \in Slot : p = inflight[s] /\ p # None BY <2>5, PlacesAre
    <3>2. s \notin 0 .. k - 1 BY <3>1, <1>1 DEF Idle, Active
    <3>3. s \in k .. InitialParallel - 1 BY <3>2, SlotsAre DEF Slot, Books, TypeOK
    <3> QED BY <3>1, <3>3 DEF Stranded
  <2>6. p \in Holding["added"] => added[p] = 1 BY PlacesAre
  <2>7. p \in Holding["skipped"] => p \in Empty BY PlacesAre DEF Books, TypeOK
  <2> QED BY <2>2, <2>3, <2>4, <2>5, <2>6, <2>7 DEF Place
<1>7. CompleteUnlessStranded'
  <2>1. Stranded' = Stranded BY <1>1, <1>2 DEF Stranded
  <2> QED BY <2>1, <1>1, <1>2, <1>4, <1>6 DEF CompleteUnlessStranded, Course
<1> QED BY <1>1, <1>3, <1>5, <1>7 DEF Course

\* What a harvest, and what a launch, hand to the pool.
LEMMA HarvestHands ==
  ASSUME Books, NEW order \in SetToSeqs(prepared),
         SubmitMore(preparing \ prepared, ready \o order, Cardinality(Active))
  PROVE  Handed(preparing \ prepared)
<1>1. PICK now \in SUBSET Path : now = preparing \ prepared BY DEF Books, TypeOK
<1>2. PICK busy \in Nat : busy = Cardinality(Active) BY ActiveIs DEF Books
<1>3. order \in Seq(Path)
  <2>1. prepared \in SUBSET Path BY DEF Books, TypeOK
  <2>2. IsFiniteSet(prepared) BY <2>1, FinitePaths
  <2> QED BY <2>1, <2>2, OrderIs
<1>4. PICK queue \in Seq(Path) : queue = ready \o order
  <2>1. ready \in Seq(Path) BY DEF Books, TypeOK
  <2>2. ready \o order \in Seq(Path) BY <2>1, <1>3, ConcatProperties
  <2> QED BY <2>2
<1>5. SubmitMore(now, queue, busy) BY <1>1, <1>2, <1>4
<1>6. Handed(now) BY <1>5, SubmitMoreIs DEF Books, Handed
<1> QED BY <1>1, <1>6

LEMMA LaunchHands ==
  ASSUME Books, NEW p, Popped(p), NEW busy \in Nat, SubmitMore(preparing, Rest, busy)
  PROVE  Handed(preparing)
<1>1. preparing \in SUBSET Path BY DEF Books, TypeOK
<1>2. PICK queue \in Seq(Path) : queue = Rest BY PoppedIs DEF Books
<1>3. SubmitMore(preparing, queue, busy) BY <1>2
<1> QED BY <1>1, <1>3, SubmitMoreIs DEF Books, Handed

LEMMA EventCollectStep ==
  ASSUME Books, Course, EventCollect
  PROVE  Books' /\ Course'
<1>1. /\ pc = "collect" /\ pc' = "harvest"
      /\ UNCHANGED <<schedule, outcome, launched, k, target, submitted, preparing, prepared, ready,
                     added, skipped>>
  BY DEF EventCollect, preps
<1>2. PICK back : back = Active \cap landed OBVIOUS
<1>3. back \in SUBSET {s \in Slot : inflight[s] # None}
  <2>1. Active \in SUBSET Slot BY ActiveIs DEF Books
  <2> QED BY <2>1, <1>2 DEF Active
<1>4. PICK order \in SetToSeqs(back) :
        merging' = merging \o [i \in DOMAIN order |-> inflight[order[i]]]
  BY <1>2 DEF EventCollect
<1>5. Collect(back) BY <1>2 DEF EventCollect
<1>6. Steady BY <1>1 DEF Steady, Books, TypeOK
<1>7. Books' BY <1>1, <1>3, <1>4, <1>5, <1>6, CollectBooks
<1>8. Course'
  <2>1. pc \in EventPc /\ pc' \in EventPc /\ UNCHANGED <<schedule, outcome, target>>
    BY <1>1 DEF EventPc
  <2> QED BY <2>1, EventCourse DEF Course
<1> QED BY <1>7, <1>8

LEMMA EventHarvestStep ==
  ASSUME Books, Course, EventHarvest
  PROVE  Books' /\ Course'
<1>1. /\ pc = "harvest" /\ pc' = "launch"
      /\ UNCHANGED <<schedule, outcome, launched, k, target, inflight, merging, added, skipped>>
  BY DEF EventHarvest, slots, sums
<1>2. PICK order \in SetToSeqs(prepared) :
        /\ Harvested(order) /\ ready' = ready \o order
        /\ SubmitMore(preparing \ prepared, ready \o order, Cardinality(Active))
  BY DEF EventHarvest
<1>3. prepared' = {} BY <1>2 DEF Harvested
<1>4. Handed(preparing \ prepared) BY <1>2, HarvestHands
<1>5. Steady BY <1>1 DEF Steady, Books, TypeOK
<1>6. Books' BY <1>1, <1>2, <1>3, <1>4, <1>5, HarvestBooks
<1>7. Course'
  <2>1. pc \in EventPc /\ pc' \in EventPc /\ UNCHANGED <<schedule, outcome, target>>
    BY <1>1 DEF EventPc
  <2> QED BY <2>1, EventCourse DEF Course
<1> QED BY <1>6, <1>7

LEMMA EventLaunchStep ==
  ASSUME Books, Course, EventLaunch
  PROVE  Books' /\ Course'
<1>1. pc = "launch" /\ FreeSlots # {} BY DEF EventLaunch
<1>2. PICK p \in Path :
       /\ Popped(p)
       /\ \/ /\ Skip(p) /\ SubmitMore(preparing, Rest, Cardinality(Active))
             /\ UNCHANGED control
          \/ /\ Launch(p, Min(FreeSlots))
             /\ SubmitMore(preparing, Rest, Cardinality(Active) + 1)
             /\ UNCHANGED control
          \/ /\ Downscale(p)
             /\ pc' = "merge"
             /\ UNCHANGED <<schedule, oomInRound, outcome, launched>>
          \/ RunOut(p)
  BY DEF EventLaunch
<1>3. ASSUME UNCHANGED control, target' = target PROVE Steady /\ Course'
  <2>1. UNCHANGED <<schedule, pc, outcome, launched>> BY <1>3 DEF control
  <2>2. Steady BY <2>1 DEF Steady, Books, TypeOK
  <2>3. pc \in EventPc /\ pc' \in EventPc BY <1>1, <2>1 DEF EventPc
  <2> QED BY <2>1, <2>2, <2>3, <1>3, EventCourse DEF Course
<1>4. CASE Skip(p) /\ SubmitMore(preparing, Rest, Cardinality(Active)) /\ UNCHANGED control
  <2>1. Steady /\ Course' BY <1>3, <1>4 DEF Skip
  <2>2. Cardinality(Active) \in Nat BY ActiveIs DEF Books
  <2>3. Handed(preparing) BY <1>2, <1>4, <2>2, LaunchHands
  <2> QED BY <2>1, <2>3, <1>2, <1>4, SkipBooks
<1>5. CASE /\ Launch(p, Min(FreeSlots)) /\ SubmitMore(preparing, Rest, Cardinality(Active) + 1)
           /\ UNCHANGED control
  <2>1. Steady /\ Course' BY <1>3, <1>5 DEF Launch
  <2>2. Cardinality(Active) + 1 \in Nat BY ActiveIs DEF Books
  <2>3. Handed(preparing) BY <1>2, <1>5, <2>2, LaunchHands
  <2>4. PICK s \in Slot : s = Min(FreeSlots) /\ inflight[s] = None
    BY <1>1, ActiveIs DEF Books, FreeSlots
  <2> QED BY <2>1, <2>3, <2>4, <1>2, <1>5, LaunchBooks
<1>6. CASE Downscale(p) /\ pc' = "merge" /\ UNCHANGED <<schedule, oomInRound, outcome, launched>>
  <2>1. Steady BY <1>6 DEF Steady, Books, TypeOK
  <2>2. Books' /\ (MaxRounds = 0 => target' = NumPaths) BY <2>1, <1>6, DownscaleBooks
  <2>3. pc \in EventPc /\ pc' \in EventPc BY <1>1, <1>6 DEF EventPc
  <2> QED BY <2>2, <2>3, <1>6, EventCourse
<1>7. CASE RunOut(p) BY <1>7, OutCourse
<1> QED BY <1>2, <1>4, <1>5, <1>6, <1>7

LEMMA EventLaunchedStep ==
  ASSUME Books, Course, EventLaunched
  PROVE  Books' /\ Course'
<1>1. /\ pc = "launch" /\ pc' = "merge"
      /\ UNCHANGED <<schedule, outcome, launched, k, target, submitted, preparing, prepared,
                     inflight, merging, added, skipped>>
  BY DEF EventLaunched, slots, sums
<1>2. ready' = ready
  <2>1. CASE FreeSlots = {} BY <2>1 DEF EventLaunched
  <2>2. CASE FreeSlots # {}
    <3>1. DOMAIN ready = {} /\ ready' = <<>> BY <2>2, AllInReach DEF EventLaunched, Books
    <3>2. ready \in Seq(Path) BY DEF Books, TypeOK
    <3>3. ready = <<>>
      <4>1. DOMAIN ready = 1 .. Len(ready) /\ Len(ready) \in Nat BY <3>2, LenProperties
      <4>2. Len(ready) = 0 BY <4>1, <3>1
      <4> QED BY <4>2, <3>2, EmptySeq
    <3> QED BY <3>1, <3>3
  <2> QED BY <2>1, <2>2
<1>3. Books'
  <2>1. Steady /\ prepared' \subseteq preparing BY <1>1 DEF Steady, Books, TypeOK
  <2> QED BY <2>1, <1>1, <1>2, SameBooks
<1>4. Course'
  <2>1. pc \in EventPc /\ pc' \in EventPc BY <1>1 DEF EventPc
  <2> QED BY <2>1, <1>1, EventCourse DEF Course
<1> QED BY <1>3, <1>4

LEMMA EventMergeStep ==
  ASSUME Books, Course, EventMerge
  PROVE  Books' /\ Course'
<1>1. /\ pc = "merge" /\ pc' = "collect"
      /\ UNCHANGED <<schedule, outcome, launched, k, target, submitted, preparing, prepared, ready,
                     inflight, skipped>>
  BY DEF EventMerge, preps, slots
<1>2. Steady /\ prepared' \subseteq preparing BY <1>1 DEF Steady, Books, TypeOK
<1>3. CASE merging = <<>>
  <2>1. UNCHANGED <<merging, added>> BY <1>3 DEF EventMerge
  <2> QED BY <2>1, <1>1, <1>2, SameBooks, EventCourse DEF EventPc, Course
<1>4. CASE merging # <<>>
  <2>1. added' = [added EXCEPT ![Head(merging)] = @ + 1] /\ merging' = Tail(merging)
    BY <1>4 DEF EventMerge
  <2>2. Books' BY <2>1, <1>1, <1>2, <1>4, MergeBooks
  <2> QED BY <2>2, <1>1, EventCourse DEF EventPc, Course
<1> QED BY <1>3, <1>4

-----------------------------------------------------------------------------
(* The round scheduler, step by step. *)

\* A path below what has been handed to the pool, when no queue and no slot holds it.
LEMMA NowhereElse ==
  ASSUME Books, NEW p \in Path, p < submitted, preparing = {}, ready = <<>>, merging = <<>>,
         \A s \in Slot : inflight[s] = None
  PROVE  added[p] = 1 \/ (p \in skipped /\ p \in Empty)
<1>1. PICK x \in Place : p \in Holding[x] BY DEF Books, OnePlaceEach
<1>2. p \notin Holding["none"]
  <2>1. submitted \in Int BY DEF Books, TypeOK
  <2> QED BY <2>1, PlacesAre
<1>3. Holding["preparing"] = {} /\ Holding["ready"] = {} /\ Holding["merging"] = {}
  <2>1. Range(<<>>) = {}
    <3>1. DOMAIN <<>> = {} BY EmptySeq
    <3> QED BY <3>1 DEF Range
  <2> QED BY <2>1, PlacesAre
<1>4. Holding["inflight"] = {} BY PlacesAre
<1>5. p \in Holding["added"] => added[p] = 1 BY PlacesAre
<1>6. p \in Holding["skipped"] => p \in skipped /\ p \in Empty BY PlacesAre DEF Books, TypeOK
<1> QED BY <1>1, <1>2, <1>3, <1>4, <1>5, <1>6 DEF Place

\* What a round loop returns when it ends.
LEMMA RoundCourse ==
  ASSUME Course, schedule = "round", UNCHANGED <<schedule, target, merging>>,
         pc' = "end", \A s \in Slot : inflight'[s] = None,
         \A p \in 0 .. target - 1 : added'[p] = 1 \/ p \in Empty,
         k' \in 1 .. InitialParallel
  PROVE  Course'
<1>1. Rounds' BY DEF Course, Rounds
<1>2. Stranded' = {}
  <2>1. \A t \in k' .. InitialParallel - 1 : t \in Slot BY SlotsAre DEF Slot
  <2>2. {t \in k' .. InitialParallel - 1 : inflight'[t] # None} = {} BY <2>1
  <2> QED BY <2>2 DEF Stranded
<1>3. CompleteUnlessStranded' BY <1>2 DEF CompleteUnlessStranded, Course
<1> QED BY <1>1, <1>3 DEF Course

\* When as many paths are added or skipped as the target has, it is all of them.
LEMMA AllCounted ==
  ASSUME Books, Done + Cardinality(skipped) >= target
  PROVE  \A p \in 0 .. target - 1 : added[p] = 1 \/ p \in Empty
<1>1. PICK A \in SUBSET Path : A = {p \in Path : added[p] = 1} OBVIOUS
<1>2. PICK S \in SUBSET Path : S = skipped /\ S \subseteq Empty BY DEF Books, TypeOK
<1>3. PICK n \in Nat : n = target /\ n <= NumPaths BY SlotsAre DEF Books, TypeOK
<1>4. PICK m \in Nat : m = submitted /\ m <= n BY <1>3 DEF Books, TypeOK
<1>5. PICK up : up = 0 .. n - 1 OBVIOUS
<1>6. IsFiniteSet(up) /\ Cardinality(up) = n
  <2>1. 0 \in Int /\ n - 1 \in Int OBVIOUS
  <2>2. IsFiniteSet(0 .. n - 1) /\ Cardinality(0 .. n - 1) = IF 0 > n - 1 THEN 0 ELSE n - 1 - 0 + 1
    BY <2>1, FS_Interval
  <2> QED BY <2>2, <1>5
<1>7. \A p \in Path : p \in A \/ p \in S => p \in up
  <2> SUFFICES ASSUME NEW p \in Path, p \in A \/ p \in S PROVE p \in up OBVIOUS
  <2>1. "none" \in Place /\ "added" \in Place /\ "skipped" \in Place BY DEF Place
  <2>2. p \in Holding["added"] \/ p \in Holding["skipped"] BY <1>1, <1>2, PlacesAre
  <2>3. p \notin Holding["none"]
    <3>1. "none" # "added" /\ "none" # "skipped" OBVIOUS
    <3> QED BY <2>1, <2>2, <3>1, Elsewhere DEF Books
  <2>4. p \notin m .. NumPaths - 1 BY <2>3, <1>4, PlacesAre
  <2>5. p < m BY <2>4, SlotsAre DEF Path
  <2> QED BY <2>5, <1>4, <1>5 DEF Path
<1>8. A \cap S = {}
  <2>1. "added" \in Place /\ "skipped" \in Place /\ "added" # "skipped" BY DEF Place
  <2>2. \A p \in Path : ~ (p \in Holding["added"] /\ p \in Holding["skipped"])
    BY <2>1, PlacesApart DEF Books
  <2> QED BY <2>2, <1>1, <1>2, PlacesAre
<1>9. IsFiniteSet(A) /\ IsFiniteSet(S) /\ Cardinality(A) \in Nat /\ Cardinality(S) \in Nat
  BY FinitePaths
<1>10. Done = Cardinality(A)
  <2>1. {p \in Path : added[p] > 0} = A BY <1>1 DEF Books, TypeOK
  <2> QED BY <2>1 DEF Done
<1>11. /\ IsFiniteSet(A \cup S)
       /\ Cardinality(A \cup S) = Cardinality(A) + Cardinality(S) - Cardinality(A \cap S)
  BY <1>9, FS_Union
<1>12. Cardinality(A \cup S) >= n
  <2>1. Cardinality(A \cap S) = 0 BY <1>8, FS_EmptySet
  <2>2. Cardinality(A) + Cardinality(S) >= n BY <1>2, <1>3, <1>10
  <2> QED BY <2>1, <2>2, <1>9, <1>11
<1>13. A \cup S = up
  <2>1. A \cup S \subseteq up BY <1>7
  <2>2. Cardinality(A \cup S) <= n BY <2>1, <1>6, FS_Subset
  <2>3. Cardinality(A \cup S) = Cardinality(up)
    <3>1. Cardinality(A \cup S) \in Nat BY <1>11, FS_CardinalityType
    <3> QED BY <3>1, <2>2, <1>6, <1>12
  <2> QED BY <2>1, <2>3, <1>6, FS_Subset
<1> QED BY <1>1, <1>2, <1>3, <1>5, <1>13

LEMMA RoundStartStep ==
  ASSUME Books, Course, RoundStart
  PROVE  Books' /\ Course'
<1>1. /\ pc = "round" /\ launched' = 0
      /\ UNCHANGED <<schedule, k, target, prepared, ready, inflight, merging, added, skipped>>
  BY DEF RoundStart, slots, sums
<1>2. schedule = "round" /\ \A s \in Slot : inflight[s] = None BY <1>1 DEF Course, Rounds
<1>3. CASE Done + Cardinality(skipped) < target
  <2>1. pc' = "fill" /\ SubmitMore(preparing, ready, 0) /\ UNCHANGED outcome
    BY <1>3 DEF RoundStart
  <2>2. Handed(preparing)
    <3>1. preparing \in SUBSET Path /\ ready \in Seq(Path) /\ 0 \in Nat BY DEF Books, TypeOK
    <3> QED BY <3>1, <2>1, SubmitMoreIs DEF Books, Handed
  <2>3. Books'
    <3>1. Steady BY <1>1, <2>1 DEF Steady
    <3> QED BY <3>1, <1>1, <2>2, SubmitBooks
  <2>4. outcome' = "running" BY <1>1, <2>1 DEF Course
  <2>5. Rounds'
    <3>1. launched' <= k' BY <1>1 DEF Books, TypeOK
    <3>2. \A s \in Slot : inflight'[s] # None <=> s < launched'
      BY <1>1, <1>2, SlotsAre DEF Slot
    <3> QED BY <3>1, <3>2, <1>1, <1>2, <2>1 DEF Rounds, Course
  <2>6. CompleteUnlessStranded' BY <2>4 DEF CompleteUnlessStranded
  <2> QED BY <1>1, <2>3, <2>4, <2>5, <2>6 DEF Course
<1>4. CASE ~ (Done + Cardinality(skipped) < target)
  <2>1. pc' = "end" /\ UNCHANGED <<submitted, preparing>> BY <1>4 DEF RoundStart
  <2>2. Books'
    <3>1. Steady /\ prepared' \subseteq preparing BY <1>1, <2>1 DEF Steady, Books, TypeOK
    <3> QED BY <3>1, <1>1, <2>1, SameBooks
  <2>3. Done + Cardinality(skipped) >= target
    <3>1. /\ {p \in Path : added[p] > 0} \in SUBSET Path /\ skipped \in SUBSET Path
          /\ target \in Int
      BY SlotsAre DEF Books, TypeOK
    <3>2. Done \in Int /\ Cardinality(skipped) \in Int BY <3>1, FinitePaths DEF Done
    <3> QED BY <3>1, <3>2, <1>4
  <2>4. \A p \in 0 .. target - 1 : added[p] = 1 \/ p \in Empty BY <2>3, AllCounted
  <2>5. k' \in 1 .. InitialParallel BY <1>1 DEF Books, TypeOK
  <2>6. Course' BY <1>1, <1>2, <2>1, <2>4, <2>5, RoundCourse
  <2> QED BY <2>2, <2>6
<1> QED BY <1>3, <1>4

\* The filling of the slots goes on, or the wait for them begins.
LEMMA FillCourse ==
  ASSUME Course, pc = "fill", pc' \in {"fill", "wait"}, UNCHANGED <<schedule, outcome, merging>>,
         MaxRounds = 0 => target' = NumPaths, launched' <= k',
         \A s \in Slot : inflight'[s] # None <=> s < launched',
         pc' = "wait" => ~ LastRound' \/ NothingLeft'
  PROVE  Course'
<1>1. schedule = "round" /\ outcome = "running" /\ merging = <<>> BY DEF Course, Rounds
<1>2. schedule' = "round" /\ outcome' = "running" /\ merging' = <<>> BY <1>1
<1>3. Rounds' BY <1>2 DEF Rounds
<1>4. CompleteUnlessStranded' BY <1>2 DEF CompleteUnlessStranded
<1> QED BY <1>2, <1>3, <1>4 DEF Course

\* The slots of a round so far.
LEMMA FillIs ==
  ASSUME Books, Course, pc \in {"fill", "wait"}
  PROVE  launched \in Nat /\ launched <= k /\ \A s \in Slot : inflight[s] # None <=> s < launched
BY DEF Books, TypeOK, Course, Rounds

LEMMA RoundHarvestStep ==
  ASSUME Books, Course, RoundHarvest
  PROVE  Books' /\ Course'
<1>1. /\ pc = "fill" /\ ready = <<>>
      /\ UNCHANGED <<schedule, pc, outcome, launched, k, target, inflight, merging, added, skipped>>
  BY DEF RoundHarvest, slots, sums, control
<1>2. PICK order \in SetToSeqs(prepared) :
        /\ Harvested(order) /\ ready' = order
        /\ SubmitMore(preparing \ prepared, order, Cardinality(Active))
  BY DEF RoundHarvest
<1>3. prepared' = {} BY <1>2 DEF Harvested
<1>4. order = ready \o order
  <2>1. order \in Seq(Path)
    <3>1. prepared \in SUBSET Path BY DEF Books, TypeOK
    <3>2. IsFiniteSet(prepared) BY <3>1, FinitePaths
    <3> QED BY <3>1, <3>2, OrderIs
  <2>2. <<>> \o order = order BY <2>1, ConcatEmptySeq
  <2> QED BY <2>2, <1>1
<1>5. Handed(preparing \ prepared) BY <1>2, <1>4, HarvestHands
<1>6. Steady BY <1>1 DEF Steady, Books, TypeOK
<1>7. ready' = ready \o order BY <1>2, <1>4
<1>8. Books' BY <1>1, <1>3, <1>5, <1>6, <1>7, HarvestBooks
<1>9. Course'
  <2>1. launched' <= k' /\ \A s \in Slot : inflight'[s] # None <=> s < launched'
    BY <1>1, FillIs
  <2> QED BY <2>1, <1>1, FillCourse DEF Course
<1> QED BY <1>8, <1>9

LEMMA RoundLaunchStep ==
  ASSUME Books, Course, RoundLaunch
  PROVE  Books' /\ Course'
<1>1. pc = "fill" /\ launched < k BY DEF RoundLaunch
<1>2. PICK p \in Path :
       /\ Popped(p)
       /\ \/ /\ Skip(p) /\ SubmitMore(preparing, Rest, Cardinality(Active))
             /\ UNCHANGED control
          \/ /\ Launch(p, launched)
             /\ IF launched + 1 = k
                  THEN UNCHANGED <<submitted, preparing>>
                  ELSE SubmitMore(preparing, Rest, Cardinality(Active) + 1)
             /\ launched' = launched + 1
             /\ UNCHANGED <<schedule, pc, oomInRound, outcome>>
          \/ /\ Downscale(p)
             /\ oomInRound' = TRUE
             /\ pc' = "wait"
             /\ UNCHANGED <<schedule, outcome, launched, landed>>
          \/ RunOut(p)
  BY DEF RoundLaunch
<1>3. /\ launched \in Nat /\ k \in 1 .. InitialParallel
      /\ \A s \in Slot : inflight[s] # None <=> s < launched
  BY <1>1, FillIs DEF Books, TypeOK
<1>4. CASE Skip(p) /\ SubmitMore(preparing, Rest, Cardinality(Active)) /\ UNCHANGED control
  <2>1. UNCHANGED <<schedule, pc, outcome, launched>> BY <1>4 DEF control
  <2>2. Steady BY <2>1 DEF Steady, Books, TypeOK
  <2>3. Cardinality(Active) \in Nat BY ActiveIs DEF Books
  <2>4. Handed(preparing) BY <1>2, <1>4, <2>3, LaunchHands
  <2>5. Books' BY <2>2, <2>4, <1>2, <1>4, SkipBooks
  <2>6. Course'
    <3>1. UNCHANGED <<k, target, inflight, merging>> BY <1>4 DEF Skip, slots
    <3>2. launched' <= k' BY <1>1, <1>3, <2>1, <3>1
    <3>3. \A s \in Slot : inflight'[s] # None <=> s < launched' BY <1>3, <2>1, <3>1
    <3> QED BY <3>1, <3>2, <3>3, <1>1, <2>1, FillCourse DEF Course
  <2> QED BY <2>5, <2>6
<1>5. CASE /\ Launch(p, launched)
           /\ IF launched + 1 = k
                THEN UNCHANGED <<submitted, preparing>>
                ELSE SubmitMore(preparing, Rest, Cardinality(Active) + 1)
           /\ launched' = launched + 1
           /\ UNCHANGED <<schedule, pc, oomInRound, outcome>>
  <2>1. Steady BY <1>3, <1>5 DEF Steady, Books, TypeOK
  <2>2. Handed(preparing)
    <3>1. CASE launched + 1 = k BY <3>1, <1>5, HandedNone DEF Books
    <3>2. CASE launched + 1 # k
      <4>1. Cardinality(Active) + 1 \in Nat BY ActiveIs DEF Books
      <4>2. SubmitMore(preparing, Rest, Cardinality(Active) + 1) BY <3>2, <1>5
      <4> QED BY <4>1, <4>2, <1>2, LaunchHands
    <3> QED BY <3>1, <3>2
  <2>3. PICK slot \in Slot : slot = launched /\ inflight[slot] = None
    <3>1. launched \in Slot BY <1>1, <1>3, SlotsAre DEF Slot
    <3>2. ~ (launched < launched) BY <1>3
    <3> QED BY <3>1, <3>2, <1>3
  <2>4. Launch(p, slot) BY <1>5, <2>3
  <2>5. Books' BY <2>1, <2>2, <2>3, <2>4, <1>2, LaunchBooks
  <2>6. Course'
    <3>1. /\ UNCHANGED <<k, target, merging>>
          /\ inflight' = [inflight EXCEPT ![launched] = p]
      BY <1>5 DEF Launch, sums
    <3>2. launched' <= k' BY <1>1, <1>3, <1>5, <3>1
    <3>3. p # None BY LegacyParameters DEF LegacyParameters, Path
    <3>4. \A s \in Slot : s \in Int BY SlotsAre DEF Slot
    <3>5. \A s \in Slot : inflight'[s] = IF s = launched THEN p ELSE inflight[s]
      BY <3>1 DEF Books, TypeOK
    <3>6. \A s \in Slot : inflight'[s] # None <=> s < launched'
      BY <3>3, <3>4, <3>5, <1>3, <1>5
    <3> QED BY <3>1, <3>2, <3>6, <1>1, <1>5, FillCourse DEF Course
  <2> QED BY <2>5, <2>6
<1>6. CASE /\ Downscale(p)
           /\ oomInRound' = TRUE
           /\ pc' = "wait"
           /\ UNCHANGED <<schedule, outcome, launched, landed>>
  <2>1. Steady BY <1>6 DEF Steady, Books, TypeOK
  <2>2. Books' /\ (MaxRounds = 0 => target' = NumPaths) BY <2>1, <1>6, DownscaleBooks
  <2>3. Course'
    <3>1. k' = k - 1 /\ UNCHANGED <<inflight, merging>> BY <1>6 DEF Downscale, sums
    <3>2. launched' <= k' BY <1>1, <1>3, <1>6, <3>1, SlotsAre
    <3>3. \A s \in Slot : inflight'[s] # None <=> s < launched' BY <1>3, <1>6, <3>1
    <3>4. ~ LastRound' BY <1>6 DEF LastRound
    <3> QED BY <3>1, <3>2, <3>3, <3>4, <2>2, <1>1, <1>6, FillCourse
  <2> QED BY <2>2, <2>3
<1>7. CASE RunOut(p) BY <1>7, OutCourse
<1> QED BY <1>2, <1>4, <1>5, <1>6, <1>7

\* A round that fills no slot has nothing left to launch.
LEMMA RoundFilledStep ==
  ASSUME Books, Course, RoundFilled
  PROVE  Books' /\ Course'
<1>1. /\ pc = "fill" /\ pc' = "wait" /\ Filled
      /\ UNCHANGED <<schedule, outcome, launched, k, target, submitted, preparing, prepared, ready,
                     inflight, merging, added, skipped>>
  BY DEF RoundFilled, preps, slots, sums
<1>2. Books'
  <2>1. Steady /\ prepared' \subseteq preparing BY <1>1 DEF Steady, Books, TypeOK
  <2> QED BY <2>1, <1>1, SameBooks
<1>3. LastRound' => NothingLeft'
  <2>1. k # 0 BY SlotsAre DEF Books, TypeOK
  <2> QED BY <2>1, <1>1 DEF LastRound, Filled, NothingLeft
<1>4. launched' <= k' /\ \A s \in Slot : inflight'[s] # None <=> s < launched' BY <1>1, FillIs
<1> QED BY <1>1, <1>2, <1>3, <1>4, FillCourse DEF Course

\* At the end of a round every slot is free again, and a round that launched nothing
\* leaves nothing behind.
LEMMA RoundEndStep ==
  ASSUME Books, Course, RoundEnd
  PROVE  Books' /\ Course'
<1>1. /\ pc = "wait"
      /\ UNCHANGED <<schedule, launched, k, target, submitted, preparing, prepared, ready, merging,
                     skipped>>
      /\ IF LastRound THEN pc' = "end" /\ outcome' = "returned" ELSE pc' = "round" /\ UNCHANGED outcome
  BY DEF RoundEnd, preps
<1>2. /\ launched \in Nat /\ launched <= k
      /\ \A s \in Slot : inflight[s] # None <=> s < launched
  BY <1>1, FillIs
<1>3. PICK filled \in SUBSET Slot : filled = 0 .. launched - 1
  <2>1. PICK n \in Nat : n = launched /\ n <= InitialParallel BY <1>2, SlotsAre DEF Books, TypeOK
  <2>2. \A s \in 0 .. n - 1 : s \in 0 .. InitialParallel - 1 BY <2>1, SlotsAre
  <2> QED BY <2>1, <2>2 DEF Slot
<1>4. /\ Collect(filled)
      /\ added' = [p \in Path |-> added[p] + Cardinality({s \in filled : inflight[s] = p})]
  BY <1>3 DEF RoundEnd
<1>5. Steady BY <1>1 DEF Steady, Books, TypeOK
<1>6. /\ Books'
      /\ {p \in Path : added'[p] = 1}
           = {p \in Path : added[p] = 1} \cup ({inflight[s] : s \in filled} \ {None})
  BY <1>1, <1>4, <1>5, RoundEndBooks
<1>7. \A s \in Slot : inflight'[s] = None
  <2>1. \A s \in Slot : inflight'[s] = IF s \in filled THEN None ELSE inflight[s]
    BY <1>4, InflightWithout
  <2>2. \A s \in Slot : s \in filled <=> s < launched BY <1>2, <1>3, SlotsAre DEF Slot
  <2> QED BY <2>1, <2>2, <1>2
<1>8. schedule = "round" /\ merging = <<>> /\ outcome = "running" BY <1>1 DEF Course, Rounds
<1>9. CASE LastRound
  <2>1. preparing = {} /\ ready = <<>> /\ submitted >= target /\ launched = 0
    BY <1>1, <1>9 DEF Course, Rounds, NothingLeft, LastRound
  <2>2. \A s \in Slot : inflight[s] = None
    BY <1>2, <2>1, SlotsAre DEF Slot
  <2>3. ASSUME NEW p \in 0 .. target - 1 PROVE added'[p] = 1 \/ p \in Empty
    <3>1. p \in Path /\ p < submitted
      <4>1. target \in Nat /\ target <= NumPaths /\ NumPaths \in Nat BY SlotsAre DEF Books, TypeOK
      <4>2. submitted \in Nat BY DEF Books, TypeOK
      <4> QED BY <4>1, <4>2, <2>1 DEF Path
    <3>2. added[p] = 1 \/ p \in Empty BY <3>1, <2>1, <2>2, <1>8, NowhereElse
    <3> QED BY <3>1, <3>2, <1>6
  <2>4. k' \in 1 .. InitialParallel /\ pc' = "end" BY <1>1, <1>9 DEF Books, TypeOK
  <2>5. Course' BY <2>3, <2>4, <1>1, <1>7, <1>8, RoundCourse
  <2> QED BY <2>5, <1>6
<1>10. CASE ~ LastRound
  <2>1. pc' = "round" /\ outcome' = "running" /\ schedule' = "round" /\ merging' = <<>>
    BY <1>1, <1>8, <1>10
  <2>2. Rounds' BY <2>1, <1>7 DEF Rounds
  <2>3. CompleteUnlessStranded' BY <2>1 DEF CompleteUnlessStranded
  <2> QED BY <2>1, <2>2, <2>3, <1>1, <1>6 DEF Course
<1> QED BY <1>9, <1>10

-----------------------------------------------------------------------------
(* Every step. *)

\* The pool finishes a path, a stream gets to the end of one, or nothing happens.
LEMMA AsideStep ==
  ASSUME Books, Course, prepared' \subseteq preparing,
         UNCHANGED <<control, k, target, submitted, preparing, ready, inflight, sums>>
  PROVE  Books' /\ Course'
<1>1. UNCHANGED <<schedule, pc, oomInRound, outcome, launched, merging, added, skipped>>
  BY DEF control, sums
<1>2. Steady BY <1>1 DEF Steady, Books, TypeOK
<1>3. Books' BY <1>1, <1>2, SameBooks
<1>4. Rounds' BY <1>1 DEF Course, Rounds, LastRound, NothingLeft
<1>5. CompleteUnlessStranded' BY <1>1 DEF Course, CompleteUnlessStranded, Stranded
<1> QED BY <1>1, <1>3, <1>4, <1>5 DEF Course

LEMMA InitIInv == Init => IInv
<1> SUFFICES ASSUME Init PROVE IInv OBVIOUS
<1>1. /\ schedule \in {"event", "round"} /\ pc = "submit" /\ k = InitialParallel
      /\ target = RoundBased(InitialParallel) /\ submitted = 0
      /\ preparing = {} /\ prepared = {} /\ ready = <<>>
      /\ inflight = [s \in Slot |-> None] /\ merging = <<>>
      /\ added = [p \in Path |-> 0] /\ skipped = {} /\ launched = 0
      /\ outcome = "running"
  BY LegacyParameters DEF Init, LegacyParameters
<1>2. /\ target \in 0 .. NumPaths
      /\ MaxRounds = 0 => target = NumPaths
  BY <1>1, SlotsAre, RoundBasedIs
<1>3. TypeOK
  <2>1. k \in 1 .. InitialParallel /\ submitted \in 0 .. target BY <1>1, <1>2, SlotsAre
  <2>2. <<>> \in Seq(Path) OBVIOUS
  <2> QED BY <2>1, <2>2, <1>1, <1>2 DEF TypeOK
<1>4. DOMAIN <<>> = {} BY EmptySeq
<1>5. Range(<<>>) = {} BY <1>4 DEF Range
<1>6. NoneTwice
  <2>1. IsInjective(<<>>) BY <1>4 DEF IsInjective
  <2> QED BY <2>1, <1>1 DEF NoneTwice
<1>7. OnePlaceEach(Holding)
  <2> SUFFICES ASSUME NEW p \in Path
               PROVE  \E x \in Place : p \in Holding[x] /\ \A y \in Place : p \in Holding[y] => y = x
    BY DEF OnePlaceEach
  <2>1. p \in Holding["none"] BY <1>1, PlacesAre DEF Path
  <2>2. /\ Holding["preparing"] = {} /\ Holding["ready"] = {} /\ Holding["inflight"] = {}
        /\ Holding["merging"] = {} /\ Holding["added"] = {} /\ Holding["skipped"] = {}
    BY <1>1, <1>5, PlacesAre
  <2>3. \A y \in Place : p \in Holding[y] => y = "none" BY <2>2 DEF Place
  <2>4. "none" \in Place BY DEF Place
  <2> QED BY <2>1, <2>3, <2>4
<1>8. Rounds BY <1>1 DEF Rounds
<1>9. CompleteUnlessStranded BY <1>1 DEF CompleteUnlessStranded
<1> QED BY <1>1, <1>2, <1>3, <1>6, <1>7, <1>8, <1>9 DEF IInv

LEMMA NextIInv == IInv /\ [Next]_vars => IInv'
<1> SUFFICES ASSUME Books, Course, [Next]_vars PROVE Books' /\ Course'
  <2>1. IInv' <=> Books' /\ Course' BY DEF IInv, Books, Course
  <2> QED BY <2>1, IInvIs
<1>1. CASE FirstSubmit BY <1>1, FirstSubmitStep
<1>2. CASE EventEnd BY <1>2, EventEndStep
<1>3. CASE EventCollect BY <1>3, EventCollectStep
<1>4. CASE EventHarvest BY <1>4, EventHarvestStep
<1>5. CASE EventLaunch BY <1>5, EventLaunchStep
<1>6. CASE EventLaunched BY <1>6, EventLaunchedStep
<1>7. CASE EventMerge BY <1>7, EventMergeStep
<1>8. CASE RoundStart BY <1>8, RoundStartStep
<1>9. CASE RoundHarvest BY <1>9, RoundHarvestStep
<1>10. CASE RoundLaunch BY <1>10, RoundLaunchStep
<1>11. CASE RoundFilled BY <1>11, RoundFilledStep
<1>12. CASE RoundEnd BY <1>12, RoundEndStep
<1>13. ASSUME NEW p \in Path, Prepare(p) PROVE Books' /\ Course'
  <2>1. prepared' \subseteq preparing BY <1>13 DEF Prepare, Books, TypeOK
  <2>2. UNCHANGED <<control, k, target, submitted, preparing, ready, inflight, sums>>
    BY <1>13 DEF Prepare, slots
  <2> QED BY <2>1, <2>2, AsideStep
<1>14. ASSUME NEW s \in Slot, Land(s) PROVE Books' /\ Course'
  <2>1. UNCHANGED <<control, k, target, submitted, preparing, prepared, ready, inflight, sums>>
    BY <1>14 DEF Land, preps
  <2>2. prepared' \subseteq preparing BY <2>1 DEF Books, TypeOK
  <2> QED BY <2>1, <2>2, AsideStep
<1>15. CASE UNCHANGED vars
  <2>1. UNCHANGED <<control, k, target, submitted, preparing, prepared, ready, inflight, sums>>
    BY <1>15 DEF vars, preps, slots
  <2>2. prepared' \subseteq preparing BY <2>1 DEF Books, TypeOK
  <2> QED BY <2>1, <2>2, AsideStep
<1> QED BY <1>1, <1>2, <1>3, <1>4, <1>5, <1>6, <1>7, <1>8, <1>9, <1>10, <1>11, <1>12, <1>13, <1>14,
           <1>15 DEF Next, MainNext, Finished

\* Where every path is, how far a round has come, and what a call returns: in every
\* state of every run of either scheduler.
THEOREM Invariant == Spec => []IInv
BY InitIInv, NextIInv, PTL DEF Spec

\* How often a sequence of different elements has one: once, if it is there.
LEMMA TimesIn ==
  ASSUME NEW s, IsInjective(s), NEW p
  PROVE  Cardinality({i \in DOMAIN s : s[i] = p}) = IF p \in Range(s) THEN 1 ELSE 0
<1>1. CASE p \notin Range(s)
  <2>1. {i \in DOMAIN s : s[i] = p} = {} BY <1>1 DEF Range
  <2> QED BY <2>1, <1>1, FS_EmptySet
<1>2. ASSUME NEW j \in DOMAIN s, s[j] = p
      PROVE  Cardinality({i \in DOMAIN s : s[i] = p}) = 1
  <2>1. {i \in DOMAIN s : s[i] = p} = {j} BY <1>2 DEF IsInjective
  <2> QED BY <2>1, FS_Singleton
<1>3. p \in Range(s) => \E j \in DOMAIN s : s[j] = p BY DEF Range
<1> QED BY <1>1, <1>2, <1>3

LEMMA OncePlaced == IInv => Conservation
<1> SUFFICES ASSUME Books, NEW p \in 0 .. submitted - 1
             PROVE  (IF p \in preparing THEN 1 ELSE 0) + Cardinality({i \in DOMAIN ready : ready[i] = p})
                      + Cardinality({s \in Slot : inflight[s] = p})
                      + Cardinality({i \in DOMAIN merging : merging[i] = p})
                      + added[p] + (IF p \in skipped THEN 1 ELSE 0) = 1
  BY IInvIs DEF Conservation
<1>1. p \in Path /\ p \notin submitted .. NumPaths - 1
  <2>1. submitted \in Nat /\ submitted <= NumPaths /\ NumPaths \in Nat BY SlotsAre DEF Books, TypeOK
  <2> QED BY <2>1 DEF Path
<1>2. PICK x \in Place : p \in Holding[x] /\ \A y \in Place : p \in Holding[y] => y = x
  BY <1>1 DEF Books, OnePlaceEach
<1>3. x # "none" BY <1>1, <1>2, PlacesAre
<1>4. Cardinality({i \in DOMAIN ready : ready[i] = p}) = IF x = "ready" THEN 1 ELSE 0
  <2>1. p \in Range(ready) <=> x = "ready" BY <1>2, PlacesAre DEF Place
  <2> QED BY <2>1, TimesIn DEF Books, NoneTwice
<1>5. Cardinality({i \in DOMAIN merging : merging[i] = p}) = IF x = "merging" THEN 1 ELSE 0
  <2>1. p \in Range(merging) <=> x = "merging" BY <1>2, PlacesAre DEF Place
  <2> QED BY <2>1, TimesIn DEF Books, NoneTwice
<1>6. Cardinality({s \in Slot : inflight[s] = p}) = IF x = "inflight" THEN 1 ELSE 0
  <2>1. p # None BY <1>1, LegacyParameters DEF LegacyParameters, Path
  <2>2. p \in {inflight[s] : s \in Slot} <=> x = "inflight"
    <3>1. p \in Holding["inflight"] <=> x = "inflight" BY <1>2 DEF Place
    <3> QED BY <3>1, <2>1, PlacesAre
  <2>3. PICK all \in SUBSET Slot : all = Slot OBVIOUS
  <2>4. Cardinality({s \in all : inflight[s] = p}) = IF p \in {inflight[s] : s \in all} THEN 1 ELSE 0
    BY <1>1, SlotsWith
  <2> QED BY <2>2, <2>3, <2>4
<1>7. p \in preparing <=> x = "preparing" BY <1>2, PlacesAre DEF Place
<1>8. p \in skipped <=> x = "skipped" BY <1>2, PlacesAre DEF Place
<1>9. added[p] = IF x = "added" THEN 1 ELSE 0
  <2>1. added[p] = 1 <=> x = "added"
    <3>1. p \in Holding["added"] <=> x = "added" BY <1>2 DEF Place
    <3> QED BY <3>1, <1>1, PlacesAre
  <2> QED BY <2>1, <1>1 DEF Books, TypeOK
<1>10. x \in {"preparing", "ready", "inflight", "merging", "added", "skipped"} BY <1>3 DEF Place
<1> QED BY <1>4, <1>5, <1>6, <1>7, <1>8, <1>9, <1>10

\* A path handed to the pool is in exactly one place until its gradients are added,
\* and they are added once, wherever memory runs out and whatever is put back.
THEOREM NoneLostOrTwice == Spec => []Conservation
BY Invariant, OncePlaced, PTL

\* A call that returns has added every path up to its target that has tokens, but for
\* those left in a slot the event scheduler gave up.
THEOREM CompleteAtReturn == Spec => []CompleteUnlessStranded
<1>1. IInv => CompleteUnlessStranded BY DEF IInv
<1> QED BY <1>1, Invariant, PTL

=============================================================================
