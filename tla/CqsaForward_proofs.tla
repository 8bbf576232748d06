------------------------- MODULE CqsaForward_proofs -------------------------
(* Theorems of CqsaForward, for every number of calls, paths, streams and  *)
(* blocks.                                                                 *)
EXTENDS CqsaForwardInv, SequenceTheorems, FiniteSetTheorems, TLAPS

-----------------------------------------------------------------------------
(* Queues. *)

\* What a queue holds is its first operation and what its tail holds.
LEMMA RangeOfTail ==
  ASSUME NEW S, NEW q \in Seq(S), q # <<>>
  PROVE  /\ q[1] \in S /\ q[1] \in Range(q) /\ Tail(q) \in Seq(S)
         /\ Range(q) = {q[1]} \cup Range(Tail(q))
<1>1. /\ Len(q) \in Nat \ {0} /\ DOMAIN q = 1 .. Len(q)
      /\ Tail(q) \in Seq(S) /\ DOMAIN Tail(q) = 1 .. Len(q) - 1
      /\ \A i \in 1 .. Len(q) - 1 : Tail(q)[i] = q[i + 1]
  <2>1. Len(q) \in Nat \ {0} BY EmptySeq
  <2>2. /\ Tail(q) \in Seq(S) /\ Len(Tail(q)) = Len(q) - 1
        /\ \A i \in 1 .. Len(Tail(q)) : Tail(q)[i] = q[i + 1]
    BY HeadTailProperties
  <2> QED BY <2>1, <2>2, LenProperties
<1>2. q[1] \in S /\ q[1] \in Range(q) BY <1>1, ElementOfSeq DEF Range
<1>3. ASSUME NEW i \in 1 .. Len(q) PROVE q[i] \in {q[1]} \cup Range(Tail(q))
  <2>1. CASE i = 1 BY <2>1
  <2>2. CASE i # 1
    <3>1. i - 1 \in 1 .. Len(q) - 1 /\ Tail(q)[i - 1] = q[i] BY <1>1, <2>2
    <3> QED BY <3>1, <1>1 DEF Range
  <2> QED BY <2>1, <2>2
<1>4. ASSUME NEW i \in 1 .. Len(q) - 1 PROVE Tail(q)[i] \in Range(q)
  <2>1. i + 1 \in 1 .. Len(q) BY <1>1
  <2> QED BY <2>1, <1>1 DEF Range
<1> QED BY <1>1, <1>2, <1>3, <1>4 DEF Range

\* Two queues one after the other hold what either holds.
LEMMA RangeOfConcat ==
  ASSUME NEW S, NEW q \in Seq(S), NEW r \in Seq(S)
  PROVE  q \o r \in Seq(S) /\ Range(q \o r) = Range(q) \cup Range(r)
<1>1. /\ q \o r \in Seq(S)
      /\ DOMAIN q = 1 .. Len(q) /\ DOMAIN r = 1 .. Len(r) /\ DOMAIN (q \o r) = 1 .. Len(q) + Len(r)
      /\ Len(q) \in Nat /\ Len(r) \in Nat
      /\ \A i \in 1 .. Len(q) + Len(r) : (q \o r)[i] = IF i <= Len(q) THEN q[i] ELSE r[i - Len(q)]
  BY ConcatProperties, LenProperties
<1>2. ASSUME NEW i \in 1 .. Len(q) + Len(r) PROVE (q \o r)[i] \in Range(q) \cup Range(r)
  <2>1. CASE i <= Len(q) BY <2>1, <1>1 DEF Range
  <2>2. CASE ~ (i <= Len(q))
    <3>1. i - Len(q) \in 1 .. Len(r) BY <2>2, <1>1
    <3> QED BY <3>1, <2>2, <1>1 DEF Range
  <2> QED BY <2>1, <2>2
<1>3. ASSUME NEW i \in 1 .. Len(q) PROVE q[i] \in Range(q \o r)
  BY <1>1 DEF Range
<1>4. ASSUME NEW i \in 1 .. Len(r) PROVE r[i] \in Range(q \o r)
  <2>1. Len(q) + i \in 1 .. Len(q) + Len(r) /\ (q \o r)[Len(q) + i] = r[i] BY <1>1
  <2> QED BY <2>1, <1>1 DEF Range
<1> QED BY <1>1, <1>2, <1>3, <1>4 DEF Range

\* A queue that loses its first operation stays in order, and what is left may
\* follow that operation.
LEMMA OrderedTail ==
  ASSUME NEW S, NEW q \in Seq(S), q # <<>>, Ordered(q)
  PROVE  Ordered(Tail(q)) /\ \A o \in Range(Tail(q)) : MayPrecede(q[1], o)
<1>1. /\ Len(q) \in Nat \ {0} /\ DOMAIN q = 1 .. Len(q)
      /\ DOMAIN Tail(q) = 1 .. Len(q) - 1
      /\ \A i \in 1 .. Len(q) - 1 : Tail(q)[i] = q[i + 1]
  <2>1. Len(q) \in Nat \ {0} BY EmptySeq
  <2>2. /\ Tail(q) \in Seq(S) /\ Len(Tail(q)) = Len(q) - 1
        /\ \A i \in 1 .. Len(Tail(q)) : Tail(q)[i] = q[i + 1]
    BY HeadTailProperties
  <2> QED BY <2>1, <2>2, LenProperties
<1>2. ASSUME NEW i \in 1 .. Len(q) - 1, NEW j \in 1 .. Len(q) - 1, i < j
      PROVE  MayPrecede(Tail(q)[i], Tail(q)[j])
  <2>1. i + 1 \in 1 .. Len(q) /\ j + 1 \in 1 .. Len(q) /\ i + 1 < j + 1 BY <1>1, <1>2
  <2> QED BY <2>1, <1>1 DEF Ordered
<1>3. ASSUME NEW i \in 1 .. Len(q) - 1 PROVE MayPrecede(q[1], Tail(q)[i])
  <2>1. i + 1 \in 1 .. Len(q) /\ 1 \in 1 .. Len(q) /\ 1 < i + 1 BY <1>1
  <2> QED BY <2>1, <1>1 DEF Ordered
<1> QED BY <1>1, <1>2, <1>3 DEF Ordered, Range

\* Two queues in order make one if all of the first may precede all of the second.
LEMMA OrderedConcat ==
  ASSUME NEW S, NEW q \in Seq(S), NEW r \in Seq(S), Ordered(q), Ordered(r),
         \A o \in Range(q), u \in Range(r) : MayPrecede(o, u)
  PROVE  Ordered(q \o r)
<1>1. /\ DOMAIN q = 1 .. Len(q) /\ DOMAIN r = 1 .. Len(r) /\ DOMAIN (q \o r) = 1 .. Len(q) + Len(r)
      /\ Len(q) \in Nat /\ Len(r) \in Nat
      /\ \A i \in 1 .. Len(q) + Len(r) : (q \o r)[i] = IF i <= Len(q) THEN q[i] ELSE r[i - Len(q)]
  BY ConcatProperties, LenProperties
<1>2. SUFFICES ASSUME NEW i \in 1 .. Len(q) + Len(r), NEW j \in 1 .. Len(q) + Len(r), i < j
               PROVE  MayPrecede((q \o r)[i], (q \o r)[j])
  BY <1>1 DEF Ordered
<1>3. CASE j <= Len(q)
  <2>1. i \in DOMAIN q /\ j \in DOMAIN q /\ (q \o r)[i] = q[i] /\ (q \o r)[j] = q[j] BY <1>1, <1>2, <1>3
  <2> QED BY <2>1, <1>2 DEF Ordered
<1>4. CASE i <= Len(q) /\ ~ (j <= Len(q))
  <2>1. /\ i \in DOMAIN q /\ j - Len(q) \in DOMAIN r
        /\ (q \o r)[i] = q[i] /\ (q \o r)[j] = r[j - Len(q)] BY <1>1, <1>4
  <2> QED BY <2>1 DEF Range
<1>5. CASE ~ (i <= Len(q)) /\ ~ (j <= Len(q))
  <2>1. /\ i - Len(q) \in DOMAIN r /\ j - Len(q) \in DOMAIN r /\ i - Len(q) < j - Len(q)
        /\ (q \o r)[i] = r[i - Len(q)] /\ (q \o r)[j] = r[j - Len(q)] BY <1>1, <1>2, <1>5
  <2> QED BY <2>1 DEF Ordered
<1> QED BY <1>1, <1>2, <1>3, <1>4, <1>5

\* One more thing at the end.
LEMMA RangeOfAppend ==
  ASSUME NEW S, NEW q \in Seq(S), NEW e \in S
  PROVE  /\ Append(q, e) \in Seq(S) /\ Len(Append(q, e)) = Len(q) + 1 /\ Len(q) \in Nat
         /\ Range(Append(q, e)) = Range(q) \cup {e}
<1>1. /\ Append(q, e) \in Seq(S) /\ Len(Append(q, e)) = Len(q) + 1
      /\ \A i \in 1 .. Len(q) : Append(q, e)[i] = q[i]
      /\ Append(q, e)[Len(q) + 1] = e
  BY AppendProperties
<1>2. Len(q) \in Nat /\ DOMAIN q = 1 .. Len(q) BY LenProperties
<1>3. DOMAIN Append(q, e) = 1 .. Len(q) + 1 BY <1>1, LenProperties
<1>4. 1 .. Len(q) + 1 = 1 .. Len(q) \cup {Len(q) + 1} BY <1>2
<1>5. Range(Append(q, e)) = Range(q) \cup {e} BY <1>1, <1>2, <1>3, <1>4 DEF Range
<1> QED BY <1>1, <1>2, <1>5

\* No queue holds anything when it is empty.
LEMMA RangeOfEmpty == Range(<<>>) = {} /\ Ordered(<<>>)
BY DEF Range, Ordered

\* The steps of a call on the current stream, in their order.
LEMMA Ranks ==
  ASSUME NEW n, NEW p, NEW b
  PROVE  /\ Rank(ProduceOp(n)) = 0 /\ Rank(ZeroOp(n)) = 1 /\ Rank(AwaitOp(n, p)) = 2
         /\ Rank(AccumulateOp(n, p, b)) = 3 /\ Rank(DivideOp(n)) = 4
BY DEF Rank, ProduceOp, ZeroOp, AwaitOp, AccumulateOp, DivideOp

\* An operation of the current stream, by its name.
LEMMA CurrentOps ==
  ASSUME NEW o \in CurrentOp
  PROVE  /\ o.call \in CallIds /\ o.op \in {"produce", "zero", "await", "accumulate", "divide"}
         /\ o.op = "produce" => o = ProduceOp(o.call)
         /\ o.op = "zero" => o = ZeroOp(o.call)
         /\ o.op = "divide" => o = DivideOp(o.call)
         /\ o.op = "await" => o.path \in Live /\ o = AwaitOp(o.call, o.path)
         /\ o.op = "accumulate" =>
              o.path \in Live /\ o.block \in Blocks /\ o = AccumulateOp(o.call, o.path, o.block)
BY DEF CurrentOp, ProduceOp, ZeroOp, AwaitOp, AccumulateOp, DivideOp

\* The current stream is not a side stream, and the numbers are numbers.
LEMMA Numbers ==
  /\ Current \notin Side /\ Current \in Side \cup {Current}
  /\ CallIds \subseteq Nat /\ Live \subseteq Nat /\ Blocks \subseteq Nat
  /\ Live \subseteq 0 .. NumPaths - 1 /\ IsFiniteSet(Live)
<1>1. IsFiniteSet(0 .. NumPaths - 1)
  BY FS_Interval, CqsaForwardAssumption DEF CqsaForwardAssumption
<1>2. IsFiniteSet(Live) BY <1>1, FS_Subset DEF Live
<1> QED
  BY <1>2, CqsaForwardAssumption DEF CqsaForwardAssumption, Current, Side, CallIds, Live, Blocks

-----------------------------------------------------------------------------
(* A step of a stream, and what the invariant says of its first operation. *)

\* The work of a path starts with what it writes; its event is last.
LEMMA DoingFirst ==
  ASSUME NEW s \in Side, NEW n, NEW p, NEW b
  PROVE  /\ Doing(s, n, p, b) => queue[s] # <<>> /\ First(s) = LocalOp(n, p, b) /\ Busy(s, n, p)
         /\ Doing(s, n, p, b) => Tail(queue[s]) = <<RecordOp(n, p)>>
         /\ Finishing(s, n, p) => queue[s] # <<>> /\ First(s) = RecordOp(n, p) /\ Busy(s, n, p)
         /\ Finishing(s, n, p) => Tail(queue[s]) = <<>>
<1>1. Range(<<LocalOp(n, p, b), RecordOp(n, p)>>) = {LocalOp(n, p, b), RecordOp(n, p)}
      /\ Range(<<RecordOp(n, p)>>) = {RecordOp(n, p)}
  BY DEF Range
<1>2. Tail(<<LocalOp(n, p, b), RecordOp(n, p)>>) = <<RecordOp(n, p)>> /\ Tail(<<RecordOp(n, p)>>) = <<>>
  OBVIOUS
<1>3. <<LocalOp(n, p, b), RecordOp(n, p)>>[1] = LocalOp(n, p, b) /\ <<RecordOp(n, p)>>[1] = RecordOp(n, p)
  OBVIOUS
<1>4. <<LocalOp(n, p, b), RecordOp(n, p)>> # <<>> /\ <<RecordOp(n, p)>> # <<>>
  OBVIOUS
<1>5. ASSUME Doing(s, n, p, b)
      PROVE  /\ queue[s] # <<>> /\ First(s) = LocalOp(n, p, b) /\ Busy(s, n, p)
             /\ Tail(queue[s]) = <<RecordOp(n, p)>>
  BY <1>5, <1>1, <1>2, <1>3, <1>4, Zenon DEF Doing, First, Busy
<1>6. ASSUME Finishing(s, n, p)
      PROVE  /\ queue[s] # <<>> /\ First(s) = RecordOp(n, p) /\ Busy(s, n, p)
             /\ Tail(queue[s]) = <<>>
  BY <1>6, <1>1, <1>2, <1>3, <1>4, Zenon DEF Finishing, First, Busy
<1> QED BY <1>5, <1>6

\* The operations of the two kinds of stream are different ones.
LEMMA OpsDiffer ==
  ASSUME NEW n, NEW p, NEW b, NEW m, NEW q, NEW c
  PROVE  /\ LocalOp(n, p, b).op = "local" /\ RecordOp(n, p).op = "record"
         /\ LocalOp(n, p, b) # RecordOp(m, q)
         /\ LocalOp(n, p, b) = LocalOp(m, q, c) => n = m /\ p = q /\ b = c
         /\ RecordOp(n, p) = RecordOp(m, q) => n = m /\ p = q
         /\ AccumulateOp(n, p, b) = AccumulateOp(m, q, c) => n = m /\ p = q /\ b = c
BY DEF LocalOp, RecordOp, AccumulateOp

\* What a busy side stream is busy with.
LEMMA BusyIs ==
  ASSUME SideStreams, NEW s \in Side, queue[s] # <<>>
  PROVE  \E n \in CallIds, p \in Live :
           /\ Forked(n, p) /\ <<n, p>> \notin recorded
           /\ \A m \in CallIds, q \in Live : Busy(s, m, q) <=> (m = n /\ q = p)
           /\ Finishing(s, n, p) \/ \E b \in Blocks : Doing(s, n, p, b) /\ block[b].owner = s
<1>1. PICK n \in CallIds, p \in Live :
           /\ Forked(n, p) /\ <<n, p>> \notin recorded
           /\ Finishing(s, n, p) \/ \E b \in Blocks : Doing(s, n, p, b) /\ block[b].owner = s
  BY DEF SideStreams
<1>2. ASSUME NEW m \in CallIds, NEW q \in Live PROVE Busy(s, m, q) <=> (m = n /\ q = p)
  <2>1. CASE Finishing(s, n, p)
    <3>1. Range(queue[s]) = {RecordOp(n, p)} BY <2>1 DEF Finishing, Range
    <3> QED BY <3>1, OpsDiffer DEF Busy
  <2>2. ASSUME NEW b \in Blocks, Doing(s, n, p, b) PROVE Busy(s, m, q) <=> (m = n /\ q = p)
    <3>1. Range(queue[s]) = {LocalOp(n, p, b), RecordOp(n, p)} BY <2>2 DEF Doing, Range
    <3> QED BY <3>1, OpsDiffer DEF Busy
  <2> QED BY <1>1, <2>1, <2>2
<1> QED BY <1>1, <1>2

\* A stream that runs takes the first operation of its own queue.
LEMMA Pop ==
  ASSUME DeviceShape, NEW s \in Side \cup {Current}, queue[s] # <<>>, Done(s)
  PROVE  /\ queue' \in [Side \cup {Current} -> Seq(CurrentOp \cup SideOp)]
         /\ queue'[s] = Tail(queue[s])
         /\ \A t \in Side \cup {Current} : t # s => queue'[t] = queue[t]
<1>1. Tail(queue[s]) \in Seq(CurrentOp \cup SideOp)
  BY HeadTailProperties DEF DeviceShape
<1> QED BY <1>1 DEF DeviceShape, Done

\* Sums are only made on the current stream, paths only run on side streams.
LEMMA WhereOpsRun ==
  ASSUME DeviceShape, SideStreams, NEW s \in Side \cup {Current}, NEW op, Running(s, op)
  PROVE  /\ op \in {"produce", "zero", "await", "accumulate", "divide"} =>
              s = Current /\ First(Current) \in CurrentOp
         /\ op \in {"local", "record"} => s \in Side
<1>1. CASE s = Current
  <2>1. First(Current) \in CurrentOp
    BY <1>1, RangeOfTail DEF DeviceShape, Running, First
  <2> QED BY <1>1, <2>1, CurrentOps DEF Running
<1>2. CASE s \in Side
  <2>1. PICK n \in CallIds, p \in Live :
          Finishing(s, n, p) \/ \E b \in Blocks : Doing(s, n, p, b)
    BY <1>2, BusyIs DEF Running
  <2>2. First(s).op \in {"local", "record"} BY <1>2, <2>1, DoingFirst, OpsDiffer
  <2> QED BY <1>2, <2>2 DEF Running
<1> QED BY <1>1, <1>2

\* When the current stream runs an operation, the side streams stand still, and
\* what is left may follow it.
LEMMA PopCurrent ==
  ASSUME DeviceShape, CurrentStream, queue[Current] # <<>>, Done(Current)
  PROVE  /\ queue' \in [Side \cup {Current} -> Seq(CurrentOp \cup SideOp)]
         /\ queue'[Current] \in Seq(CurrentOp)
         /\ \A s \in Side : queue'[s] = queue[s]
         /\ First(Current) \in CurrentOp
         /\ Range(queue[Current]) = {First(Current)} \cup Range(queue'[Current])
         /\ Ordered(queue'[Current])
         /\ \A o \in Range(queue'[Current]) : MayPrecede(First(Current), o)
<1>1. /\ queue' \in [Side \cup {Current} -> Seq(CurrentOp \cup SideOp)]
      /\ queue'[Current] = Tail(queue[Current])
      /\ \A s \in Side : queue'[s] = queue[s]
  BY Pop, Numbers
<1>2. queue[Current] \in Seq(CurrentOp) /\ Ordered(queue[Current]) BY DEF DeviceShape, CurrentStream
<1>3. /\ queue[Current][1] \in CurrentOp /\ Tail(queue[Current]) \in Seq(CurrentOp)
      /\ Range(queue[Current]) = {queue[Current][1]} \cup Range(Tail(queue[Current]))
  BY <1>2, RangeOfTail
<1>4. /\ Ordered(Tail(queue[Current]))
      /\ \A o \in Range(Tail(queue[Current])) : MayPrecede(queue[Current][1], o)
  BY <1>2, OrderedTail
<1> QED BY <1>1, <1>3, <1>4 DEF First

-----------------------------------------------------------------------------
(* The invariant: the initial state. *)

\* Before the first call nothing is queued, kept or summed.
LEMMA InitInvariant == Init => IInv
<1> SUFFICES ASSUME Init PROVE IInv
  OBVIOUS
<1>1. HostShape
  <2>1. 0 \in 0 .. Calls /\ 0 \in 0 .. NumPaths
    BY CqsaForwardAssumption DEF CqsaForwardAssumption
  <2>2. /\ streams \in Seq(Side) /\ staged \in Seq(Staged) /\ staged = <<>> /\ lastUsed \in Nat
        /\ block \in [Blocks -> [owner : Side \cup {Current}, free : BOOLEAN]]
    BY DEF Init
  <2> QED BY <2>1, <2>2 DEF Init, HostShape
<1>2. DeviceShape
  <2>1. /\ queue \in [Side \cup {Current} -> Seq(CurrentOp \cup SideOp)]
        /\ queue[Current] \in Seq(CurrentOp)
    BY Numbers DEF Init
  <2>2. Void \in Contents BY DEF Void, Contents
  <2>3. holds \in [Blocks -> Contents] BY <2>2 DEF Init
  <2>4. sum \in [CallIds -> Seq(Contents)] /\ result \in [CallIds -> Seq(Contents) \cup {Pending}]
    BY DEF Init
  <2> QED BY <2>1, <2>3, <2>4 DEF Init, DeviceShape
<1>3. queue[Current] = <<>> /\ \A s \in Side : queue[s] = <<>>
  BY Numbers DEF Init
<1>4. Range(queue[Current]) = {} /\ Ordered(queue[Current]) BY <1>3, RangeOfEmpty
<1>5. SideStreams
  <2>1. \A s \in Side : Range(queue[s]) = {} BY <1>3, RangeOfEmpty
  <2> QED BY <1>3, <2>1 DEF Init, SideStreams, Busy
<1>6. CurrentStream BY <1>4 DEF CurrentStream
<1>7. StagedOnce BY DEF StagedOnce, Init
<1>8. \A n \in CallIds, p \in Live, b \in Blocks : ~ Keeps(n, p, b) /\ ~ Reads(n, p, b)
  BY <1>4, RangeOfEmpty DEF Init, Keeps, Reads
<1>9. Exclusive /\ Written BY <1>8 DEF Exclusive, Written
<1>10. Ledger /\ Opened BY <1>4 DEF Ledger, Opened, Committed, Init
<1>11. WrongOnlyIfLateOrRecycled BY DEF WrongOnlyIfLateOrRecycled, Init
<1> QED BY <1>1, <1>2, <1>5, <1>6, <1>7, <1>9, <1>10, <1>11 DEF IInv

-----------------------------------------------------------------------------
(* The steps of the current stream. *)

\* A step of a stream leaves what belongs to the host alone.
LEMMA HostApart == HostShape /\ UNCHANGED hostVars => HostShape'
BY DEF HostShape, hostVars

\* Whatever the current stream runs, the side streams, the blocks and what is
\* still queued stay as the invariant has them; it passes a wait only when the
\* event has happened.
LEMMA CurrentStep ==
  ASSUME IInv, queue[Current] # <<>>, Done(Current),
         UNCHANGED <<hostVars, recorded, holds, late, recycled>>,
         First(Current).op = "await" =>
           <<First(Current).call, First(Current).path>> \in recorded
  PROVE  /\ SideStreams' /\ CurrentStream' /\ StagedOnce' /\ Exclusive' /\ Written'
         /\ \A n \in CallIds : (Sound(n))' <=> Sound(n)
<1> USE DEF IInv
<1>1. /\ queue'[Current] \in Seq(CurrentOp)
      /\ \A s \in Side : queue'[s] = queue[s]
      /\ First(Current) \in CurrentOp
      /\ Range(queue[Current]) = {First(Current)} \cup Range(queue'[Current])
      /\ Ordered(queue'[Current])
  BY PopCurrent
<1>2. UNCHANGED <<host, staged, block, recorded, holds, late, recycled>> BY DEF hostVars
<1>3. \A s \in Side : \A n, p, b :
         /\ (Doing(s, n, p, b))' <=> Doing(s, n, p, b)
         /\ (Finishing(s, n, p))' <=> Finishing(s, n, p)
         /\ (Busy(s, n, p))' <=> Busy(s, n, p)
  BY <1>1 DEF Doing, Finishing, Busy
<1>4. \A n, p, b : /\ (Keeps(n, p, b))' <=> Keeps(n, p, b)
                   /\ (Reads(n, p, b))' => Reads(n, p, b)
  BY <1>1, <1>2 DEF Keeps, Reads
<1>5. \A n : (Sound(n))' <=> Sound(n) BY <1>2 DEF Sound
<1>6. SideStreams'
  <2>1. \A n, p : (Forked(n, p))' <=> Forked(n, p) BY <1>2 DEF Forked
  <2>2. ASSUME NEW s \in Side
        PROVE  \/ queue'[s] = <<>>
               \/ \E n \in CallIds, p \in Live :
                    /\ (Forked(n, p))' /\ <<n, p>> \notin recorded'
                    /\ (Finishing(s, n, p))' \/ \E b \in Blocks : (Doing(s, n, p, b))' /\ block'[b].owner = s
    <3>1. CASE queue[s] = <<>> BY <3>1, <1>1
    <3>2. CASE queue[s] # <<>>
      <4>1. PICK n \in CallIds, p \in Live :
              /\ Forked(n, p) /\ <<n, p>> \notin recorded
              /\ Finishing(s, n, p) \/ \E b \in Blocks : Doing(s, n, p, b) /\ block[b].owner = s
        BY <3>2 DEF SideStreams
      <4>2. (Forked(n, p))' /\ <<n, p>> \notin recorded' BY <4>1, <2>1, <1>2
      <4>3. (Finishing(s, n, p))' \/ \E b \in Blocks : (Doing(s, n, p, b))' /\ block'[b].owner = s
        BY <4>1, <1>3, <1>2
      <4> QED BY <4>2, <4>3
    <3> QED BY <3>1, <3>2
  <2>3. \A s, t \in Side, n \in CallIds, p \in Live : (Busy(s, n, p))' /\ (Busy(t, n, p))' => s = t
    BY <1>3 DEF SideStreams
  <2>4. \A n \in CallIds, p \in Live : <<n, p>> \in recorded' => (Forked(n, p))'
    BY <1>2, <2>1 DEF SideStreams
  <2> QED BY <2>2, <2>3, <2>4 DEF SideStreams
<1>7. CurrentStream'
  <2>1. \A o \in Range(queue'[Current]) : (o.call < host.call \/ (o.call = host.call /\ NotYet(o)))'
    BY <1>1, <1>2 DEF CurrentStream, NotYet
  <2>2. ASSUME NEW n \in CallIds, NEW p \in Live, NEW b \in Blocks,
               AccumulateOp(n, p, b) \in Range(queue'[Current])
        PROVE  <<n, p>> \in recorded' \/ AwaitOp(n, p) \in Range(queue'[Current])
    <3>1. <<n, p>> \in recorded \/ AwaitOp(n, p) \in Range(queue[Current])
      BY <2>2, <1>1 DEF CurrentStream
    <3>2. CASE AwaitOp(n, p) = First(Current)
      <4>1. First(Current).op = "await" /\ First(Current).call = n /\ First(Current).path = p
        BY <3>2 DEF AwaitOp
      <4> QED BY <4>1, <1>2
    <3> QED BY <3>1, <3>2, <1>1, <1>2
  <2> QED BY <1>1, <2>1, <2>2 DEF CurrentStream
<1>8. StagedOnce' BY <1>2 DEF StagedOnce
<1>9. Exclusive'
  <2> SUFFICES ASSUME NEW s \in Side, NEW m \in CallIds, NEW n \in CallIds, NEW p \in Live, NEW q \in Live,
                      NEW b \in Blocks, (Doing(s, m, q, b))'
               PROVE  /\ (Keeps(n, p, b))' => n = m /\ p = q
                      /\ (Reads(n, p, b))' => (n = m /\ p = q) \/ n < m
    BY DEF Exclusive
  <2> QED BY <1>3, <1>4 DEF Exclusive
<1>10. Written'
  <2> SUFFICES ASSUME NEW n \in CallIds, NEW p \in Live, NEW b \in Blocks,
                      (Keeps(n, p, b) \/ Reads(n, p, b))', (Sound(n))'
               PROVE  holds'[b] = Whole(n, p) \/ \E s \in Side : (Doing(s, n, p, b))'
    BY DEF Written
  <2>1. holds[b] = Whole(n, p) \/ \E s \in Side : Doing(s, n, p, b)
    BY <1>4, <1>5 DEF Written
  <2> QED BY <2>1, <1>3, <1>2
<1> QED BY <1>5, <1>6, <1>7, <1>8, <1>9, <1>10

\* Which order the operations of one call have: an accumulation comes after the
\* wait for its event and the zeroing, and each path is accumulated once; the
\* division comes last.
LEMMA OrderOfCall ==
  ASSUME NEW n \in CallIds, NEW p \in Live, NEW b \in Blocks, NEW c \in Blocks
  PROVE  /\ ~ MayPrecede(AccumulateOp(n, p, b), ZeroOp(n))
         /\ ~ MayPrecede(AccumulateOp(n, p, b), AwaitOp(n, p))
         /\ ~ MayPrecede(AccumulateOp(n, p, b), AccumulateOp(n, p, c))
         /\ ~ MayPrecede(DivideOp(n), AccumulateOp(n, p, b))
<1>1. ~ (n < n) BY Numbers
<1>2. /\ AccumulateOp(n, p, b).call = n /\ AccumulateOp(n, p, b).path = p
      /\ AccumulateOp(n, p, c).call = n /\ AccumulateOp(n, p, c).path = p
      /\ ZeroOp(n).call = n /\ AwaitOp(n, p).call = n /\ DivideOp(n).call = n
  BY DEF ZeroOp, AwaitOp, AccumulateOp, DivideOp
<1> QED BY <1>1, <1>2, Ranks DEF MayPrecede

\* Nor are the sums zeroed after the division.
LEMMA ZeroBeforeDivide == \A n \in CallIds : ~ MayPrecede(DivideOp(n), ZeroOp(n))
<1> SUFFICES ASSUME NEW n \in CallIds PROVE ~ MayPrecede(DivideOp(n), ZeroOp(n))
  OBVIOUS
<1>1. ~ (n < n) BY Numbers
<1>2. ZeroOp(n).call = n /\ DivideOp(n).call = n BY DEF ZeroOp, DivideOp
<1> QED BY <1>1, <1>2, Ranks DEF MayPrecede

\* What call n still owes, as the invariant has it.
Owes(n) ==
  IF ZeroOp(n) \in Range(queue[Current])
  THEN Due(n) = Live
  ELSE Sound(n) => /\ Range(sum[n]) = {Whole(n, p) : p \in Live \ Due(n)}
                   /\ Len(sum[n]) = Cardinality(Live \ Due(n))

\* A call whose sums, zeroing and accumulations a step leaves alone owes what it
\* owed.
LEMMA OwesKept ==
  ASSUME Ledger, NEW n \in CallIds, Committed(n),
         ZeroOp(n) \in Range(queue'[Current]) <=> ZeroOp(n) \in Range(queue[Current]),
         \A p \in Live, b \in Blocks : (Reads(n, p, b))' <=> Reads(n, p, b),
         sum'[n] = sum[n], (Sound(n))' => Sound(n)
  PROVE  (Owes(n))'
<1>1. (Due(n))' = Due(n) BY DEF Due
<1>2. Owes(n) BY DEF Ledger, Owes
<1>3. \A p : (Whole(n, p))' = Whole(n, p) BY DEF Whole
<1>4. CASE ZeroOp(n) \in Range(queue[Current]) BY <1>1, <1>2, <1>4 DEF Owes
<1>5. CASE ZeroOp(n) \notin Range(queue[Current])
  <2>1. ASSUME (Sound(n))'
        PROVE  /\ Range(sum'[n]) = {Whole(n, p) : p \in Live \ (Due(n))'}
               /\ Len(sum'[n]) = Cardinality(Live \ (Due(n))')
    BY <2>1, <1>1, <1>2, <1>5 DEF Owes
  <2> QED BY <2>1, <1>3, <1>5 DEF Owes
<1> QED BY <1>4, <1>5

\* What a step of the current stream leaves of the calls' obligations.
LEMMA LedgerKept ==
  ASSUME IInv, NEW n \in CallIds, UNCHANGED host,
         Range(queue'[Current]) \subseteq Range(queue[Current]),
         ZeroOp(n) \in Range(queue[Current]) => ZeroOp(n) \in Range(queue'[Current]),
         \A p \in Live, b \in Blocks : Reads(n, p, b) => (Reads(n, p, b))',
         sum'[n] = sum[n], (Sound(n))' => Sound(n), (Committed(n))'
  PROVE  (Owes(n))'
<1>1. Committed(n) /\ Ledger BY DEF Committed, IInv
<1>2. \A p \in Live, b \in Blocks : (Reads(n, p, b))' <=> Reads(n, p, b) BY DEF Reads
<1>3. ZeroOp(n) \in Range(queue'[Current]) <=> ZeroOp(n) \in Range(queue[Current])
  OBVIOUS
<1> QED BY <1>1, <1>2, <1>3, OwesKept

\* A result is exact, or the histories say why it need not be.
LEMMA WrongMeansUnsound ==
  WrongOnlyIfLateOrRecycled <=> \A n \in CallIds : result[n] # Pending /\ Sound(n) => Exact(n)
BY DEF WrongOnlyIfLateOrRecycled, Sound

\* What has been returned stays as good as it was.
LEMMA ResultKept ==
  ASSUME WrongOnlyIfLateOrRecycled, UNCHANGED result, \A n \in CallIds : (Sound(n))' => Sound(n)
  PROVE  WrongOnlyIfLateOrRecycled'
<1>1. \A n : (Exact(n))' <=> Exact(n) BY DEF Exact
<1>2. \A n \in CallIds : result'[n] # Pending' /\ (Sound(n))' => (Exact(n))'
  BY <1>1, WrongMeansUnsound DEF Pending
<1>3. WrongOnlyIfLateOrRecycled' <=>
        \A n \in CallIds : result'[n] # Pending' /\ (Sound(n))' => (Exact(n))'
  BY DEF WrongOnlyIfLateOrRecycled, Sound
<1> QED BY <1>2, <1>3

\* q, k and v are complete.
LEMMA ProduceStep == ASSUME IInv, NEW s \in Side \cup {Current}, Produce(s) PROVE IInv'
<1> USE DEF IInv
<1>1. s = Current /\ First(Current) \in CurrentOp /\ First(Current).op = "produce"
  BY WhereOpsRun DEF Produce, Running
<1>2. /\ queue[Current] # <<>> /\ Done(Current)
      /\ UNCHANGED <<hostVars, recorded, holds, sum, result, late, recycled>>
      /\ produced' = produced \cup {First(Current).call}
  BY <1>1 DEF Produce, Running
<1>3. /\ SideStreams' /\ CurrentStream' /\ StagedOnce' /\ Exclusive' /\ Written'
      /\ \A n \in CallIds : (Sound(n))' <=> Sound(n)
  BY <1>1, <1>2, CurrentStep
<1>4. /\ queue' \in [Side \cup {Current} -> Seq(CurrentOp \cup SideOp)]
      /\ queue'[Current] \in Seq(CurrentOp)
      /\ Range(queue[Current]) = {First(Current)} \cup Range(queue'[Current])
  BY <1>2, PopCurrent
<1>5. HostShape' BY <1>2, HostApart
<1>6. DeviceShape' BY <1>1, <1>2, <1>4, CurrentOps DEF DeviceShape
<1>7. \A n, p, b : ZeroOp(n) # First(Current) /\ AccumulateOp(n, p, b) # First(Current)
  BY <1>1 DEF ZeroOp, AccumulateOp
<1>8. UNCHANGED host BY <1>2 DEF hostVars
<1>9. Ledger'
  <2> SUFFICES ASSUME NEW n \in CallIds, (Committed(n))'
               PROVE (Owes(n))'
    BY DEF Ledger, Owes
  <2>1. \A p \in Live, b \in Blocks : Reads(n, p, b) => (Reads(n, p, b))'
    BY <1>4, <1>7 DEF Reads
  <2> QED BY <2>1, <1>2, <1>3, <1>4, <1>7, <1>8, LedgerKept
<1>10. Opened' BY <1>2, <1>4, <1>7, <1>8 DEF Opened
<1>11. WrongOnlyIfLateOrRecycled' BY <1>2, <1>3, ResultKept
<1> QED BY <1>3, <1>5, <1>6, <1>9, <1>10, <1>11

\* The current stream passes a wait.
LEMMA AwaitStep == ASSUME IInv, NEW s \in Side \cup {Current}, Await(s) PROVE IInv'
<1> USE DEF IInv
<1>1. s = Current /\ First(Current) \in CurrentOp /\ First(Current).op = "await"
  BY WhereOpsRun DEF Await, Running
<1>2. /\ queue[Current] # <<>> /\ Done(Current)
      /\ UNCHANGED <<hostVars, recorded, holds, produced, sum, result, late, recycled>>
      /\ <<First(Current).call, First(Current).path>> \in recorded
  BY <1>1 DEF Await, Running, device
<1>3. /\ SideStreams' /\ CurrentStream' /\ StagedOnce' /\ Exclusive' /\ Written'
      /\ \A n \in CallIds : (Sound(n))' <=> Sound(n)
  BY <1>1, <1>2, CurrentStep
<1>4. /\ queue' \in [Side \cup {Current} -> Seq(CurrentOp \cup SideOp)]
      /\ queue'[Current] \in Seq(CurrentOp)
      /\ Range(queue[Current]) = {First(Current)} \cup Range(queue'[Current])
  BY <1>2, PopCurrent
<1>5. HostShape' BY <1>2, HostApart
<1>6. DeviceShape' BY <1>2, <1>4 DEF DeviceShape
<1>7. \A n, p, b : ZeroOp(n) # First(Current) /\ AccumulateOp(n, p, b) # First(Current)
  BY <1>1 DEF ZeroOp, AccumulateOp
<1>8. UNCHANGED host BY <1>2 DEF hostVars
<1>9. Ledger'
  <2> SUFFICES ASSUME NEW n \in CallIds, (Committed(n))'
               PROVE (Owes(n))'
    BY DEF Ledger, Owes
  <2>1. \A p \in Live, b \in Blocks : Reads(n, p, b) => (Reads(n, p, b))'
    BY <1>4, <1>7 DEF Reads
  <2> QED BY <2>1, <1>2, <1>3, <1>4, <1>7, <1>8, LedgerKept
<1>10. Opened' BY <1>2, <1>4, <1>7, <1>8 DEF Opened
<1>11. WrongOnlyIfLateOrRecycled' BY <1>2, <1>3, ResultKept
<1> QED BY <1>3, <1>5, <1>6, <1>9, <1>10, <1>11

\* The sums of a call are zeroed.
LEMMA ZeroStep == ASSUME IInv, NEW s \in Side \cup {Current}, Zero(s) PROVE IInv'
<1> USE DEF IInv
<1> DEFINE m == First(Current).call
<1>1. s = Current /\ First(Current) \in CurrentOp /\ First(Current).op = "zero"
  BY WhereOpsRun DEF Zero, Running
<1>2. /\ queue[Current] # <<>> /\ Done(Current)
      /\ UNCHANGED <<hostVars, recorded, holds, produced, result, late, recycled>>
      /\ sum' = [sum EXCEPT ![m] = <<>>]
  BY <1>1 DEF Zero, Running
<1>3. /\ SideStreams' /\ CurrentStream' /\ StagedOnce' /\ Exclusive' /\ Written'
      /\ \A n \in CallIds : (Sound(n))' <=> Sound(n)
  BY <1>1, <1>2, CurrentStep
<1>4. /\ queue' \in [Side \cup {Current} -> Seq(CurrentOp \cup SideOp)]
      /\ queue'[Current] \in Seq(CurrentOp)
      /\ Range(queue[Current]) = {First(Current)} \cup Range(queue'[Current])
  BY <1>2, PopCurrent
<1>5. HostShape' BY <1>2, HostApart
<1>6. m \in CallIds /\ First(Current) = ZeroOp(m) BY <1>1, CurrentOps
<1>7. /\ sum' \in [CallIds -> Seq(Contents)] /\ sum'[m] = <<>>
      /\ \A n \in CallIds : n # m => sum'[n] = sum[n]
  BY <1>2, <1>6 DEF DeviceShape
<1>8. DeviceShape' BY <1>2, <1>4, <1>7 DEF DeviceShape
<1>9. /\ \A n, p, b : AccumulateOp(n, p, b) # First(Current)
      /\ \A n : n # m => ZeroOp(n) # First(Current)
  BY <1>1, <1>6 DEF ZeroOp, AccumulateOp
<1>10. UNCHANGED host BY <1>2 DEF hostVars
<1>11. \A n \in CallIds, p \in Live, b \in Blocks : (Reads(n, p, b))' <=> Reads(n, p, b)
  BY <1>4, <1>9 DEF Reads
<1>12. Ledger'
  <2> SUFFICES ASSUME NEW n \in CallIds, (Committed(n))'
               PROVE (Owes(n))'
    BY DEF Ledger, Owes
  <2>1. CASE n # m
    BY <2>1, <1>2, <1>3, <1>4, <1>7, <1>9, <1>10, <1>11, LedgerKept
  <2>2. CASE n = m
    <3>1. Committed(n) BY <1>4, <1>10 DEF Committed
    <3>2. Due(n) = Live BY <3>1, <2>2, <1>4, <1>6 DEF Ledger
    <3>3. (Due(n))' = Live BY <3>2, <1>11 DEF Due
    <3>4. Range(sum'[n]) = {} /\ Len(sum'[n]) = 0 BY <2>2, <1>7, RangeOfEmpty
    <3>5. Cardinality({}) = 0 /\ Live \ (Due(n))' = {} BY <3>3, FS_EmptySet
    <3>6. {Whole(n, p) : p \in Live \ (Due(n))'} = {} BY <3>5
    <3>7. \A p : (Whole(n, p))' = Whole(n, p) BY DEF Whole
    <3> QED BY <3>3, <3>4, <3>5, <3>6, <3>7 DEF Owes
  <2> QED BY <2>1, <2>2
<1>13. Opened'
  <2>1. CASE host.call = m BY <2>1, <1>7, <1>10 DEF Opened
  <2>2. ASSUME host.call # m, host.at = "fork"
        PROVE  ZeroOp(host.call) \in Range(queue'[Current]) \/ sum'[host.call] = <<>>
    <3>1. host.call \in CallIds BY <2>2 DEF HostShape
    <3> QED BY <3>1, <2>2, <1>4, <1>7, <1>9 DEF Opened
  <2> QED BY <2>1, <2>2, <1>10 DEF Opened
<1>14. WrongOnlyIfLateOrRecycled' BY <1>2, <1>3, ResultKept
<1> QED BY <1>3, <1>5, <1>8, <1>12, <1>13, <1>14

\* An accumulation whose turn has come reads a block that holds its path: the
\* wait before it has been passed, so the event has happened, so the path's
\* stream has written the block.
LEMMA AccumulationReads ==
  ASSUME IInv, NEW n \in CallIds, NEW p \in Live, NEW b \in Blocks,
         queue[Current] # <<>>, First(Current) = AccumulateOp(n, p, b), Done(Current)
  PROVE  /\ Sound(n) => holds[b] = Whole(n, p)
         /\ ZeroOp(n) \notin Range(queue[Current])
         /\ \A c \in Blocks : AccumulateOp(n, p, c) \notin Range(queue'[Current])
<1> USE DEF IInv
<1>1. /\ Range(queue[Current]) = {First(Current)} \cup Range(queue'[Current])
      /\ \A o \in Range(queue'[Current]) : MayPrecede(First(Current), o)
  BY PopCurrent
<1>2. /\ ZeroOp(n) # First(Current) /\ AwaitOp(n, p) # First(Current)
  BY DEF ZeroOp, AwaitOp, AccumulateOp
<1>3. ZeroOp(n) \notin Range(queue[Current]) /\ AwaitOp(n, p) \notin Range(queue[Current])
  BY <1>1, <1>2, OrderOfCall
<1>4. \A c \in Blocks : AccumulateOp(n, p, c) \notin Range(queue'[Current])
  BY <1>1, OrderOfCall
<1>5. Reads(n, p, b) BY <1>1 DEF Reads
<1>6. <<n, p>> \in recorded BY <1>3, <1>5 DEF CurrentStream, Reads
<1>7. ASSUME NEW s \in Side PROVE ~ Doing(s, n, p, b)
  <2> SUFFICES ASSUME Doing(s, n, p, b) PROVE FALSE
    OBVIOUS
  <2>1. queue[s] # <<>> /\ Busy(s, n, p) BY DoingFirst
  <2> QED BY <2>1, <1>6, BusyIs
<1>8. Sound(n) => holds[b] = Whole(n, p) BY <1>5, <1>7 DEF Written
<1> QED BY <1>3, <1>4, <1>8

\* A path is added to the sums of its call.
LEMMA AccumulateStep == ASSUME IInv, NEW s \in Side \cup {Current}, Accumulate(s) PROVE IInv'
<1> USE DEF IInv
<1>1. s = Current /\ First(Current) \in CurrentOp /\ First(Current).op = "accumulate"
  BY WhereOpsRun DEF Accumulate, Running
<1>2. PICK m \in CallIds, p \in Live, b \in Blocks : First(Current) = AccumulateOp(m, p, b)
  BY <1>1, CurrentOps
<1>3. First(Current).call = m /\ First(Current).block = b BY <1>2 DEF AccumulateOp
<1>4. /\ queue[Current] # <<>> /\ Done(Current)
      /\ UNCHANGED <<hostVars, recorded, holds, produced, result, late, recycled>>
      /\ sum' = [sum EXCEPT ![m] = Append(@, holds[b])]
  BY <1>1, <1>3 DEF Accumulate, Running
<1>5. /\ SideStreams' /\ CurrentStream' /\ StagedOnce' /\ Exclusive' /\ Written'
      /\ \A n \in CallIds : (Sound(n))' <=> Sound(n)
  BY <1>1, <1>4, CurrentStep
<1>6. /\ queue' \in [Side \cup {Current} -> Seq(CurrentOp \cup SideOp)]
      /\ queue'[Current] \in Seq(CurrentOp)
      /\ Range(queue[Current]) = {First(Current)} \cup Range(queue'[Current])
  BY <1>4, PopCurrent
<1>7. HostShape' BY <1>4, HostApart
<1>8. /\ sum[m] \in Seq(Contents) /\ holds[b] \in Contents BY DEF DeviceShape
<1>9. /\ sum'[m] \in Seq(Contents) /\ Len(sum'[m]) = Len(sum[m]) + 1
      /\ Range(sum'[m]) = Range(sum[m]) \cup {holds[b]}
  <2>1. sum'[m] = Append(sum[m], holds[b]) BY <1>4 DEF DeviceShape
  <2> QED BY <2>1, <1>8, RangeOfAppend
<1>10. /\ sum' \in [CallIds -> Seq(Contents)] /\ \A n \in CallIds : n # m => sum'[n] = sum[n]
  BY <1>4, <1>8, AppendProperties DEF DeviceShape
<1>11. DeviceShape' BY <1>4, <1>6, <1>10 DEF DeviceShape
<1>12. /\ \A n : ZeroOp(n) # First(Current)
       /\ \A n, q, c : n # m \/ q # p => AccumulateOp(n, q, c) # First(Current)
  BY <1>2 DEF ZeroOp, AccumulateOp
<1>13. UNCHANGED host BY <1>4 DEF hostVars
<1>14. /\ Sound(m) => holds[b] = Whole(m, p)
       /\ ZeroOp(m) \notin Range(queue[Current])
       /\ \A c \in Blocks : AccumulateOp(m, p, c) \notin Range(queue'[Current])
  BY <1>2, <1>4, AccumulationReads
<1>15. Ledger'
  <2> SUFFICES ASSUME NEW n \in CallIds, (Committed(n))'
               PROVE (Owes(n))'
    BY DEF Ledger, Owes
  <2>1. CASE n # m
    <3>1. \A q \in Live, c \in Blocks : Reads(n, q, c) => (Reads(n, q, c))'
      BY <2>1, <1>6, <1>12 DEF Reads
    <3>2. ZeroOp(n) \in Range(queue[Current]) => ZeroOp(n) \in Range(queue'[Current])
      BY <1>6, <1>12
    <3> HIDE DEF IInv
    <3> QED BY <2>1, <3>1, <3>2, <1>5, <1>6, <1>10, <1>13, LedgerKept
  <2>2. CASE n = m
    <3> SUFFICES ASSUME Sound(m)
                 PROVE  /\ Range(sum'[m]) = {Whole(m, q) : q \in Live \ (Due(m))'}
                        /\ Len(sum'[m]) = Cardinality(Live \ (Due(m))')
      <4>1. ZeroOp(n) \notin Range(queue'[Current]) BY <2>2, <1>6, <1>14
      <4>2. \A q : (Whole(n, q))' = Whole(n, q) BY DEF Whole
      <4> QED BY <2>2, <4>1, <4>2, <1>5 DEF Owes
    <3>1. Committed(m) BY <2>2, <1>6, <1>13 DEF Committed
    <3>2. /\ Range(sum[m]) = {Whole(m, q) : q \in Live \ Due(m)}
          /\ Len(sum[m]) = Cardinality(Live \ Due(m))
      BY <3>1, <1>14 DEF Ledger
    <3>3. (Due(m))' = Due(m) \ {p}
      <4>1. \A c \in Blocks : ~ (Reads(m, p, c))' BY <1>14 DEF Reads
      <4>2. \A q \in Live, c \in Blocks : q # p => ((Reads(m, q, c))' <=> Reads(m, q, c))
        BY <1>6, <1>12 DEF Reads
      <4> QED BY <4>1, <4>2 DEF Due
    <3>4. p \in Due(m) /\ p \in Live BY <1>2, <1>6 DEF Due, Reads
    <3>5. Live \ (Due(m))' = (Live \ Due(m)) \cup {p} /\ p \notin Live \ Due(m) BY <3>3, <3>4
    <3>6. IsFiniteSet(Live \ Due(m)) BY Numbers, FS_Subset
    <3>7. /\ Cardinality(Live \ (Due(m))') = Cardinality(Live \ Due(m)) + 1
      BY <3>5, <3>6, FS_AddElement
    <3>8. Range(sum'[m]) = {Whole(m, q) : q \in Live \ (Due(m))'}
      BY <3>2, <3>5, <1>9, <1>14
    <3> QED BY <3>2, <3>7, <3>8, <1>9
  <2> QED BY <2>1, <2>2
<1>16. Opened'
  <2> SUFFICES ASSUME host.at = "fork"
               PROVE  ZeroOp(host.call) \in Range(queue'[Current]) \/ sum'[host.call] = <<>>
    BY <1>13 DEF Opened
  <2>1. m # host.call
    <3>1. First(Current).op \notin {"produce", "zero"} BY <1>1
    <3>2. m < host.call BY <3>1, <1>3, <1>6 DEF CurrentStream, NotYet
    <3> QED BY <3>2, Numbers
  <2>2. host.call \in CallIds BY DEF HostShape
  <2> QED BY <2>1, <2>2, <1>6, <1>10, <1>12 DEF Opened
<1>17. WrongOnlyIfLateOrRecycled' BY <1>4, <1>5, ResultKept
<1> QED BY <1>5, <1>7, <1>11, <1>15, <1>16, <1>17

\* The sums of a call are divided: that is its result, and by then every path
\* is in it once.
LEMMA DivideStep == ASSUME IInv, NEW s \in Side \cup {Current}, Divide(s) PROVE IInv'
<1> USE DEF IInv
<1> DEFINE m == First(Current).call
<1>1. s = Current /\ First(Current) \in CurrentOp /\ First(Current).op = "divide"
  BY WhereOpsRun DEF Divide, Running
<1>2. /\ queue[Current] # <<>> /\ Done(Current)
      /\ UNCHANGED <<hostVars, recorded, holds, produced, sum, late, recycled>>
      /\ result' = [result EXCEPT ![m] = sum[m]]
  BY <1>1 DEF Divide, Running
<1>3. /\ SideStreams' /\ CurrentStream' /\ StagedOnce' /\ Exclusive' /\ Written'
      /\ \A n \in CallIds : (Sound(n))' <=> Sound(n)
  BY <1>1, <1>2, CurrentStep
<1>4. /\ queue' \in [Side \cup {Current} -> Seq(CurrentOp \cup SideOp)]
      /\ queue'[Current] \in Seq(CurrentOp)
      /\ Range(queue[Current]) = {First(Current)} \cup Range(queue'[Current])
      /\ \A o \in Range(queue'[Current]) : MayPrecede(First(Current), o)
  BY <1>2, PopCurrent
<1>5. HostShape' BY <1>2, HostApart
<1>6. m \in CallIds /\ First(Current) = DivideOp(m) BY <1>1, CurrentOps
<1>7. /\ result' \in [CallIds -> Seq(Contents) \cup {Pending}] /\ result'[m] = sum[m]
      /\ \A n \in CallIds : n # m => result'[n] = result[n]
  BY <1>2, <1>6 DEF DeviceShape
<1>8. DeviceShape' BY <1>2, <1>4, <1>7 DEF DeviceShape, Pending
<1>9. /\ \A n, p, b : ZeroOp(n) # First(Current) /\ AccumulateOp(n, p, b) # First(Current)
  BY <1>6 DEF ZeroOp, AccumulateOp, DivideOp
<1>10. UNCHANGED host BY <1>2 DEF hostVars
<1>11. \A n \in CallIds, p \in Live, b \in Blocks : Reads(n, p, b) => (Reads(n, p, b))'
  BY <1>4, <1>9 DEF Reads
<1>12. Ledger'
  <2> SUFFICES ASSUME NEW n \in CallIds, (Committed(n))'
               PROVE (Owes(n))'
    BY DEF Ledger, Owes
  <2> HIDE DEF IInv
  <2> QED BY <1>2, <1>3, <1>4, <1>9, <1>10, <1>11, LedgerKept
<1>13. Opened' BY <1>2, <1>4, <1>9, <1>10 DEF Opened
<1>14. Sound(m) => Len(sum[m]) = Cardinality(Live) /\ Range(sum[m]) = {Whole(m, p) : p \in Live}
  <2> HIDE DEF m
  <2>1. Committed(m) BY <1>4, <1>6 DEF Committed
  <2>2. /\ ZeroOp(m) \notin Range(queue[Current])
        /\ \A p \in Live, b \in Blocks : ~ Reads(m, p, b)
    BY <1>4, <1>6, <1>9, OrderOfCall, ZeroBeforeDivide DEF Reads
  <2>3. Due(m) = {} BY <2>2 DEF Due
  <2>4. Live \ Due(m) = Live BY <2>3
  <2> QED BY <1>6, <2>1, <2>2, <2>4 DEF Ledger
<1>15. WrongOnlyIfLateOrRecycled'
  <2>1. ASSUME NEW n \in CallIds, result'[n] # Pending, Sound(n)
        PROVE  /\ Len(result'[n]) = Cardinality(Live)
               /\ Range(result'[n]) = {Whole(n, p) : p \in Live}
    <3>1. CASE n = m BY <3>1, <2>1, <1>7, <1>14
    <3>2. CASE n # m BY <3>2, <2>1, <1>7, WrongMeansUnsound DEF Exact, Whole
    <3> QED BY <3>1, <3>2
  <2>2. ASSUME NEW n \in CallIds, result'[n] # Pending', (Sound(n))'
        PROVE  (Exact(n))'
    <3>1. result'[n] # Pending /\ Sound(n) BY <2>2, <1>3 DEF Pending
    <3> QED BY <3>1, <2>1 DEF Exact, Whole
  <2>3. WrongOnlyIfLateOrRecycled' <=>
          \A n \in CallIds : result'[n] # Pending' /\ (Sound(n))' => (Exact(n))'
    BY DEF WrongOnlyIfLateOrRecycled, Sound
  <2> QED BY <2>2, <2>3
<1> QED BY <1>3, <1>5, <1>8, <1>12, <1>13, <1>15

-----------------------------------------------------------------------------
(* The steps of the side streams. *)

\* Queues of different lengths are different queues.
LEMMA TuplesDiffer ==
  ASSUME NEW a, NEW b, NEW c, NEW d, NEW e
  PROVE  /\ <<a>> # <<b, c>> /\ <<>> # <<b, c>> /\ <<>> # <<a>>
         /\ <<a, b>> = <<c, d>> => a = c /\ b = d
OBVIOUS

\* A side stream that gets on leaves the current stream's queue, and what the
\* host and the sums have, alone; histories only grow.
LEMMA SideStep ==
  ASSUME IInv, NEW s \in Side, queue[s] # <<>>, Done(s),
         UNCHANGED <<hostVars, produced, sum, result>>,
         recorded \subseteq recorded', late \subseteq late', recycled \subseteq recycled'
  PROVE  /\ HostShape' /\ CurrentStream' /\ StagedOnce' /\ Ledger' /\ Opened'
         /\ WrongOnlyIfLateOrRecycled'
         /\ queue' \in [Side \cup {Current} -> Seq(CurrentOp \cup SideOp)]
         /\ queue'[Current] = queue[Current] /\ queue'[s] = Tail(queue[s])
         /\ \A t \in Side : t # s => queue'[t] = queue[t]
         /\ \A n : (Sound(n))' => Sound(n)
         /\ \A n, p, b : /\ (Keeps(n, p, b))' <=> Keeps(n, p, b)
                         /\ (Reads(n, p, b))' <=> Reads(n, p, b)
                         /\ (Forked(n, p))' <=> Forked(n, p)
<1> USE DEF IInv
<1>1. /\ queue' \in [Side \cup {Current} -> Seq(CurrentOp \cup SideOp)]
      /\ queue'[s] = Tail(queue[s])
      /\ \A t \in Side \cup {Current} : t # s => queue'[t] = queue[t]
  BY Pop
<1>2. queue'[Current] = queue[Current] BY <1>1, Numbers
<1>3. UNCHANGED <<host, staged, block>> BY DEF hostVars
<1>4. \A n : (Sound(n))' => Sound(n) BY DEF Sound
<1>5. \A n, p, b : /\ (Keeps(n, p, b))' <=> Keeps(n, p, b)
                   /\ (Reads(n, p, b))' <=> Reads(n, p, b)
                   /\ (Forked(n, p))' <=> Forked(n, p)
  BY <1>2, <1>3 DEF Keeps, Reads, Forked
<1>6. HostShape' BY HostApart
<1>7. CurrentStream' BY <1>2, <1>3 DEF CurrentStream, NotYet
<1>8. StagedOnce' BY <1>3 DEF StagedOnce
<1>9. Ledger'
  <2> SUFFICES ASSUME NEW n \in CallIds, (Committed(n))'
               PROVE (Owes(n))'
    BY DEF Ledger, Owes
  <2>1. Range(queue'[Current]) = Range(queue[Current]) BY <1>2
  <2> HIDE DEF IInv
  <2> QED BY <2>1, <1>3, <1>4, <1>5, LedgerKept
<1>10. Opened' BY <1>2, <1>3 DEF Opened
<1>11. WrongOnlyIfLateOrRecycled' BY <1>4, ResultKept
<1> QED BY <1>1, <1>2, <1>4, <1>5, <1>6, <1>7, <1>8, <1>9, <1>10, <1>11

\* A path is gathered and attended to on its stream, which writes its block.
LEMMA LocalStep == ASSUME IInv, NEW s \in Side \cup {Current}, Local(s) PROVE IInv'
<1> USE DEF IInv
<1>1. s \in Side /\ queue[s] # <<>> /\ First(s).op = "local" BY WhereOpsRun DEF Local, Running
<1>2. PICK m \in CallIds, q \in Live :
           /\ Forked(m, q) /\ <<m, q>> \notin recorded
           /\ Finishing(s, m, q) \/ \E b \in Blocks : Doing(s, m, q, b) /\ block[b].owner = s
  BY <1>1, BusyIs
<1>3. ~ Finishing(s, m, q) BY <1>1, DoingFirst, OpsDiffer
<1>4. PICK c \in Blocks : Doing(s, m, q, c) /\ block[c].owner = s BY <1>2, <1>3
<1>5. First(s) = LocalOp(m, q, c) /\ Tail(queue[s]) = <<RecordOp(m, q)>> /\ Busy(s, m, q)
  BY <1>1, <1>4, DoingFirst
<1>6. First(s).call = m /\ First(s).path = q /\ First(s).block = c BY <1>5 DEF LocalOp
<1>7. /\ Done(s) /\ UNCHANGED <<hostVars, recorded, produced, sum, result>>
      /\ holds' = [holds EXCEPT ![c] = [call |-> m, path |-> q, whole |-> m \in produced]]
      /\ late' = IF m \in produced THEN late ELSE late \cup {m}
      /\ recycled' = recycled \cup
           {[old |-> r.call, new |-> m] : r \in {x \in Readers(c) : <<x.call, x.path>> # <<m, q>>}}
  BY <1>6 DEF Local
<1>8. recorded \subseteq recorded' /\ late \subseteq late' /\ recycled \subseteq recycled' BY <1>7
<1>9. /\ HostShape' /\ CurrentStream' /\ StagedOnce' /\ Ledger' /\ Opened'
      /\ WrongOnlyIfLateOrRecycled'
      /\ queue' \in [Side \cup {Current} -> Seq(CurrentOp \cup SideOp)]
      /\ queue'[Current] = queue[Current] /\ queue'[s] = Tail(queue[s])
      /\ \A t \in Side : t # s => queue'[t] = queue[t]
      /\ \A n : (Sound(n))' => Sound(n)
      /\ \A n, p, b : /\ (Keeps(n, p, b))' <=> Keeps(n, p, b)
                      /\ (Reads(n, p, b))' <=> Reads(n, p, b)
                      /\ (Forked(n, p))' <=> Forked(n, p)
  <2> HIDE DEF IInv
  <2> QED BY <1>1, <1>7, <1>8, SideStep
<1>10. (Finishing(s, m, q))' BY <1>5, <1>9 DEF Finishing
<1>11. \A t \in Side : \A n, p, b : (Doing(t, n, p, b))' <=> t # s /\ Doing(t, n, p, b)
  <2>1. ASSUME NEW n, NEW p, NEW b, (Doing(s, n, p, b))' PROVE FALSE
    <3>1. queue'[s] = <<LocalOp(n, p, b), RecordOp(n, p)>> BY <2>1 DEF Doing, LocalOp, RecordOp
    <3>2. <<RecordOp(m, q)>> = <<LocalOp(n, p, b), RecordOp(n, p)>> BY <3>1, <1>5, <1>9
    <3> QED BY <3>2
  <2> QED BY <2>1, <1>9 DEF Doing
<1>12. \A t \in Side : \A n, p : /\ (Busy(t, n, p))' <=> Busy(t, n, p)
                                 /\ t # s => ((Finishing(t, n, p))' <=> Finishing(t, n, p))
  <2>1. Range(queue[s]) = {LocalOp(m, q, c), RecordOp(m, q)} BY <1>4 DEF Doing, Range
  <2>2. Range(<<RecordOp(m, q)>>) = {RecordOp(m, q)} BY DEF Range
  <2>3. Range(queue'[s]) = {RecordOp(m, q)} BY <2>2, <1>5, <1>9
  <2>4. \A n, p : (Busy(s, n, p))' <=> Busy(s, n, p)
    BY <2>1, <2>3, OpsDiffer DEF Busy
  <2> QED BY <2>4, <1>9 DEF Busy, Finishing
<1>13. Readers(c) = {queue[Current][i] : i \in {j \in DOMAIN queue[Current] :
                       queue[Current][j].op = "accumulate" /\ queue[Current][j].block = c}}
  BY DEF Readers
<1>14. \A x \in Readers(c) : x \in CurrentOp /\ x \in Range(queue[Current]) /\ x.op = "accumulate" /\ x.block = c
  <2>1. \A i \in DOMAIN queue[Current] : queue[Current][i] \in CurrentOp
    BY LenProperties, ElementOfSeq DEF DeviceShape
  <2> QED BY <2>1, <1>13 DEF Range
<1>15. \A n \in CallIds, p \in Live : Reads(n, p, c) => AccumulateOp(n, p, c) \in Readers(c)
  BY <1>13 DEF Reads, Range, AccumulateOp
<1>16. DeviceShape'
  <2>1. holds' \in [Blocks -> Contents]
    BY <1>7, Numbers DEF DeviceShape, Contents
  <2>2. recycled' \subseteq [old : CallIds, new : CallIds]
    BY <1>7, <1>14, CurrentOps DEF DeviceShape
  <2>3. late' \subseteq CallIds BY <1>7 DEF DeviceShape
  <2> QED BY <2>1, <2>2, <2>3, <1>7, <1>9 DEF DeviceShape
<1>17. SideStreams'
  <2>1. ASSUME NEW t \in Side
        PROVE  \/ queue'[t] = <<>>
               \/ \E n \in CallIds, p \in Live :
                    /\ (Forked(n, p))' /\ <<n, p>> \notin recorded'
                    /\ (Finishing(t, n, p))' \/ \E b \in Blocks : (Doing(t, n, p, b))' /\ block'[b].owner = t
    <3>1. CASE t = s BY <3>1, <1>2, <1>7, <1>9, <1>10
    <3>2. CASE t # s /\ queue[t] = <<>> BY <3>2, <1>9
    <3>3. CASE t # s /\ queue[t] # <<>>
      <4>1. PICK n \in CallIds, p \in Live :
              /\ Forked(n, p) /\ <<n, p>> \notin recorded
              /\ Finishing(t, n, p) \/ \E b \in Blocks : Doing(t, n, p, b) /\ block[b].owner = t
        BY <3>3 DEF SideStreams
      <4>2. UNCHANGED block BY <1>7 DEF hostVars
      <4>3. (Forked(n, p))' /\ <<n, p>> \notin recorded' BY <4>1, <1>7, <1>9
      <4>4. (Finishing(t, n, p))' \/ \E b \in Blocks : (Doing(t, n, p, b))' /\ block'[b].owner = t
        BY <4>1, <4>2, <3>3, <1>11, <1>12
      <4> QED BY <4>3, <4>4
    <3> QED BY <3>1, <3>2, <3>3
  <2>2. \A t, u \in Side, n \in CallIds, p \in Live : (Busy(t, n, p))' /\ (Busy(u, n, p))' => t = u
    BY <1>12 DEF SideStreams
  <2>3. \A n \in CallIds, p \in Live : <<n, p>> \in recorded' => (Forked(n, p))'
    BY <1>7, <1>9 DEF SideStreams
  <2> QED BY <2>1, <2>2, <2>3 DEF SideStreams
<1>18. Exclusive'
  <2> SUFFICES ASSUME NEW t \in Side, NEW k \in CallIds, NEW n \in CallIds, NEW p \in Live, NEW r \in Live,
                      NEW b \in Blocks, (Doing(t, k, r, b))'
               PROVE  /\ (Keeps(n, p, b))' => n = k /\ p = r
                      /\ (Reads(n, p, b))' => (n = k /\ p = r) \/ n < k
    BY DEF Exclusive
  <2>1. Doing(t, k, r, b) BY <1>11
  <2> QED BY <2>1, <1>9 DEF Exclusive
<1>19. Written'
  <2> SUFFICES ASSUME NEW n \in CallIds, NEW p \in Live, NEW b \in Blocks,
                      (Keeps(n, p, b) \/ Reads(n, p, b))', (Sound(n))'
               PROVE  holds'[b] = Whole(n, p) \/ \E t \in Side : (Doing(t, n, p, b))'
    BY DEF Written
  <2>1. Keeps(n, p, b) \/ Reads(n, p, b) BY <1>9
  <2>2. Sound(n) BY <1>9
  <2>3. holds[b] = Whole(n, p) \/ \E t \in Side : Doing(t, n, p, b) BY <2>1, <2>2 DEF Written
  <2>4. CASE b = c
    <3>1. n = m /\ p = q
      <4>1. CASE Keeps(n, p, b) BY <4>1, <2>4, <1>1, <1>4 DEF Exclusive
      <4>2. ASSUME Reads(n, p, b), ~ (n = m /\ p = q) PROVE FALSE
        <5>1. n < m BY <4>2, <2>4, <1>1, <1>4 DEF Exclusive
        <5>2. AccumulateOp(n, p, c) \in Readers(c) BY <4>2, <2>4, <1>15
        <5>3. <<AccumulateOp(n, p, c).call, AccumulateOp(n, p, c).path>> # <<m, q>>
              /\ AccumulateOp(n, p, c).call = n
          BY <4>2 DEF AccumulateOp
        <5>4. [old |-> n, new |-> m] \in recycled' BY <5>2, <5>3, <1>7
        <5>5. ~ (Sound(n))' BY <5>1, <5>4 DEF Sound
        <5> QED BY <5>5
      <4> QED BY <2>1, <4>1, <4>2
    <3>2. m \in produced BY <3>1, <1>7 DEF Sound
    <3>3. holds'[c] = Whole(m, q) BY <3>2, <1>7 DEF DeviceShape, Whole
    <3> QED BY <2>4, <3>1, <3>3
  <2>5. CASE b # c
    <3>1. holds'[b] = holds[b] BY <2>5, <1>7 DEF DeviceShape
    <3>2. ~ Doing(s, n, p, b)
      BY <2>5, <1>4, TuplesDiffer, OpsDiffer DEF Doing
    <3> QED BY <2>3, <3>1, <3>2, <1>11
  <2> QED BY <2>4, <2>5
<1> QED BY <1>9, <1>16, <1>17, <1>18, <1>19

\* The event of a path happens: its stream is done with it.
LEMMA RecordStep == ASSUME IInv, NEW s \in Side \cup {Current}, Record(s) PROVE IInv'
<1> USE DEF IInv
<1>1. s \in Side /\ queue[s] # <<>> /\ First(s).op = "record" BY WhereOpsRun DEF Record, Running
<1>2. PICK m \in CallIds, q \in Live :
           /\ Forked(m, q) /\ <<m, q>> \notin recorded
           /\ \A n \in CallIds, p \in Live : Busy(s, n, p) <=> (n = m /\ p = q)
           /\ Finishing(s, m, q) \/ \E b \in Blocks : Doing(s, m, q, b) /\ block[b].owner = s
  BY <1>1, BusyIs
<1>3. ~ \E b \in Blocks : Doing(s, m, q, b) BY <1>1, DoingFirst, OpsDiffer
<1>4. Finishing(s, m, q) BY <1>2, <1>3
<1>5. First(s) = RecordOp(m, q) /\ Tail(queue[s]) = <<>> BY <1>1, <1>4, DoingFirst
<1>6. First(s).call = m /\ First(s).path = q BY <1>5 DEF RecordOp
<1>7. /\ Done(s) /\ UNCHANGED <<hostVars, holds, produced, sum, result, late, recycled>>
      /\ recorded' = recorded \cup {<<m, q>>}
  BY <1>6 DEF Record
<1>8. recorded \subseteq recorded' /\ late \subseteq late' /\ recycled \subseteq recycled' BY <1>7
<1>9. /\ HostShape' /\ CurrentStream' /\ StagedOnce' /\ Ledger' /\ Opened'
      /\ WrongOnlyIfLateOrRecycled'
      /\ queue' \in [Side \cup {Current} -> Seq(CurrentOp \cup SideOp)]
      /\ queue'[Current] = queue[Current] /\ queue'[s] = Tail(queue[s])
      /\ \A t \in Side : t # s => queue'[t] = queue[t]
      /\ \A n : (Sound(n))' => Sound(n)
      /\ \A n, p, b : /\ (Keeps(n, p, b))' <=> Keeps(n, p, b)
                      /\ (Reads(n, p, b))' <=> Reads(n, p, b)
                      /\ (Forked(n, p))' <=> Forked(n, p)
  <2> HIDE DEF IInv
  <2> QED BY <1>1, <1>7, <1>8, SideStep
<1>10. queue'[s] = <<>> /\ \A n, p : ~ (Busy(s, n, p))' BY <1>5, <1>9, RangeOfEmpty DEF Busy
<1>11. \A t \in Side : \A n, p, b :
          /\ t # s => /\ (Doing(t, n, p, b))' <=> Doing(t, n, p, b)
                      /\ (Busy(t, n, p))' <=> Busy(t, n, p)
                      /\ (Finishing(t, n, p))' <=> Finishing(t, n, p)
          /\ (Busy(t, n, p))' => Busy(t, n, p) /\ t # s
  BY <1>9, <1>10 DEF Doing, Busy, Finishing
<1>12. \A n, p, b : ~ Doing(s, n, p, b) /\ ~ (Doing(s, n, p, b))'
  <2> SUFFICES ASSUME NEW n, NEW p, NEW b PROVE ~ Doing(s, n, p, b) /\ ~ (Doing(s, n, p, b))'
    OBVIOUS
  <2>1. ~ Doing(s, n, p, b) BY <1>1, DoingFirst, OpsDiffer
  <2>2. ASSUME (Doing(s, n, p, b))' PROVE FALSE
    <3>1. queue'[s] = <<LocalOp(n, p, b), RecordOp(n, p)>> BY <2>2 DEF Doing, LocalOp, RecordOp
    <3>2. <<>> = <<LocalOp(n, p, b), RecordOp(n, p)>> BY <3>1, <1>10
    <3> QED BY <3>2
  <2> QED BY <2>1, <2>2
<1>13. DeviceShape' BY <1>7, <1>9 DEF DeviceShape
<1>14. SideStreams'
  <2>1. ASSUME NEW t \in Side
        PROVE  \/ queue'[t] = <<>>
               \/ \E n \in CallIds, p \in Live :
                    /\ (Forked(n, p))' /\ <<n, p>> \notin recorded'
                    /\ (Finishing(t, n, p))' \/ \E b \in Blocks : (Doing(t, n, p, b))' /\ block'[b].owner = t
    <3>1. CASE t = s BY <3>1, <1>10
    <3>2. CASE t # s /\ queue[t] = <<>> BY <3>2, <1>9
    <3>3. CASE t # s /\ queue[t] # <<>>
      <4>1. PICK n \in CallIds, p \in Live :
              /\ Forked(n, p) /\ <<n, p>> \notin recorded
              /\ \A k \in CallIds, r \in Live : Busy(t, k, r) <=> (k = n /\ r = p)
              /\ Finishing(t, n, p) \/ \E b \in Blocks : Doing(t, n, p, b) /\ block[b].owner = t
        BY <3>3, BusyIs
      <4>2. <<n, p>> # <<m, q>>
        <5> SUFFICES ASSUME n = m, p = q PROVE FALSE
          OBVIOUS
        <5>1. Busy(t, m, q) /\ Busy(s, m, q) BY <4>1, <1>2
        <5>2. \A x, y \in Side, k \in CallIds, r \in Live : Busy(x, k, r) /\ Busy(y, k, r) => x = y
          BY DEF SideStreams
        <5> QED BY <5>1, <5>2, <3>3, <1>1
      <4>3. UNCHANGED block BY <1>7 DEF hostVars
      <4>4. (Forked(n, p))' /\ <<n, p>> \notin recorded' BY <4>1, <4>2, <1>7, <1>9
      <4>5. (Finishing(t, n, p))' \/ \E b \in Blocks : (Doing(t, n, p, b))' /\ block'[b].owner = t
        BY <4>1, <4>3, <3>3, <1>11
      <4> QED BY <4>4, <4>5
    <3> QED BY <3>1, <3>2, <3>3
  <2>2. \A t, u \in Side, n \in CallIds, p \in Live : (Busy(t, n, p))' /\ (Busy(u, n, p))' => t = u
    BY <1>11 DEF SideStreams
  <2>3. ASSUME NEW n \in CallIds, NEW p \in Live, <<n, p>> \in recorded' PROVE (Forked(n, p))'
    <3>1. <<n, p>> \in recorded \/ (n = m /\ p = q) BY <2>3, <1>7
    <3> QED BY <3>1, <1>2, <1>9 DEF SideStreams
  <2> QED BY <2>1, <2>2, <2>3 DEF SideStreams
<1>15. Exclusive'
  <2> SUFFICES ASSUME NEW t \in Side, NEW k \in CallIds, NEW n \in CallIds, NEW p \in Live, NEW r \in Live,
                      NEW b \in Blocks, (Doing(t, k, r, b))'
               PROVE  /\ (Keeps(n, p, b))' => n = k /\ p = r
                      /\ (Reads(n, p, b))' => (n = k /\ p = r) \/ n < k
    BY DEF Exclusive
  <2>1. Doing(t, k, r, b) BY <1>11, <1>12
  <2> QED BY <2>1, <1>9 DEF Exclusive
<1>16. Written'
  <2> SUFFICES ASSUME NEW n \in CallIds, NEW p \in Live, NEW b \in Blocks,
                      (Keeps(n, p, b) \/ Reads(n, p, b))', (Sound(n))'
               PROVE  holds'[b] = Whole(n, p) \/ \E t \in Side : (Doing(t, n, p, b))'
    BY DEF Written
  <2>1. Keeps(n, p, b) \/ Reads(n, p, b) BY <1>9
  <2>2. Sound(n) BY <1>9
  <2>3. holds[b] = Whole(n, p) \/ \E t \in Side : Doing(t, n, p, b) BY <2>1, <2>2 DEF Written
  <2> QED BY <2>3, <1>7, <1>11, <1>12
<1> QED BY <1>9, <1>13, <1>14, <1>15, <1>16

\* Every step of a stream keeps the invariant.
LEMMA StreamStep == ASSUME IInv, NEW s \in Side \cup {Current}, Stream(s) PROVE IInv'
BY ProduceStep, ZeroStep, LocalStep, RecordStep, AwaitStep, AccumulateStep, DivideStep DEF Stream

-----------------------------------------------------------------------------
(* The steps of the host. *)

\* What is given to the current stream comes after what it already has; the
\* side streams do not see it.
LEMMA GiveCurrent ==
  ASSUME DeviceShape, NEW ops \in Seq(CurrentOp), Enqueue(Current, ops)
  PROVE  /\ queue' \in [Side \cup {Current} -> Seq(CurrentOp \cup SideOp)]
         /\ queue'[Current] = queue[Current] \o ops /\ queue'[Current] \in Seq(CurrentOp)
         /\ Range(queue'[Current]) = Range(queue[Current]) \cup Range(ops)
         /\ \A s \in Side : queue'[s] = queue[s]
<1>1. queue'[Current] = queue[Current] \o ops /\ \A s \in Side : queue'[s] = queue[s]
  BY Numbers DEF DeviceShape, Enqueue
<1>2. queue[Current] \in Seq(CurrentOp) BY DEF DeviceShape
<1>3. queue[Current] \o ops \in Seq(CurrentOp)
      /\ Range(queue[Current] \o ops) = Range(queue[Current]) \cup Range(ops)
  BY <1>2, RangeOfConcat
<1>4. queue[Current] \o ops \in Seq(CurrentOp \cup SideOp) BY <1>3, SeqMonotonic
<1>5. queue' \in [Side \cup {Current} -> Seq(CurrentOp \cup SideOp)]
  BY <1>4, Numbers DEF DeviceShape, Enqueue
<1> QED BY <1>1, <1>3, <1>5

\* What the host does not touch: the side streams.
LEMMA SidesKept ==
  ASSUME SideStreams, \A s \in Side : queue'[s] = queue[s], UNCHANGED recorded,
         \A n \in CallIds, p \in Live : Forked(n, p) => (Forked(n, p))',
         \A b \in Blocks : block'[b].owner = block[b].owner
  PROVE  SideStreams'
<1>1. \A s \in Side : \A n, p, b :
         /\ (Doing(s, n, p, b))' <=> Doing(s, n, p, b)
         /\ (Finishing(s, n, p))' <=> Finishing(s, n, p)
         /\ (Busy(s, n, p))' <=> Busy(s, n, p)
  BY DEF Doing, Finishing, Busy
<1>2. ASSUME NEW s \in Side
      PROVE  \/ queue'[s] = <<>>
             \/ \E n \in CallIds, p \in Live :
                  /\ (Forked(n, p))' /\ <<n, p>> \notin recorded'
                  /\ (Finishing(s, n, p))' \/ \E b \in Blocks : (Doing(s, n, p, b))' /\ block'[b].owner = s
  <2>1. CASE queue[s] = <<>> BY <2>1
  <2>2. CASE queue[s] # <<>>
    <3>1. PICK n \in CallIds, p \in Live :
            /\ Forked(n, p) /\ <<n, p>> \notin recorded
            /\ Finishing(s, n, p) \/ \E b \in Blocks : Doing(s, n, p, b) /\ block[b].owner = s
      BY <2>2 DEF SideStreams
    <3>2. (Forked(n, p))' /\ <<n, p>> \notin recorded' BY <3>1
    <3>3. (Finishing(s, n, p))' \/ \E b \in Blocks : (Doing(s, n, p, b))' /\ block'[b].owner = s
      BY <3>1, <1>1
    <3> QED BY <3>2, <3>3
  <2> QED BY <2>1, <2>2
<1>3. \A s, t \in Side, n \in CallIds, p \in Live : (Busy(s, n, p))' /\ (Busy(t, n, p))' => s = t
  BY <1>1 DEF SideStreams
<1>4. \A n \in CallIds, p \in Live : <<n, p>> \in recorded' => (Forked(n, p))'
  BY DEF SideStreams
<1> QED BY <1>2, <1>3, <1>4 DEF SideStreams

\* A block is still claimed by the path it was given to, be it kept by the host
\* or only read by the current stream.
LEMMA ClaimsKept ==
  ASSUME Exclusive, Written, \A s \in Side : queue'[s] = queue[s], UNCHANGED holds,
         \A n \in CallIds : (Sound(n))' => Sound(n),
         \A n \in CallIds, p \in Live, b \in Blocks :
           /\ (Keeps(n, p, b))' => Keeps(n, p, b)
           /\ (Reads(n, p, b))' => Reads(n, p, b) \/ Keeps(n, p, b)
  PROVE  Exclusive' /\ Written'
<1>1. \A s \in Side : \A n, p, b : (Doing(s, n, p, b))' <=> Doing(s, n, p, b) BY DEF Doing
<1>2. Exclusive'
  <2> SUFFICES ASSUME NEW s \in Side, NEW m \in CallIds, NEW n \in CallIds, NEW p \in Live, NEW q \in Live,
                      NEW b \in Blocks, (Doing(s, m, q, b))'
               PROVE  /\ (Keeps(n, p, b))' => n = m /\ p = q
                      /\ (Reads(n, p, b))' => (n = m /\ p = q) \/ n < m
    BY DEF Exclusive
  <2>1. Doing(s, m, q, b) BY <1>1
  <2>2. /\ Keeps(n, p, b) => n = m /\ p = q
        /\ Reads(n, p, b) => (n = m /\ p = q) \/ n < m
    BY <2>1 DEF Exclusive
  <2> QED BY <2>2
<1>3. Written'
  <2> SUFFICES ASSUME NEW n \in CallIds, NEW p \in Live, NEW b \in Blocks,
                      (Keeps(n, p, b) \/ Reads(n, p, b))', (Sound(n))'
               PROVE  holds'[b] = Whole(n, p) \/ \E s \in Side : (Doing(s, n, p, b))'
    BY DEF Written
  <2>1. holds[b] = Whole(n, p) \/ \E s \in Side : Doing(s, n, p, b) BY DEF Written
  <2> QED BY <2>1, <1>1
<1> QED BY <1>2, <1>3

\* A call begins: the current stream is to compute its inputs, if they are not
\* there yet, and to zero its sums.
LEMMA BeginStep == IInv /\ Begin => IInv'
<1> SUFFICES ASSUME IInv, Begin PROVE IInv'
  OBVIOUS
<1> USE DEF IInv
<1>1. PICK profile \in BOOLEAN, produce \in BOOLEAN :
        LET n == host.call + 1
        IN  /\ host' = [at |-> "fork", call |-> n, path |-> 0, profile |-> profile]
            /\ Enqueue(Current, (IF produce THEN <<[op |-> "produce", call |-> n]>> ELSE <<>>)
                                \o <<[op |-> "zero", call |-> n]>>)
            /\ produced' = IF produce THEN produced ELSE produced \cup {n}
  BY DEF Begin
<1> DEFINE n == host.call + 1
           inputs == IF produce THEN <<ProduceOp(n)>> ELSE <<>>
           zero == <<ZeroOp(n)>>
           ops == inputs \o zero
<1>2. n \in CallIds /\ n \in Nat /\ host.call \in Nat
  BY CqsaForwardAssumption DEF CqsaForwardAssumption, Begin, HostShape, CallIds
<1>3. /\ host' = [at |-> "fork", call |-> n, path |-> 0, profile |-> profile]
      /\ Enqueue(Current, ops)
      /\ produced' = IF produce THEN produced ELSE produced \cup {n}
  BY <1>1 DEF ProduceOp, ZeroOp
<1> HIDE DEF n, ops
<1>5. /\ ProduceOp(n) \in CurrentOp /\ ZeroOp(n) \in CurrentOp
      /\ ProduceOp(n).call = n /\ ZeroOp(n).call = n
      /\ ProduceOp(n).op = "produce" /\ ZeroOp(n).op = "zero"
  BY <1>2 DEF ProduceOp, ZeroOp, CurrentOp
<1>6. /\ ops \in Seq(CurrentOp) /\ Ordered(ops) /\ ZeroOp(n) \in Range(ops)
      /\ Range(ops) \subseteq {ProduceOp(n), ZeroOp(n)}
  <2>1. inputs \in Seq(CurrentOp) /\ Ordered(inputs) /\ Range(inputs) \subseteq {ProduceOp(n)}
    BY <1>5 DEF Ordered, Range
  <2>2. zero \in Seq(CurrentOp) /\ Ordered(zero) /\ Range(zero) = {ZeroOp(n)}
    BY <1>5 DEF Ordered, Range
  <2>3. MayPrecede(ProduceOp(n), ZeroOp(n)) BY <1>5, Ranks DEF MayPrecede
  <2> HIDE DEF inputs, zero
  <2>4. \A o \in Range(inputs), u \in Range(zero) : MayPrecede(o, u) BY <2>1, <2>2, <2>3
  <2>5. Ordered(inputs \o zero) BY <2>1, <2>2, <2>4, OrderedConcat
  <2>6. inputs \o zero \in Seq(CurrentOp) /\ Range(inputs \o zero) = Range(inputs) \cup Range(zero)
    BY <2>1, <2>2, RangeOfConcat
  <2> QED BY <2>1, <2>2, <2>5, <2>6 DEF ops
<1>7. /\ queue' \in [Side \cup {Current} -> Seq(CurrentOp \cup SideOp)]
      /\ queue'[Current] = queue[Current] \o ops /\ queue'[Current] \in Seq(CurrentOp)
      /\ Range(queue'[Current]) = Range(queue[Current]) \cup Range(ops)
      /\ \A s \in Side : queue'[s] = queue[s]
  BY <1>3, <1>6, GiveCurrent
<1>8. UNCHANGED <<recorded, block, holds, sum, result, late, recycled>> /\ staged' = <<>>
      /\ host'.at = "fork" /\ host'.call = n /\ host'.path = 0 /\ host.at = "idle"
  BY <1>3 DEF Begin
<1>9. HostShape'
  <2>1. NumStreams \in Nat \ {0} BY CqsaForwardAssumption DEF CqsaForwardAssumption, NumStreams
  <2>2. \A i \in 1 .. NumStreams : (lastUsed + i - 1) % PoolSize \in Side
    BY <2>1, CqsaForwardAssumption DEF CqsaForwardAssumption, HostShape, Side
  <2>3. streams' = [i \in 1 .. NumStreams |-> (lastUsed + i - 1) % PoolSize] BY DEF Begin
  <2>4. streams' \in Seq(Side) /\ Len(streams') = NumStreams BY <2>1, <2>2, <2>3
  <2>5. streams' # <<>> BY <2>1, <2>4
  <2>6. lastUsed' \in Nat
    BY <2>1, CqsaForwardAssumption DEF CqsaForwardAssumption, HostShape, Begin
  <2>7. staged' \in Seq(Staged) BY <1>8
  <2>8. host' \in [at : {"idle", "fork", "join"}, call : 0 .. Calls, path : 0 .. NumPaths, profile : BOOLEAN]
    BY <1>1, <1>2, <1>3, CqsaForwardAssumption DEF CqsaForwardAssumption, CallIds
  <2> QED BY <2>4, <2>5, <2>6, <2>7, <2>8, <1>2, <1>8 DEF HostShape
<1>10. DeviceShape' BY <1>2, <1>3, <1>7, <1>8 DEF DeviceShape
<1>11. \A k \in CallIds, p \in Live : Forked(k, p) => (Forked(k, p))'
  BY <1>2, <1>8, Numbers DEF Forked, n
<1>12. SideStreams' BY <1>7, <1>8, <1>11, SidesKept
<1>13. \A o \in Range(queue[Current]) : o \in CurrentOp /\ o.call <= host.call /\ o.call < n
  <2>1. \A i \in DOMAIN queue[Current] : queue[Current][i] \in CurrentOp
    BY LenProperties, ElementOfSeq DEF DeviceShape
  <2>2. \A o \in Range(queue[Current]) : o \in CurrentOp BY <2>1 DEF Range
  <2>3. ASSUME NEW o \in Range(queue[Current]) PROVE o.call \in Nat /\ o.call <= host.call
    <3>1. o.call \in Nat BY <2>2, CurrentOps, Numbers
    <3>2. o.call < host.call \/ o.call = host.call BY DEF CurrentStream
    <3> QED BY <3>1, <3>2, <1>2
  <2> QED BY <2>2, <2>3, <1>2 DEF n
<1>14. CurrentStream'
  <2>1. Ordered(queue'[Current])
    <3>1. \A o \in Range(queue[Current]), u \in Range(ops) : MayPrecede(o, u)
      BY <1>5, <1>6, <1>13 DEF MayPrecede
    <3>2. queue[Current] \in Seq(CurrentOp) /\ Ordered(queue[Current]) BY DEF DeviceShape, CurrentStream
    <3> QED BY <3>1, <3>2, <1>6, <1>7, OrderedConcat
  <2>2. \A o \in Range(queue'[Current]) : (o.call < host.call \/ (o.call = host.call /\ NotYet(o)))'
    BY <1>5, <1>6, <1>7, <1>8, <1>13 DEF NotYet
  <2>3. \A k \in CallIds, p \in Live, b \in Blocks :
          AccumulateOp(k, p, b) \in Range(queue'[Current]) =>
            <<k, p>> \in recorded' \/ AwaitOp(k, p) \in Range(queue'[Current])
    <3>1. \A k, p, b : AccumulateOp(k, p, b) \notin Range(ops)
      BY <1>6 DEF AccumulateOp, ProduceOp, ZeroOp
    <3> QED BY <3>1, <1>7, <1>8 DEF CurrentStream
  <2> QED BY <2>1, <2>2, <2>3 DEF CurrentStream
<1>15. StagedOnce'
  <2>1. \A i \in DOMAIN staged' : FALSE BY <1>8
  <2>2. DOMAIN staged' = {} /\ {staged'[i].path : i \in DOMAIN staged'} = {} BY <2>1
  <2>3. \A p \in Live : p \in Nat BY Numbers
  <2>4. \A p \in Live : ~ (p < host'.path) BY <2>3, <1>8
  <2>5. {p \in Live : p < host'.path} = {} BY <2>4
  <2>6. \A b \in Blocks : block'[b].owner = Current => block'[b].free BY <1>8 DEF StagedOnce
  <2> QED BY <2>1, <2>2, <2>5, <2>6 DEF StagedOnce, Current, Live
<1>16. \A k, p, b : /\ ~ (Keeps(k, p, b))'
                    /\ (Reads(k, p, b))' <=> Reads(k, p, b)
  BY <1>6, <1>7, <1>8, RangeOfEmpty DEF Keeps, Reads, AccumulateOp, ProduceOp, ZeroOp
<1>17. \A k : (Sound(k))' <=> Sound(k) BY <1>8 DEF Sound
<1>18. Exclusive' /\ Written' BY <1>7, <1>8, <1>16, <1>17, ClaimsKept
<1>19. Ledger'
  <2> SUFFICES ASSUME NEW k \in CallIds, (Committed(k))' PROVE (Owes(k))'
    BY DEF Ledger, Owes
  <2>1. DivideOp(k) \in Range(queue[Current])
    BY <1>6, <1>7, <1>8 DEF Committed, DivideOp, ProduceOp, ZeroOp
  <2>2. k # n BY <2>1, <1>2, <1>13 DEF DivideOp
  <2>3. ZeroOp(k) \in Range(queue'[Current]) <=> ZeroOp(k) \in Range(queue[Current])
    BY <2>2, <1>6, <1>7 DEF ZeroOp, ProduceOp
  <2>4. Committed(k) BY <2>1 DEF Committed
  <2> QED BY <2>3, <2>4, <1>8, <1>16, <1>17, OwesKept
<1>20. Opened' BY <1>6, <1>7, <1>8 DEF Opened
<1>21. WrongOnlyIfLateOrRecycled' BY <1>8, <1>17, ResultKept
<1> QED BY <1>9, <1>10, <1>12, <1>14, <1>15, <1>18, <1>19, <1>20, <1>21

\* Going on to the next path leaves the host's record well-formed.
LEMMA NextPath ==
  ASSUME HostShape, host.path < NumPaths, host' = [host EXCEPT !.path = @ + 1]
  PROVE  /\ host'.at = host.at /\ host'.call = host.call /\ host'.path = host.path + 1
         /\ host' \in [at : {"idle", "fork", "join"}, call : 0 .. Calls, path : 0 .. NumPaths,
                      profile : BOOLEAN]
<1>1. host \in [at : {"idle", "fork", "join"}, call : 0 .. Calls, path : 0 .. NumPaths, profile : BOOLEAN]
  BY DEF HostShape
<1>2. NumPaths \in Nat BY CqsaForwardAssumption DEF CqsaForwardAssumption
<1>3. host.path + 1 \in 0 .. NumPaths
  <2>1. host.path \in 0 .. NumPaths BY <1>1
  <2> QED BY <2>1, <1>2
<1> QED BY <1>1, <1>3

\* A path without tokens is passed over.
LEMMA ForkEmptyStep == IInv /\ ForkEmpty => IInv'
<1> SUFFICES ASSUME IInv, ForkEmpty PROVE IInv'
  OBVIOUS
<1> USE DEF IInv
<1>1. /\ host.at = "fork" /\ host.path < NumPaths /\ host.path \in EmptyPaths
      /\ host' = [host EXCEPT !.path = @ + 1]
      /\ UNCHANGED <<streams, lastUsed, staged, queue, block, recorded, holds, produced, sum,
                     result, late, recycled>>
  BY DEF ForkEmpty, device
<1>2. /\ host'.at = host.at /\ host'.call = host.call /\ host'.path = host.path + 1
      /\ host.path \in Nat /\ host.path \notin Live
      /\ host' \in [at : {"idle", "fork", "join"}, call : 0 .. Calls, path : 0 .. NumPaths, profile : BOOLEAN]
  <2>1. host.path \in Nat
    <3>1. host.path \in 0 .. NumPaths BY DEF HostShape
    <3> QED BY <3>1
  <2>2. host.path \notin Live BY <1>1 DEF Live
  <2> QED BY <2>1, <2>2, <1>1, NextPath
<1>3. HostShape' BY <1>1, <1>2 DEF HostShape
<1>4. DeviceShape' BY <1>1 DEF DeviceShape
<1>5. \A n \in CallIds, p \in Live : Forked(n, p) => (Forked(n, p))'
  BY <1>1, <1>2, Numbers DEF Forked
<1>6. SideStreams' BY <1>1, <1>5, SidesKept
<1>7. CurrentStream' BY <1>1, <1>2 DEF CurrentStream, NotYet
<1>8. StagedOnce'
  <2>1. {p \in Live : p < host'.path} = {p \in Live : p < host.path}
    <3>1. \A p \in Live : p < host.path + 1 <=> p < host.path BY <1>2, Numbers
    <3> QED BY <3>1, <1>2
  <2> QED BY <2>1, <1>1, <1>2 DEF StagedOnce
<1>9. \A n, p, b : /\ (Keeps(n, p, b))' <=> Keeps(n, p, b)
                   /\ (Reads(n, p, b))' <=> Reads(n, p, b)
  BY <1>1, <1>2 DEF Keeps, Reads
<1>10. \A n : (Sound(n))' <=> Sound(n) BY <1>1 DEF Sound
<1>11. Exclusive' /\ Written' BY <1>1, <1>9, <1>10, ClaimsKept
<1>12. Ledger'
  <2> SUFFICES ASSUME NEW n \in CallIds, (Committed(n))' PROVE (Owes(n))'
    BY DEF Ledger, Owes
  <2>1. Committed(n) BY <1>1, <1>2 DEF Committed
  <2> QED BY <2>1, <1>1, <1>9, <1>10, OwesKept
<1>13. Opened' BY <1>1, <1>2 DEF Opened
<1>14. WrongOnlyIfLateOrRecycled' BY <1>1, <1>10, ResultKept
<1> QED BY <1>3, <1>4, <1>6, <1>7, <1>8, <1>11, <1>12, <1>13, <1>14

\* Another staged path.
LEMMA StagedMore ==
  ASSUME HostShape, StagedOnce, host.at = "fork", NEW b \in Blocks, block[b].free,
         NEW s \in Side, host.path \in Live,
         block' = [block EXCEPT ![b] = [owner |-> s, free |-> FALSE]],
         staged' = Append(staged, [path |-> host.path, block |-> b]),
         host' = [host EXCEPT !.path = @ + 1]
  PROVE  /\ StagedOnce' /\ staged' \in Seq(Staged)
         /\ \A n, p, c : (Keeps(n, p, c))' <=>
                           Keeps(n, p, c) \/ (n = host.call /\ p = host.path /\ c = b)
         /\ \A n, p : ~ Keeps(n, p, b)
<1>1. [path |-> host.path, block |-> b] \in Staged BY DEF Staged
<1>2. staged \in Seq(Staged) BY DEF HostShape
<1>3. /\ staged' \in Seq(Staged) /\ Len(staged') = Len(staged) + 1 /\ Len(staged) \in Nat
      /\ Range(staged') = Range(staged) \cup {[path |-> host.path, block |-> b]}
  BY <1>1, <1>2, RangeOfAppend
<1>4. /\ \A i \in 1 .. Len(staged) : staged'[i] = staged[i]
      /\ staged'[Len(staged) + 1] = [path |-> host.path, block |-> b]
  BY <1>1, <1>2, AppendProperties
<1>5. DOMAIN staged = 1 .. Len(staged) /\ DOMAIN staged' = 1 .. Len(staged) + 1
  BY <1>2, <1>3, LenProperties
<1>6. \A i \in DOMAIN staged : staged[i] \in Staged /\ staged[i] \in Range(staged)
  BY <1>2, <1>5, ElementOfSeq DEF Range
<1>7. \A i \in DOMAIN staged : staged[i].block # b /\ staged[i].block \in Blocks /\ staged[i].path < host.path
  <2>1. \A i \in DOMAIN staged : staged[i].block # b /\ staged[i].block \in Blocks
    BY <1>6 DEF StagedOnce, Staged
  <2>2. ASSUME NEW i \in DOMAIN staged PROVE staged[i].path < host.path
    <3>1. staged[i].path \in {staged[j].path : j \in DOMAIN staged} OBVIOUS
    <3>2. staged[i].path \in {p \in Live : p < host.path} BY <3>1 DEF StagedOnce
    <3> QED BY <3>2
  <2> QED BY <2>1, <2>2
<1>8. /\ host'.at = "fork" /\ host'.path = host.path + 1 /\ host'.call = host.call /\ host.path \in Nat
  BY DEF HostShape
<1>9. /\ block'[b] = [owner |-> s, free |-> FALSE] /\ \A c \in Blocks : c # b => block'[c] = block[c]
  BY DEF HostShape
<1>10. StagedOnce'
  <2>1. \A c \in Blocks : block'[c].owner = Current => block'[c].free
    BY <1>9, Numbers DEF StagedOnce
  <2>2. \A i \in DOMAIN staged' : ~ block'[staged'[i].block].free
    BY <1>4, <1>5, <1>7, <1>9, <1>3 DEF StagedOnce
  <2>3. ASSUME NEW i \in DOMAIN staged', NEW j \in DOMAIN staged', i # j
        PROVE  staged'[i].block # staged'[j].block /\ staged'[i].path # staged'[j].path
    <3>1. CASE i \in DOMAIN staged /\ j \in DOMAIN staged BY <3>1, <2>3, <1>4, <1>5 DEF StagedOnce
    <3>2. CASE i \in DOMAIN staged /\ j = Len(staged) + 1
      <4>1. staged[i].path \in Nat BY <3>2, <1>6, Numbers DEF Staged
      <4> QED BY <4>1, <3>2, <1>4, <1>5, <1>7, <1>8
    <3>3. CASE j \in DOMAIN staged /\ i = Len(staged) + 1
      <4>1. staged[j].path \in Nat BY <3>3, <1>6, Numbers DEF Staged
      <4> QED BY <4>1, <3>3, <1>4, <1>5, <1>7, <1>8
    <3> QED BY <2>3, <3>1, <3>2, <3>3, <1>3, <1>5
  <2>4. {staged'[i].path : i \in DOMAIN staged'} = {p \in Live : p < host'.path}
    <3>1. {staged[i].path : i \in DOMAIN staged} = {p \in Live : p < host.path} BY DEF StagedOnce
    <3>2. {staged'[i].path : i \in DOMAIN staged'} = {staged[i].path : i \in DOMAIN staged} \cup {host.path}
      <4>1. \A i \in DOMAIN staged : i \in DOMAIN staged' /\ staged'[i].path = staged[i].path
        BY <1>3, <1>4, <1>5
      <4>2. Len(staged) + 1 \in DOMAIN staged' /\ staged'[Len(staged) + 1].path = host.path
        BY <1>3, <1>4, <1>5
      <4>3. \A i \in DOMAIN staged' : i \in DOMAIN staged \/ i = Len(staged) + 1 BY <1>3, <1>5
      <4> QED BY <4>1, <4>2, <4>3
    <3>3. \A p \in Live : p < host'.path <=> p < host.path \/ p = host.path BY <1>8, Numbers
    <3> QED BY <3>1, <3>2, <3>3
  <2> QED BY <2>1, <2>2, <2>3, <2>4, <1>8 DEF StagedOnce, Live, Current
<1>11. \A n, p, c : (Keeps(n, p, c))' <=>
                      Keeps(n, p, c) \/ (n = host.call /\ p = host.path /\ c = b)
  BY <1>3, <1>8 DEF Keeps
<1>12. \A n, p : ~ Keeps(n, p, b) BY <1>7 DEF Keeps, Range
<1> QED BY <1>3, <1>10, <1>11, <1>12

\* A path is given to its stream, in a block nobody else has.
LEMMA ForkStep == IInv /\ Fork => IInv'
<1> SUFFICES ASSUME IInv, Fork PROVE IInv'
  OBVIOUS
<1> USE DEF IInv
<1>0. PICK n, p, s : n = host.call /\ p = host.path /\ s = StreamOf(host.path)
  OBVIOUS
<1>1. /\ host.at = "fork" /\ host.path < NumPaths /\ host.path \notin EmptyPaths
      /\ queue[s] = <<>>
      /\ host' = [host EXCEPT !.path = @ + 1]
      /\ UNCHANGED <<streams, lastUsed, recorded, holds, produced, sum, result, late, recycled>>
  BY <1>0 DEF Fork, device
<1>2. PICK b \in Obtainable(s) :
         /\ block' = [block EXCEPT ![b] = [owner |-> s, free |-> FALSE]]
         /\ staged' = Append(staged, [path |-> p, block |-> b])
         /\ Enqueue(s, ForkOps(p, b))
  BY <1>0 DEF Fork
<1>3. n \in CallIds /\ p \in Live /\ p \in Nat /\ n \in Nat
  BY <1>0, <1>1, Numbers, CqsaForwardAssumption DEF CqsaForwardAssumption, HostShape, Live
<1>4. s \in Side
  <2>1. streams \in Seq(Side) /\ streams # <<>> BY <1>1 DEF HostShape
  <2>2. Len(streams) \in Nat \ {0} BY <2>1, EmptySeq
  <2>3. (p % Len(streams)) + 1 \in 1 .. Len(streams) BY <2>2, <1>3
  <2> QED BY <1>0, <2>1, <2>3, ElementOfSeq DEF StreamOf
<1>5. b \in Blocks /\ block[b].free /\ block[b].owner \in {s, Current}
  BY DEF Obtainable, StagedOnce
<1>6. ForkOps(p, b) = <<LocalOp(n, p, b), RecordOp(n, p)>> BY <1>0 DEF ForkOps, LocalOp, RecordOp
<1>7. LocalOp(n, p, b) \in SideOp /\ RecordOp(n, p) \in SideOp
  BY <1>3, <1>5 DEF LocalOp, RecordOp, SideOp
<1>8. /\ queue' \in [Side \cup {Current} -> Seq(CurrentOp \cup SideOp)]
      /\ queue'[Current] = queue[Current] /\ (Doing(s, n, p, b))'
      /\ \A t \in Side : t # s => queue'[t] = queue[t]
  <2>1. /\ <<LocalOp(n, p, b), RecordOp(n, p)>> \in Seq(CurrentOp \cup SideOp)
    BY <1>7
  <2>2. queue' = [queue EXCEPT ![s] = queue[s] \o ForkOps(p, b)] BY <1>2 DEF Enqueue
  <2>3. <<>> \o ForkOps(p, b) = ForkOps(p, b) /\ ForkOps(p, b) \in Seq(CurrentOp \cup SideOp)
    BY <2>1, <1>6, ConcatEmptySeq
  <2>4. queue[s] \o ForkOps(p, b) = ForkOps(p, b) BY <2>3, <1>1
  <2>5. queue' = [queue EXCEPT ![s] = ForkOps(p, b)] BY <2>2, <2>4
  <2>6. queue'[s] = ForkOps(p, b) BY <2>5, <1>4 DEF DeviceShape
  <2>7. (Doing(s, n, p, b))' BY <2>6, <1>6 DEF Doing, LocalOp, RecordOp
  <2> QED BY <2>3, <2>5, <2>7, <1>4, Numbers DEF DeviceShape
<1>9. /\ host'.at = "fork" /\ host'.call = n /\ host'.path = p + 1 /\ host.call = n /\ host.path = p
  BY <1>0, <1>1 DEF HostShape
<1>10. /\ StagedOnce' /\ staged' \in Seq(Staged)
       /\ \A k, q, c : (Keeps(k, q, c))' <=> Keeps(k, q, c) \/ (k = n /\ q = p /\ c = b)
       /\ \A k, q : ~ Keeps(k, q, b)
  <2>1. /\ block' = [block EXCEPT ![b] = [owner |-> s, free |-> FALSE]]
        /\ staged' = Append(staged, [path |-> host.path, block |-> b])
        /\ host.path \in Live
    BY <1>0, <1>2, <1>3
  <2>2. /\ StagedOnce' /\ staged' \in Seq(Staged)
        /\ \A k, q, c : (Keeps(k, q, c))' <=>
                          Keeps(k, q, c) \/ (k = host.call /\ q = host.path /\ c = b)
        /\ \A k, q : ~ Keeps(k, q, b)
    BY <2>1, <1>1, <1>4, <1>5, StagedMore
  <2> QED BY <2>2, <1>9
<1>11. /\ block' \in [Blocks -> [owner : Side \cup {Current}, free : BOOLEAN]]
       /\ block'[b] = [owner |-> s, free |-> FALSE] /\ \A c \in Blocks : c # b => block'[c] = block[c]
  BY <1>2, <1>4, <1>5 DEF HostShape
<1>12. HostShape'
  <2>1. host' \in [at : {"idle", "fork", "join"}, call : 0 .. Calls, path : 0 .. NumPaths, profile : BOOLEAN]
    BY <1>1, NextPath
  <2> QED BY <2>1, <1>1, <1>3, <1>9, <1>10, <1>11 DEF HostShape
<1>13. DeviceShape' BY <1>1, <1>8 DEF DeviceShape
<1>14. \A t \in Side : \A k, q, c :
          t # s => /\ (Doing(t, k, q, c))' <=> Doing(t, k, q, c)
                   /\ (Busy(t, k, q))' <=> Busy(t, k, q)
                   /\ (Finishing(t, k, q))' <=> Finishing(t, k, q)
  BY <1>8 DEF Doing, Busy, Finishing
<1>15. \A k, q, c : /\ (Busy(s, k, q))' => k = n /\ q = p
                    /\ (Doing(s, k, q, c))' => k = n /\ q = p /\ c = b
                    /\ ~ Doing(s, k, q, c)
  <2> SUFFICES ASSUME NEW k, NEW q, NEW c
               PROVE  /\ (Busy(s, k, q))' => k = n /\ q = p
                      /\ (Doing(s, k, q, c))' => k = n /\ q = p /\ c = b
                      /\ ~ Doing(s, k, q, c)
    OBVIOUS
  <2>1. queue'[s] = <<LocalOp(n, p, b), RecordOp(n, p)>> BY <1>8 DEF Doing, LocalOp, RecordOp
  <2>2. Range(queue'[s]) = {LocalOp(n, p, b), RecordOp(n, p)} BY <2>1 DEF Range
  <2>3. (Busy(s, k, q))' => k = n /\ q = p
    BY <2>2 DEF Busy, LocalOp, RecordOp
  <2>4. ASSUME (Doing(s, k, q, c))' PROVE k = n /\ q = p /\ c = b
    <3>1. queue'[s] = <<LocalOp(k, q, c), RecordOp(k, q)>> BY <2>4 DEF Doing, LocalOp, RecordOp
    <3>2. LocalOp(k, q, c) = LocalOp(n, p, b) BY <3>1, <2>1
    <3> QED BY <3>2, OpsDiffer
  <2>5. ~ Doing(s, k, q, c) BY <1>1, <1>4, DoingFirst
  <2> QED BY <2>3, <2>4, <2>5
<1>16. ~ Forked(n, p) BY <1>1, <1>3, <1>9 DEF Forked
<1>17. SideStreams'
  <2>1. \A k \in CallIds, q \in Live : Forked(k, q) => (Forked(k, q))'
    BY <1>1, <1>3, <1>9, Numbers DEF Forked
  <2>2. (Forked(n, p))' BY <1>3, <1>9 DEF Forked
  <2>3. <<n, p>> \notin recorded BY <1>3, <1>16 DEF SideStreams
  <2>4. ASSUME NEW t \in Side
        PROVE  \/ queue'[t] = <<>>
               \/ \E k \in CallIds, q \in Live :
                    /\ (Forked(k, q))' /\ <<k, q>> \notin recorded'
                    /\ (Finishing(t, k, q))' \/ \E c \in Blocks : (Doing(t, k, q, c))' /\ block'[c].owner = t
    <3>1. CASE t = s
      <4>1. (Forked(n, p))' /\ <<n, p>> \notin recorded' BY <2>2, <2>3, <1>1
      <4>2. (Doing(s, n, p, b))' /\ block'[b].owner = s BY <1>8, <1>11
      <4> QED BY <4>1, <4>2, <3>1, <1>3, <1>5
    <3>2. CASE t # s /\ queue[t] = <<>> BY <3>2, <1>8
    <3>3. CASE t # s /\ queue[t] # <<>>
      <4>1. PICK k \in CallIds, q \in Live :
              /\ Forked(k, q) /\ <<k, q>> \notin recorded
              /\ Finishing(t, k, q) \/ \E c \in Blocks : Doing(t, k, q, c) /\ block[c].owner = t
        BY <3>3 DEF SideStreams
      <4>2. \A c \in Blocks : block[c].owner = t => block'[c].owner = t
        BY <3>3, <1>5, <1>11, Numbers
      <4>3. (Forked(k, q))' /\ <<k, q>> \notin recorded' BY <4>1, <2>1, <1>1
      <4>4. (Finishing(t, k, q))' \/ \E c \in Blocks : (Doing(t, k, q, c))' /\ block'[c].owner = t
        BY <4>1, <4>2, <3>3, <1>14
      <4> QED BY <4>3, <4>4
    <3> QED BY <3>1, <3>2, <3>3
  <2>5. ASSUME NEW t \in Side, t # s PROVE ~ Busy(t, n, p)
    <3>1. CASE queue[t] = <<>> BY <3>1, RangeOfEmpty DEF Busy
    <3>2. CASE queue[t] # <<>>
      <4>1. PICK k \in CallIds, q \in Live :
              /\ Forked(k, q) /\ <<k, q>> \notin recorded
              /\ \A m \in CallIds, r \in Live : Busy(t, m, r) <=> (m = k /\ r = q)
              /\ Finishing(t, k, q) \/ \E c \in Blocks : Doing(t, k, q, c) /\ block[c].owner = t
        BY <3>2, BusyIs
      <4> QED BY <4>1, <1>3, <1>16
    <3> QED BY <3>1, <3>2
  <2>6. ASSUME NEW t \in Side, NEW u \in Side, NEW k \in CallIds, NEW q \in Live,
               (Busy(t, k, q))', (Busy(u, k, q))'
        PROVE  t = u
    <3>1. CASE t = s /\ u # s
      <4>1. k = n /\ q = p BY <3>1, <2>6, <1>15
      <4> QED BY <4>1, <3>1, <2>5, <2>6, <1>14
    <3>2. CASE t # s /\ u = s
      <4>1. k = n /\ q = p BY <3>2, <2>6, <1>15
      <4>2. Busy(t, k, q) BY <3>2, <2>6, <1>14
      <4> QED BY <4>1, <4>2, <3>2, <2>5
    <3>3. CASE t # s /\ u # s BY <3>3, <2>6, <1>14 DEF SideStreams
    <3> QED BY <3>1, <3>2, <3>3
  <2>7. \A k \in CallIds, q \in Live : <<k, q>> \in recorded' => (Forked(k, q))'
    BY <2>1, <1>1 DEF SideStreams
  <2> QED BY <2>4, <2>6, <2>7 DEF SideStreams
<1>18. CurrentStream' BY <1>1, <1>8, <1>9 DEF CurrentStream, NotYet
<1>19. \A k, q, c : (Reads(k, q, c))' <=> Reads(k, q, c) BY <1>8 DEF Reads
<1>20. \A k : (Sound(k))' <=> Sound(k) BY <1>1 DEF Sound
<1>21. Exclusive'
  <2> SUFFICES ASSUME NEW t \in Side, NEW m \in CallIds, NEW k \in CallIds, NEW q \in Live, NEW r \in Live,
                      NEW c \in Blocks, (Doing(t, m, q, c))'
               PROVE  /\ (Keeps(k, r, c))' => k = m /\ r = q
                      /\ (Reads(k, r, c))' => (k = m /\ r = q) \/ k < m
    BY DEF Exclusive
  <2>1. CASE t = s
    <3>1. m = n /\ q = p /\ c = b BY <2>1, <1>15
    <3>2. (Keeps(k, r, c))' => k = m /\ r = q BY <3>1, <1>10
    <3>3. ASSUME Reads(k, r, c) PROVE k < m
      <4>1. AccumulateOp(k, r, c) \in Range(queue[Current]) BY <3>3 DEF Reads
      <4>2. AccumulateOp(k, r, c).call = k /\ AccumulateOp(k, r, c).op = "accumulate" BY DEF AccumulateOp
      <4> QED BY <4>1, <4>2, <3>1, <1>1, <1>9 DEF CurrentStream, NotYet
    <3> QED BY <3>2, <3>3, <1>19
  <2>2. CASE t # s
    <3>1. Doing(t, m, q, c) BY <2>2, <1>14
    <3>2. c # b
      <4>1. /\ queue[t] # <<>> /\ First(t) = LocalOp(m, q, c) BY <3>1, DoingFirst
      <4>2. PICK x \in CallIds, y \in Live :
              Finishing(t, x, y) \/ \E d \in Blocks : Doing(t, x, y, d) /\ block[d].owner = t
        BY <4>1 DEF SideStreams
      <4>3. ~ Finishing(t, x, y) BY <4>1, DoingFirst, OpsDiffer
      <4>4. PICK d \in Blocks : Doing(t, x, y, d) /\ block[d].owner = t BY <4>2, <4>3
      <4>5. d = c BY <4>1, <4>4, DoingFirst, OpsDiffer
      <4> QED BY <4>4, <4>5, <2>2, <1>5, Numbers
    <3>3. (Keeps(k, r, c))' => Keeps(k, r, c) BY <3>2, <1>10
    <3> QED BY <3>1, <3>3, <1>19 DEF Exclusive
  <2> QED BY <2>1, <2>2
<1>22. Written'
  <2> SUFFICES ASSUME NEW k \in CallIds, NEW q \in Live, NEW c \in Blocks,
                      (Keeps(k, q, c) \/ Reads(k, q, c))', (Sound(k))'
               PROVE  holds'[c] = Whole(k, q) \/ \E t \in Side : (Doing(t, k, q, c))'
    BY DEF Written
  <2>1. CASE k = n /\ q = p /\ c = b BY <2>1, <1>4, <1>8
  <2>2. CASE Keeps(k, q, c) \/ Reads(k, q, c)
    <3>1. holds[c] = Whole(k, q) \/ \E t \in Side : Doing(t, k, q, c) BY <2>2, <1>20 DEF Written
    <3> QED BY <3>1, <1>1, <1>14, <1>15
  <2> QED BY <2>1, <2>2, <1>10, <1>19
<1>23. Ledger'
  <2> SUFFICES ASSUME NEW k \in CallIds, (Committed(k))' PROVE (Owes(k))'
    BY DEF Ledger, Owes
  <2>1. Committed(k) BY <1>1, <1>8, <1>9 DEF Committed
  <2> QED BY <2>1, <1>1, <1>8, <1>19, <1>20, OwesKept
<1>24. Opened' BY <1>1, <1>8, <1>9 DEF Opened
<1>25. WrongOnlyIfLateOrRecycled' BY <1>1, <1>20, ResultKept
<1> QED BY <1>10, <1>12, <1>13, <1>17, <1>18, <1>21, <1>22, <1>23, <1>24, <1>25

\* The first k of two sequences, one after the other: what the current stream is
\* left with when an await or an accumulation fails to launch.
FirstOf(s, t, k) == SubSeq(s \o t, 1, k)

\* Which those are, when the two sequences are of the same length.
LEMMA PrefixOfConcat ==
  ASSUME NEW S, NEW s \in Seq(S), NEW t \in Seq(S), Len(s) = Len(t),
         NEW k \in 0 .. 2 * Len(s)
  PROVE  /\ FirstOf(s, t, k) \in Seq(S) /\ Len(FirstOf(s, t, k)) = k
         /\ DOMAIN FirstOf(s, t, k) = 1 .. k
         /\ \A i \in 1 .. k :
              /\ i <= Len(s) => i \in 1 .. Len(s) /\ FirstOf(s, t, k)[i] = s[i]
              /\ ~ (i <= Len(s)) => /\ i - Len(s) \in 1 .. Len(s)
                                    /\ FirstOf(s, t, k)[i] = t[i - Len(s)]
         /\ k = 2 * Len(s) => FirstOf(s, t, k) = s \o t
<1> DEFINE all == s \o t
           r == SubSeq(all, 1, k)
           L == Len(s)
<1>1. L \in Nat /\ k \in Nat /\ k \in 0 .. 2 * L BY LenProperties
<1>2. /\ all \in Seq(S) /\ Len(all) = 2 * L
      /\ \A i \in 1 .. 2 * L : all[i] = IF i <= L THEN s[i] ELSE t[i - L]
  BY <1>1, ConcatProperties
<1> HIDE DEF all
<1>3. \A i \in 1 .. k : i \in 1 .. Len(all) /\ all[i] \in S
  <2> SUFFICES ASSUME NEW i \in 1 .. k PROVE i \in 1 .. Len(all) /\ all[i] \in S OBVIOUS
  <2>1. i \in 1 .. Len(all) BY <1>1, <1>2
  <2> QED BY <2>1, <1>2, ElementOfSeq
<1>4. /\ r \in Seq(S) /\ Len(r) = IF 1 <= k THEN k - 1 + 1 ELSE 0
      /\ \A i \in 1 .. k - 1 + 1 : r[i] = all[1 + i - 1]
  BY <1>1, <1>3, SubSeqProperties
<1> HIDE DEF r
<1>5. Len(r) = k /\ DOMAIN r = 1 .. k
  <2>1. Len(r) = k BY <1>1, <1>4
  <2> QED BY <2>1, <1>4, LenProperties
<1>6. ASSUME NEW i \in 1 .. k PROVE r[i] = all[i] /\ i \in 1 .. 2 * L
  <2>1. i \in 1 .. k - 1 + 1 /\ 1 + i - 1 = i BY <1>1
  <2> QED BY <2>1, <1>1, <1>4
<1> HIDE DEF L
<1>7. ASSUME NEW i \in 1 .. k
      PROVE  /\ i <= L => i \in 1 .. L /\ r[i] = s[i]
             /\ ~ (i <= L) => i - L \in 1 .. L /\ r[i] = t[i - L]
  BY <1>1, <1>2, <1>6
<1>8. k = 2 * L => r = all BY <1>2, <1>4, <1>5, <1>6, SeqEqual
<1> USE DEF all, L
<1>9. r = FirstOf(s, t, k) BY DEF r, FirstOf
<1> QED BY <1>4, <1>5, <1>7, <1>8, <1>9

\* What Join gives the current stream: an await and an accumulation of the call
\* in hand for each staged result.
LEMMA StagedOps ==
  ASSUME HostShape, host.call \in CallIds
  PROVE  /\ staged \in Seq(Staged) /\ Len(staged) \in Nat /\ DOMAIN staged = 1 .. Len(staged)
         /\ WaitForAll \in Seq(CurrentOp) /\ Len(WaitForAll) = Len(staged)
         /\ Accumulations \in Seq(CurrentOp) /\ Len(Accumulations) = Len(staged)
         /\ \A i \in 1 .. Len(staged) :
              /\ staged[i] \in Staged
              /\ WaitForAll[i] = AwaitOp(host.call, staged[i].path)
              /\ Accumulations[i] = AccumulateOp(host.call, staged[i].path, staged[i].block)
<1> DEFINE L == Len(staged)
<1>1. staged \in Seq(Staged) BY DEF HostShape
<1>2. L \in Nat /\ DOMAIN staged = 1 .. L BY <1>1, LenProperties
<1>3. ASSUME NEW i \in 1 .. L PROVE staged[i] \in Staged
  BY <1>1, ElementOfSeq
<1>4. ASSUME NEW i \in 1 .. L
      PROVE  /\ AwaitOp(host.call, staged[i].path) \in CurrentOp
             /\ AccumulateOp(host.call, staged[i].path, staged[i].block) \in CurrentOp
  BY <1>3 DEF Staged, CurrentOp, AwaitOp, AccumulateOp
<1>5. /\ WaitForAll = [i \in 1 .. L |-> AwaitOp(host.call, staged[i].path)]
      /\ Accumulations = [i \in 1 .. L |-> AccumulateOp(host.call, staged[i].path, staged[i].block)]
  BY <1>2 DEF WaitForAll, Accumulations, AwaitOp, AccumulateOp
<1>6. WaitForAll \in [1 .. L -> CurrentOp] /\ Accumulations \in [1 .. L -> CurrentOp]
  BY <1>4, <1>5
<1>7. WaitForAll \in Seq(CurrentOp) /\ Accumulations \in Seq(CurrentOp)
  BY <1>2, <1>6, SeqDef
<1>8. DOMAIN WaitForAll = 1 .. L /\ DOMAIN Accumulations = 1 .. L BY <1>6
<1>9. Len(WaitForAll) = L /\ Len(Accumulations) = L
  BY <1>2, <1>7, <1>8, LenProperties
<1> QED BY <1>1, <1>2, <1>3, <1>5, <1>7, <1>9

\* Awaits and accumulations of a call, whatever they name: which they are, and
\* which of them may precede which.
LEMMA AwaitsAndAccumulations ==
  /\ \A n, p : AwaitOp(n, p).call = n /\ AwaitOp(n, p).op = "await" /\ Rank(AwaitOp(n, p)) = 2
  /\ \A n, p, b : /\ AccumulateOp(n, p, b).call = n /\ AccumulateOp(n, p, b).op = "accumulate"
                  /\ Rank(AccumulateOp(n, p, b)) = 3 /\ AccumulateOp(n, p, b).path = p
  /\ \A n, p, q : MayPrecede(AwaitOp(n, p), AwaitOp(n, q))
  /\ \A n, p, q, b : MayPrecede(AwaitOp(n, p), AccumulateOp(n, q, b))
  /\ \A n, p, q, a, b : p # q => MayPrecede(AccumulateOp(n, p, a), AccumulateOp(n, q, b))
<1>1. ASSUME NEW n, NEW p
      PROVE  AwaitOp(n, p).call = n /\ AwaitOp(n, p).op = "await" /\ Rank(AwaitOp(n, p)) = 2
  BY DEF Rank, AwaitOp
<1>2. ASSUME NEW n, NEW p, NEW b
      PROVE  /\ AccumulateOp(n, p, b).call = n /\ AccumulateOp(n, p, b).op = "accumulate"
             /\ Rank(AccumulateOp(n, p, b)) = 3 /\ AccumulateOp(n, p, b).path = p
  BY DEF Rank, AccumulateOp
<1>3. ASSUME NEW n, NEW p, NEW q PROVE MayPrecede(AwaitOp(n, p), AwaitOp(n, q))
  BY <1>1 DEF MayPrecede
<1>4. ASSUME NEW n, NEW p, NEW q, NEW b PROVE MayPrecede(AwaitOp(n, p), AccumulateOp(n, q, b))
  BY <1>1, <1>2 DEF MayPrecede
<1>5. ASSUME NEW n, NEW p, NEW q, NEW a, NEW b, p # q
      PROVE  MayPrecede(AccumulateOp(n, p, a), AccumulateOp(n, q, b))
  BY <1>2, <1>5 DEF MayPrecede
<1> QED BY <1>1, <1>2, <1>3, <1>4, <1>5

\* What a call gives the current stream once its paths are forked, or the part of
\* it that is enqueued before something fails: first all the waits, then one
\* accumulation for each block it keeps.
LEMMA HandedOver ==
  ASSUME HostShape, StagedOnce, host.call \in CallIds, NEW k \in 0 .. 2 * Len(staged)
  PROVE  \E r : /\ r = FirstOf(WaitForAll, Accumulations, k)
                /\ r \in Seq(CurrentOp) /\ Ordered(r)
                /\ \A o \in Range(r) : o \in CurrentOp /\ o.call = host.call /\ Rank(o) \in {2, 3}
                                       /\ o.op \in {"await", "accumulate"}
                /\ \A n, p, b : AccumulateOp(n, p, b) \in Range(r) =>
                                  Keeps(n, p, b) /\ AwaitOp(n, p) \in Range(r)
                /\ k = 2 * Len(staged) =>
                     /\ r = WaitForAll \o Accumulations
                     /\ \A n, p, b : Keeps(n, p, b) => AccumulateOp(n, p, b) \in Range(r)
<1> DEFINE L == Len(staged)
           c == host.call
<1>1. /\ staged \in Seq(Staged) /\ L \in Nat /\ DOMAIN staged = 1 .. L
      /\ WaitForAll \in Seq(CurrentOp) /\ Len(WaitForAll) = L
      /\ Accumulations \in Seq(CurrentOp) /\ Len(Accumulations) = L
      /\ \A i \in 1 .. L :
           /\ staged[i] \in Staged
           /\ WaitForAll[i] = AwaitOp(c, staged[i].path)
           /\ Accumulations[i] = AccumulateOp(c, staged[i].path, staged[i].block)
  BY StagedOps
<1>2. PICK r : /\ r = FirstOf(WaitForAll, Accumulations, k)
               /\ r \in Seq(CurrentOp) /\ Len(r) = k /\ DOMAIN r = 1 .. k
               /\ \A i \in 1 .. k :
                    /\ i <= Len(WaitForAll) => i \in 1 .. Len(WaitForAll) /\ r[i] = WaitForAll[i]
                    /\ ~ (i <= Len(WaitForAll)) =>
                         /\ i - Len(WaitForAll) \in 1 .. Len(WaitForAll)
                         /\ r[i] = Accumulations[i - Len(WaitForAll)]
               /\ k = 2 * Len(WaitForAll) => r = WaitForAll \o Accumulations
  <2>1. Len(WaitForAll) = Len(Accumulations) /\ k \in 0 .. 2 * Len(WaitForAll) BY <1>1
  <2>2. WaitForAll \in Seq(CurrentOp) /\ Accumulations \in Seq(CurrentOp) BY <1>1
  <2>3. /\ FirstOf(WaitForAll, Accumulations, k) \in Seq(CurrentOp)
        /\ Len(FirstOf(WaitForAll, Accumulations, k)) = k
        /\ DOMAIN FirstOf(WaitForAll, Accumulations, k) = 1 .. k
        /\ \A i \in 1 .. k :
             /\ i <= Len(WaitForAll) => /\ i \in 1 .. Len(WaitForAll)
                                       /\ FirstOf(WaitForAll, Accumulations, k)[i] = WaitForAll[i]
             /\ ~ (i <= Len(WaitForAll)) =>
                  /\ i - Len(WaitForAll) \in 1 .. Len(WaitForAll)
                  /\ FirstOf(WaitForAll, Accumulations, k)[i] = Accumulations[i - Len(WaitForAll)]
        /\ k = 2 * Len(WaitForAll) =>
             FirstOf(WaitForAll, Accumulations, k) = WaitForAll \o Accumulations
    <3>1. /\ FirstOf(WaitForAll, Accumulations, k) \in Seq(CurrentOp)
          /\ Len(FirstOf(WaitForAll, Accumulations, k)) = k
          /\ DOMAIN FirstOf(WaitForAll, Accumulations, k) = 1 .. k
      BY <2>1, <2>2, PrefixOfConcat
    <3>2. \A i \in 1 .. k :
             /\ i <= Len(WaitForAll) => /\ i \in 1 .. Len(WaitForAll)
                                       /\ FirstOf(WaitForAll, Accumulations, k)[i] = WaitForAll[i]
             /\ ~ (i <= Len(WaitForAll)) =>
                  /\ i - Len(WaitForAll) \in 1 .. Len(WaitForAll)
                  /\ FirstOf(WaitForAll, Accumulations, k)[i] = Accumulations[i - Len(WaitForAll)]
      BY <2>1, <2>2, PrefixOfConcat
    <3>3. k = 2 * Len(WaitForAll) =>
             FirstOf(WaitForAll, Accumulations, k) = WaitForAll \o Accumulations
      BY <2>1, <2>2, PrefixOfConcat
    <3> QED BY <3>1, <3>2, <3>3
  <2> QED BY <2>3
<1>3. k \in Nat BY <1>1
<1>4. \A i \in 1 .. k :
        /\ i <= L => i \in 1 .. L /\ r[i] = AwaitOp(c, staged[i].path)
        /\ ~ (i <= L) => i - L \in 1 .. L /\ r[i] = AccumulateOp(c, staged[i - L].path, staged[i - L].block)
  BY <1>1, <1>2
<1>5. \A i, j \in 1 .. L : i # j => staged[i].path # staged[j].path BY <1>1 DEF StagedOnce
<1> HIDE DEF L, c
<1>6. Ordered(r)
  <2> SUFFICES ASSUME NEW i \in 1 .. k, NEW j \in 1 .. k, i < j PROVE MayPrecede(r[i], r[j])
    BY <1>2 DEF Ordered
  <2>1. CASE i <= L /\ j <= L BY <2>1, <1>4, AwaitsAndAccumulations
  <2>2. CASE i <= L /\ ~ (j <= L) BY <2>2, <1>4, AwaitsAndAccumulations
  <2>3. CASE ~ (i <= L) /\ ~ (j <= L)
    <3>1. /\ i - L \in 1 .. L /\ r[i] = AccumulateOp(c, staged[i - L].path, staged[i - L].block)
          /\ j - L \in 1 .. L /\ r[j] = AccumulateOp(c, staged[j - L].path, staged[j - L].block)
      BY <2>3, <1>4
    <3>2. i - L # j - L BY <1>1
    <3>3. staged[i - L].path # staged[j - L].path BY <3>1, <3>2, <1>5
    <3> QED BY <3>1, <3>3, AwaitsAndAccumulations
  <2>4. i <= L \/ ~ (j <= L) BY <1>1, <1>3
  <2> QED BY <2>1, <2>2, <2>3, <2>4
<1>7. ASSUME NEW o \in Range(r)
      PROVE  o \in CurrentOp /\ o.call = c /\ Rank(o) \in {2, 3} /\ o.op \in {"await", "accumulate"}
  <2>1. PICK i \in 1 .. k : o = r[i] BY <1>2 DEF Range
  <2>2. i \in 1 .. Len(r) BY <1>2
  <2>3. o \in CurrentOp BY <2>1, <2>2, <1>2, ElementOfSeq
  <2>4. CASE i <= L BY <2>1, <2>3, <2>4, <1>4, AwaitsAndAccumulations
  <2>5. CASE ~ (i <= L) BY <2>1, <2>3, <2>5, <1>4, AwaitsAndAccumulations
  <2> QED BY <2>4, <2>5
<1>8. ASSUME NEW n, NEW p, NEW b, AccumulateOp(n, p, b) \in Range(r)
      PROVE  Keeps(n, p, b) /\ AwaitOp(n, p) \in Range(r)
  <2>1. PICK i \in 1 .. k : r[i] = AccumulateOp(n, p, b) BY <1>8, <1>2 DEF Range
  <2>2. ~ (i <= L)
    <3> SUFFICES ASSUME i <= L PROVE FALSE OBVIOUS
    <3>1. AwaitOp(c, staged[i].path) = AccumulateOp(n, p, b) BY <2>1, <1>4
    <3>2. AwaitOp(c, staged[i].path).op = "await" /\ AccumulateOp(n, p, b).op = "accumulate"
      BY AwaitsAndAccumulations
    <3> QED BY <3>1, <3>2
  <2> DEFINE j == i - L
  <2>3. j \in 1 .. L /\ AccumulateOp(n, p, b) = AccumulateOp(c, staged[j].path, staged[j].block)
    BY <2>1, <2>2, <1>4
  <2>4. j \in 1 .. k /\ j <= L BY <2>3, <1>1, <1>3
  <2> HIDE DEF j
  <2>5. n = c /\ p = staged[j].path /\ b = staged[j].block
    <3>1. /\ AccumulateOp(n, p, b).call = AccumulateOp(c, staged[j].path, staged[j].block).call
          /\ AccumulateOp(n, p, b).path = AccumulateOp(c, staged[j].path, staged[j].block).path
          /\ AccumulateOp(n, p, b).block = AccumulateOp(c, staged[j].path, staged[j].block).block
      BY <2>3
    <3> QED BY <3>1 DEF AccumulateOp
  <2>6. staged[j] = [path |-> p, block |-> b]
    <3>1. staged[j] \in Staged BY <2>3, <1>1
    <3> QED BY <3>1, <2>5 DEF Staged
  <2>7. Keeps(n, p, b) BY <2>3, <2>5, <2>6, <1>1 DEF Keeps, Range, c
  <2>8. r[j] = AwaitOp(n, p) BY <2>4, <2>5, <1>4
  <2> QED BY <2>4, <2>7, <2>8, <1>2 DEF Range
<1>9. ASSUME k = 2 * L, NEW n, NEW p, NEW b, Keeps(n, p, b)
      PROVE  AccumulateOp(n, p, b) \in Range(r)
  <2>1. PICK j \in 1 .. L : staged[j] = [path |-> p, block |-> b] /\ n = c
    BY <1>9, <1>1 DEF Keeps, Range, c
  <2>2. staged[j].path = p /\ staged[j].block = b BY <2>1
  <2> DEFINE i == L + j
  <2>3. i \in 1 .. k /\ ~ (i <= L) /\ i - L = j BY <1>1, <1>9
  <2> HIDE DEF i
  <2>4. r[i] = AccumulateOp(n, p, b) BY <2>1, <2>2, <2>3, <1>4
  <2> QED BY <2>3, <2>4, <1>2 DEF Range
<1>10. k = 2 * L => r = WaitForAll \o Accumulations BY <1>1, <1>2
<1> USE DEF L, c
<1> QED BY <1>2, <1>6, <1>7, <1>8, <1>9, <1>10

\* Whatever the current stream still has to run is of a call that has begun.
LEMMA CallsBegun ==
  ASSUME DeviceShape, CurrentStream, HostShape, NEW o \in Range(queue[Current])
  PROVE  /\ o \in CurrentOp /\ o.call \in Nat /\ host.call \in Nat /\ o.call <= host.call
         /\ o.call < host.call \/ (o.call = host.call /\ NotYet(o))
<1>1. \A i \in DOMAIN queue[Current] : queue[Current][i] \in CurrentOp
  BY LenProperties, ElementOfSeq DEF DeviceShape
<1>2. o \in CurrentOp BY <1>1 DEF Range
<1>3. o.call \in Nat BY <1>2, CurrentOps, Numbers
<1>4. host.call \in Nat BY CqsaForwardAssumption DEF CqsaForwardAssumption, HostShape
<1>5. o.call < host.call \/ (o.call = host.call /\ NotYet(o)) BY DEF CurrentStream
<1> QED BY <1>2, <1>3, <1>4, <1>5

\* Waits and accumulations of the call in hand, all or some, behind what the
\* current stream still has to run.
LEMMA Hand ==
  ASSUME IInv, host.at = "fork", NEW k \in 0 .. 2 * Len(staged),
         Enqueue(Current, FirstOf(WaitForAll, Accumulations, k)), UNCHANGED recorded
  PROVE  /\ queue' \in [Side \cup {Current} -> Seq(CurrentOp \cup SideOp)]
         /\ queue'[Current] \in Seq(CurrentOp) /\ Ordered(queue'[Current])
         /\ \A s \in Side : queue'[s] = queue[s]
         /\ \A o \in Range(queue'[Current]) :
              o.call < host.call \/ (o.call = host.call /\ o.op # "divide")
         /\ \A n \in CallIds, p \in Live, b \in Blocks :
              AccumulateOp(n, p, b) \in Range(queue'[Current]) =>
                <<n, p>> \in recorded' \/ AwaitOp(n, p) \in Range(queue'[Current])
         /\ \A n, p, b : /\ Reads(n, p, b) => (Reads(n, p, b))' /\ n < host.call
                         /\ (Reads(n, p, b))' => Reads(n, p, b) \/ Keeps(n, p, b)
                         /\ k = 2 * Len(staged) /\ Keeps(n, p, b) => (Reads(n, p, b))'
         /\ \A n : /\ ZeroOp(n) \in Range(queue'[Current]) <=> ZeroOp(n) \in Range(queue[Current])
                   /\ DivideOp(n) \in Range(queue'[Current]) <=> DivideOp(n) \in Range(queue[Current])
                   /\ DivideOp(n) \in Range(queue[Current]) => n < host.call
<1> USE DEF IInv
<1>1. host.call \in CallIds /\ host.call \in Nat BY Numbers DEF HostShape
<1>2. PICK r : /\ r = FirstOf(WaitForAll, Accumulations, k)
               /\ r \in Seq(CurrentOp) /\ Ordered(r)
               /\ \A o \in Range(r) : o \in CurrentOp /\ o.call = host.call /\ Rank(o) \in {2, 3}
                                      /\ o.op \in {"await", "accumulate"}
               /\ \A n, p, b : AccumulateOp(n, p, b) \in Range(r) =>
                                 Keeps(n, p, b) /\ AwaitOp(n, p) \in Range(r)
               /\ k = 2 * Len(staged) =>
                    /\ r = WaitForAll \o Accumulations
                    /\ \A n, p, b : Keeps(n, p, b) => AccumulateOp(n, p, b) \in Range(r)
  BY <1>1, HandedOver
<1>3. /\ queue' \in [Side \cup {Current} -> Seq(CurrentOp \cup SideOp)]
      /\ queue'[Current] = queue[Current] \o r /\ queue'[Current] \in Seq(CurrentOp)
      /\ Range(queue'[Current]) = Range(queue[Current]) \cup Range(r)
      /\ \A s \in Side : queue'[s] = queue[s]
  BY <1>2, GiveCurrent
<1>4. \A o \in Range(queue[Current]) :
        o \in CurrentOp /\ (o.call < host.call \/ (o.call = host.call /\ o.op \in {"produce", "zero"}))
  BY CallsBegun DEF NotYet
<1>5. \A o \in Range(queue[Current]), u \in Range(r) : MayPrecede(o, u)
  <2> SUFFICES ASSUME NEW o \in Range(queue[Current]), NEW u \in Range(r) PROVE MayPrecede(o, u)
    OBVIOUS
  <2>1. u.call = host.call /\ Rank(u) \in {2, 3} BY <1>2
  <2>2. CASE o.call < host.call BY <2>1, <2>2 DEF MayPrecede
  <2>3. CASE o.call = host.call /\ o.op \in {"produce", "zero"}
    <3>1. Rank(o) \in {0, 1} BY <2>3 DEF Rank
    <3> QED BY <2>1, <2>3, <3>1 DEF MayPrecede
  <2> QED BY <2>2, <2>3, <1>4
<1>6. Ordered(queue'[Current])
  <2>1. queue[Current] \in Seq(CurrentOp) /\ Ordered(queue[Current]) BY DEF DeviceShape, CurrentStream
  <2> QED BY <2>1, <1>2, <1>3, <1>5, OrderedConcat
<1>7. \A o \in Range(queue'[Current]) : o.call < host.call \/ (o.call = host.call /\ o.op # "divide")
  BY <1>2, <1>3, <1>4
<1>8. \A n \in CallIds, p \in Live, b \in Blocks :
        AccumulateOp(n, p, b) \in Range(queue'[Current]) =>
          <<n, p>> \in recorded' \/ AwaitOp(n, p) \in Range(queue'[Current])
  BY <1>2, <1>3 DEF CurrentStream
<1>9. ASSUME NEW n, NEW p, NEW b
      PROVE  /\ Reads(n, p, b) => (Reads(n, p, b))' /\ n < host.call
             /\ (Reads(n, p, b))' => Reads(n, p, b) \/ Keeps(n, p, b)
             /\ k = 2 * Len(staged) /\ Keeps(n, p, b) => (Reads(n, p, b))'
  <2>1. AccumulateOp(n, p, b) \in Range(queue[Current]) => n < host.call
    BY <1>4, AwaitsAndAccumulations
  <2> QED BY <2>1, <1>2, <1>3 DEF Reads
<1>10. ASSUME NEW n
       PROVE  /\ ZeroOp(n) \in Range(queue'[Current]) <=> ZeroOp(n) \in Range(queue[Current])
              /\ DivideOp(n) \in Range(queue'[Current]) <=> DivideOp(n) \in Range(queue[Current])
              /\ DivideOp(n) \in Range(queue[Current]) => n < host.call
  <2>1. ZeroOp(n).op = "zero" /\ DivideOp(n).op = "divide" /\ DivideOp(n).call = n
    BY DEF ZeroOp, DivideOp
  <2> QED BY <2>1, <1>2, <1>3, <1>4
<1> QED BY <1>3, <1>6, <1>7, <1>8, <1>9, <1>10

\* The current stream is given everything the call is made of: what is due is now
\* every live path.
LEMMA JoinStep == IInv /\ Join => IInv'
<1> SUFFICES ASSUME IInv, Join PROVE IInv'
  OBVIOUS
<1> USE DEF IInv
<1>1. /\ host.at = "fork" /\ host.path = NumPaths /\ host' = [host EXCEPT !.at = "join"]
      /\ UNCHANGED <<streams, lastUsed, staged, block, recorded, holds, produced, sum, result,
                     late, recycled>>
  BY DEF Join, device
<1>2. /\ host'.at = "join" /\ host'.call = host.call /\ host.call \in CallIds
      /\ host' \in [at : {"idle", "fork", "join"}, call : 0 .. Calls, path : 0 .. NumPaths, profile : BOOLEAN]
  BY <1>1 DEF HostShape
<1>3. staged \in Seq(Staged) /\ Len(staged) \in Nat /\ DOMAIN staged = 1 .. Len(staged)
  BY <1>2, StagedOps
<1>4. PICK k \in 0 .. 2 * Len(staged) : k = 2 * Len(staged) BY <1>3
<1>5. Enqueue(Current, FirstOf(WaitForAll, Accumulations, k))
  <2>1. PICK r : /\ r = FirstOf(WaitForAll, Accumulations, k)
                 /\ r \in Seq(CurrentOp) /\ Ordered(r)
                 /\ \A o \in Range(r) : o \in CurrentOp /\ o.call = host.call /\ Rank(o) \in {2, 3}
                                        /\ o.op \in {"await", "accumulate"}
                 /\ \A n, p, b : AccumulateOp(n, p, b) \in Range(r) =>
                                   Keeps(n, p, b) /\ AwaitOp(n, p) \in Range(r)
                 /\ k = 2 * Len(staged) =>
                      /\ r = WaitForAll \o Accumulations
                      /\ \A n, p, b : Keeps(n, p, b) => AccumulateOp(n, p, b) \in Range(r)
    BY <1>2, HandedOver
  <2>2. FirstOf(WaitForAll, Accumulations, k) = WaitForAll \o Accumulations BY <2>1, <1>4
  <2> QED BY <2>2 DEF Join
<1>6. /\ queue' \in [Side \cup {Current} -> Seq(CurrentOp \cup SideOp)]
      /\ queue'[Current] \in Seq(CurrentOp) /\ Ordered(queue'[Current])
      /\ \A s \in Side : queue'[s] = queue[s]
      /\ \A o \in Range(queue'[Current]) :
           o.call < host.call \/ (o.call = host.call /\ o.op # "divide")
      /\ \A n \in CallIds, p \in Live, b \in Blocks :
           AccumulateOp(n, p, b) \in Range(queue'[Current]) =>
             <<n, p>> \in recorded' \/ AwaitOp(n, p) \in Range(queue'[Current])
      /\ \A n, p, b : /\ Reads(n, p, b) => (Reads(n, p, b))' /\ n < host.call
                      /\ (Reads(n, p, b))' => Reads(n, p, b) \/ Keeps(n, p, b)
                      /\ k = 2 * Len(staged) /\ Keeps(n, p, b) => (Reads(n, p, b))'
      /\ \A n : /\ ZeroOp(n) \in Range(queue'[Current]) <=> ZeroOp(n) \in Range(queue[Current])
                /\ DivideOp(n) \in Range(queue'[Current]) <=> DivideOp(n) \in Range(queue[Current])
                /\ DivideOp(n) \in Range(queue[Current]) => n < host.call
  <2> HIDE DEF IInv
  <2> QED BY <1>1, <1>5, Hand
<1>7. HostShape' BY <1>1, <1>2 DEF HostShape
<1>8. DeviceShape' BY <1>1, <1>6 DEF DeviceShape
<1>9. \A n, p : Forked(n, p) => (Forked(n, p))' BY <1>1, <1>2 DEF Forked
<1>10. SideStreams' BY <1>1, <1>6, <1>9, SidesKept
<1>11. CurrentStream' BY <1>1, <1>2, <1>6 DEF CurrentStream, NotYet
<1>12. StagedOnce' BY <1>1, <1>2 DEF StagedOnce
<1>13. \A n, p, b : (Keeps(n, p, b))' <=> Keeps(n, p, b) BY <1>1, <1>2 DEF Keeps
<1>14. \A n : (Sound(n))' <=> Sound(n) BY <1>1 DEF Sound
<1>15. Exclusive' /\ Written' BY <1>1, <1>6, <1>13, <1>14, ClaimsKept
<1>16. Ledger'
  <2> SUFFICES ASSUME NEW n \in CallIds, (Committed(n))' PROVE (Owes(n))'
    BY DEF Ledger, Owes
  <2>1. CASE DivideOp(n) \in Range(queue'[Current])
    <3>1. Committed(n) BY <2>1, <1>6 DEF Committed
    <3>2. n # host.call BY <2>1, <1>6, <1>2, Numbers
    <3>3. \A p \in Live, b \in Blocks : (Reads(n, p, b))' <=> Reads(n, p, b)
      BY <3>2, <1>6 DEF Keeps
    <3> QED BY <3>1, <3>3, <1>1, <1>6, <1>14, OwesKept
  <2>2. CASE n = host.call
    <3>1. ASSUME NEW p \in Live PROVE \E b \in Blocks : (Reads(n, p, b))'
      <4>1. p < host.path BY <1>1, Numbers, CqsaForwardAssumption DEF CqsaForwardAssumption
      <4>2. p \in {staged[i].path : i \in DOMAIN staged} BY <4>1, <1>1 DEF StagedOnce
      <4>3. PICK i \in DOMAIN staged : staged[i].path = p BY <4>2
      <4>4. staged[i] \in Staged BY <4>3, <1>3, ElementOfSeq
      <4>5. staged[i].block \in Blocks /\ staged[i] = [path |-> p, block |-> staged[i].block]
        BY <4>3, <4>4 DEF Staged
      <4>6. Keeps(n, p, staged[i].block) BY <4>5, <2>2 DEF Keeps, Range
      <4> QED BY <4>5, <4>6, <1>4, <1>6
    <3>2. Due(n)' = Live BY <3>1 DEF Due
    <3>3. CASE ZeroOp(n) \in Range(queue'[Current]) BY <3>2, <3>3 DEF Owes
    <3>4. CASE ZeroOp(n) \notin Range(queue'[Current])
      <4>1. sum'[n] = <<>> BY <3>4, <2>2, <1>1, <1>6 DEF Opened
      <4>2. Live \ Due(n)' = {} /\ {Whole(n, p) : p \in Live \ Due(n)'} = {} BY <3>2
      <4>3. Range(sum'[n]) = {} /\ Len(sum'[n]) = 0 BY <4>1, RangeOfEmpty, EmptySeq
      <4>4. Cardinality(Live \ Due(n)') = 0 BY <4>2, FS_EmptySet
      <4> QED BY <4>2, <4>3, <4>4, <3>4 DEF Owes
    <3> QED BY <3>3, <3>4
  <2>3. DivideOp(n) \in Range(queue'[Current]) \/ n = host.call BY <1>2 DEF Committed
  <2> QED BY <2>1, <2>2, <2>3
<1>17. Opened' BY <1>2 DEF Opened
<1>18. WrongOnlyIfLateOrRecycled' BY <1>1, <1>14, ResultKept
<1> QED BY <1>7, <1>8, <1>10, <1>11, <1>12, <1>15, <1>16, <1>17, <1>18

\* The host leaves a call: what it had staged goes, and the blocks with it.
LEMMA Unwound ==
  ASSUME HostShape, StagedOnce, block' = Freed(StagedBlocks), staged' = <<>>,
         host' = [host EXCEPT !.at = "idle"], UNCHANGED <<streams, lastUsed>>
  PROVE  /\ HostShape' /\ StagedOnce'
         /\ host'.at = "idle" /\ host'.call = host.call
         /\ \A b \in Blocks : block'[b].owner = block[b].owner
         /\ \A n, p, b : ~ (Keeps(n, p, b))'
         /\ \A n, p : Forked(n, p) => (Forked(n, p))'
<1>1. /\ host'.at = "idle" /\ host'.call = host.call
      /\ host' \in [at : {"idle", "fork", "join"}, call : 0 .. Calls, path : 0 .. NumPaths, profile : BOOLEAN]
  BY DEF HostShape
<1>2. /\ block' \in [Blocks -> [owner : Side \cup {Current}, free : BOOLEAN]]
      /\ \A b \in Blocks : /\ block'[b].owner = block[b].owner
                           /\ block[b].free => block'[b].free
  BY DEF HostShape, Freed
<1>3. HostShape' BY <1>1, <1>2 DEF HostShape
<1>4. DOMAIN staged' = {} BY EmptySeq
<1>5. StagedOnce' BY <1>1, <1>2, <1>4 DEF StagedOnce, Current
<1>6. \A n, p, b : ~ (Keeps(n, p, b))' BY RangeOfEmpty DEF Keeps
<1>7. \A n, p : Forked(n, p) => (Forked(n, p))' BY <1>1 DEF Forked
<1> QED BY <1>1, <1>2, <1>3, <1>5, <1>6, <1>7

\* An exception leaves the current stream with part of the call: nothing will
\* divide it, and what it still accumulates was written for the path it reads.
LEMMA ThrowStep == IInv /\ Throw => IInv'
<1> SUFFICES ASSUME IInv, Throw PROVE IInv'
  OBVIOUS
<1> USE DEF IInv
<1>1. /\ host.at \in {"fork", "join"} /\ host' = [host EXCEPT !.at = "idle"]
      /\ block' = Freed(StagedBlocks) /\ staged' = <<>>
      /\ UNCHANGED <<streams, lastUsed, recorded, holds, produced, sum, result, late, recycled>>
  BY DEF Throw, device
<1>2. /\ HostShape' /\ StagedOnce'
      /\ host'.at = "idle" /\ host'.call = host.call
      /\ \A b \in Blocks : block'[b].owner = block[b].owner
      /\ \A n, p, b : ~ (Keeps(n, p, b))'
      /\ \A n, p : Forked(n, p) => (Forked(n, p))'
  BY <1>1, Unwound
<1>3. /\ queue' \in [Side \cup {Current} -> Seq(CurrentOp \cup SideOp)]
      /\ queue'[Current] \in Seq(CurrentOp) /\ Ordered(queue'[Current])
      /\ \A s \in Side : queue'[s] = queue[s]
      /\ \A o \in Range(queue'[Current]) : o.call < host.call \/ o.call = host.call
      /\ \A n \in CallIds, p \in Live, b \in Blocks :
           AccumulateOp(n, p, b) \in Range(queue'[Current]) =>
             <<n, p>> \in recorded' \/ AwaitOp(n, p) \in Range(queue'[Current])
      /\ \A n, p, b : (Reads(n, p, b))' => Reads(n, p, b) \/ Keeps(n, p, b)
      /\ \A n \in CallIds : DivideOp(n) \in Range(queue'[Current]) =>
           /\ DivideOp(n) \in Range(queue[Current])
           /\ ZeroOp(n) \in Range(queue'[Current]) <=> ZeroOp(n) \in Range(queue[Current])
           /\ \A p, b : (Reads(n, p, b))' <=> Reads(n, p, b)
  <2>1. CASE UNCHANGED queue
    <3>1. \A o \in Range(queue[Current]) : o.call < host.call \/ o.call = host.call
      BY DEF CurrentStream
    <3>2. Ordered(queue'[Current]) BY <2>1 DEF CurrentStream
    <3>3. \A n \in CallIds, p \in Live, b \in Blocks :
            AccumulateOp(n, p, b) \in Range(queue'[Current]) =>
              <<n, p>> \in recorded' \/ AwaitOp(n, p) \in Range(queue'[Current])
      BY <2>1, <1>1 DEF CurrentStream
    <3>4. \A n, p, b : (Reads(n, p, b))' <=> Reads(n, p, b) BY <2>1 DEF Reads
    <3> QED BY <2>1, <3>1, <3>2, <3>3, <3>4 DEF DeviceShape
  <2>2. CASE /\ host.at = "fork" /\ host.path = NumPaths
             /\ \E k \in 0 .. 2 * Len(staged) - 1 :
                  Enqueue(Current, SubSeq(WaitForAll \o Accumulations, 1, k))
    <3>1. host.call \in CallIds /\ host.call \in Nat BY <2>2, Numbers DEF HostShape
    <3>2. PICK j \in 0 .. 2 * Len(staged) - 1 :
            Enqueue(Current, SubSeq(WaitForAll \o Accumulations, 1, j))
      BY <2>2
    <3>3. Len(staged) \in Nat BY <3>1, StagedOps
    <3>4. PICK k \in 0 .. 2 * Len(staged) : k = j BY <3>3
    <3>5. Enqueue(Current, FirstOf(WaitForAll, Accumulations, k)) BY <3>2, <3>4 DEF FirstOf
    <3>6. /\ queue' \in [Side \cup {Current} -> Seq(CurrentOp \cup SideOp)]
          /\ queue'[Current] \in Seq(CurrentOp) /\ Ordered(queue'[Current])
          /\ \A s \in Side : queue'[s] = queue[s]
          /\ \A o \in Range(queue'[Current]) :
               o.call < host.call \/ (o.call = host.call /\ o.op # "divide")
          /\ \A n \in CallIds, p \in Live, b \in Blocks :
               AccumulateOp(n, p, b) \in Range(queue'[Current]) =>
                 <<n, p>> \in recorded' \/ AwaitOp(n, p) \in Range(queue'[Current])
          /\ \A n, p, b : /\ Reads(n, p, b) => (Reads(n, p, b))' /\ n < host.call
                          /\ (Reads(n, p, b))' => Reads(n, p, b) \/ Keeps(n, p, b)
                          /\ k = 2 * Len(staged) /\ Keeps(n, p, b) => (Reads(n, p, b))'
          /\ \A n : /\ ZeroOp(n) \in Range(queue'[Current]) <=> ZeroOp(n) \in Range(queue[Current])
                    /\ DivideOp(n) \in Range(queue'[Current]) <=> DivideOp(n) \in Range(queue[Current])
                    /\ DivideOp(n) \in Range(queue[Current]) => n < host.call
      <4> HIDE DEF IInv
      <4> QED BY <2>2, <3>5, <1>1, Hand
    <3>7. ASSUME NEW n \in CallIds, DivideOp(n) \in Range(queue'[Current])
          PROVE  \A p, b : (Reads(n, p, b))' <=> Reads(n, p, b)
      <4>1. n # host.call BY <3>1, <3>6, <3>7
      <4> QED BY <4>1, <3>6 DEF Keeps
    <3> QED BY <3>6, <3>7
  <2> QED BY <2>1, <2>2 DEF Throw
<1>4. DeviceShape' BY <1>1, <1>3 DEF DeviceShape
<1>5. SideStreams' BY <1>1, <1>2, <1>3, SidesKept
<1>6. CurrentStream' BY <1>2, <1>3 DEF CurrentStream, NotYet
<1>7. \A n : (Sound(n))' <=> Sound(n) BY <1>1 DEF Sound
<1>8. Exclusive' /\ Written' BY <1>1, <1>2, <1>3, <1>7, ClaimsKept
<1>9. Ledger'
  <2> SUFFICES ASSUME NEW n \in CallIds, (Committed(n))' PROVE (Owes(n))'
    BY DEF Ledger, Owes
  <2>1. DivideOp(n) \in Range(queue'[Current]) BY <1>2 DEF Committed
  <2>2. Committed(n) BY <2>1, <1>3 DEF Committed
  <2> QED BY <2>1, <2>2, <1>1, <1>3, <1>7, OwesKept
<1>10. Opened' BY <1>2 DEF Opened
<1>11. WrongOnlyIfLateOrRecycled' BY <1>1, <1>7, ResultKept
<1> QED BY <1>2, <1>4, <1>5, <1>6, <1>8, <1>9, <1>10, <1>11

\* The division goes behind everything else of its call, which the current stream
\* now owns without the blocks being kept.
LEMMA ReturnStep == IInv /\ Return => IInv'
<1> SUFFICES ASSUME IInv, Return PROVE IInv'
  OBVIOUS
<1> USE DEF IInv
<1>1. /\ host.at = "join" /\ host' = [host EXCEPT !.at = "idle"]
      /\ block' = Freed(StagedBlocks) /\ staged' = <<>>
      /\ UNCHANGED <<streams, lastUsed, recorded, holds, produced, sum, result, late, recycled>>
  BY DEF Return, device
<1>2. /\ HostShape' /\ StagedOnce'
      /\ host'.at = "idle" /\ host'.call = host.call
      /\ \A b \in Blocks : block'[b].owner = block[b].owner
      /\ \A n, p, b : ~ (Keeps(n, p, b))'
      /\ \A n, p : Forked(n, p) => (Forked(n, p))'
  BY <1>1, Unwound
<1>3. PICK c, ops : c = host.call /\ ops = <<DivideOp(c)>> OBVIOUS
<1>4. c \in CallIds /\ DivideOp(c) \in CurrentOp /\ DivideOp(c).call = c /\ DivideOp(c).op = "divide"
  BY <1>1, <1>3 DEF HostShape, DivideOp, CurrentOp
<1>5. ops \in Seq(CurrentOp) /\ Ordered(ops) /\ Range(ops) = {DivideOp(c)}
  BY <1>3, <1>4 DEF Ordered, Range
<1>6. Enqueue(Current, ops) BY <1>3 DEF Return, DivideOp
<1>7. /\ queue' \in [Side \cup {Current} -> Seq(CurrentOp \cup SideOp)]
      /\ queue'[Current] = queue[Current] \o ops /\ queue'[Current] \in Seq(CurrentOp)
      /\ Range(queue'[Current]) = Range(queue[Current]) \cup {DivideOp(c)}
      /\ \A s \in Side : queue'[s] = queue[s]
  BY <1>5, <1>6, GiveCurrent
<1>8. \A o \in Range(queue[Current]) :
        /\ o \in CurrentOp
        /\ o.call < host.call \/ (o.call = host.call /\ o.op # "divide")
  BY <1>1, CallsBegun DEF NotYet
<1>9. CurrentStream'
  <2>1. ASSUME NEW o \in Range(queue[Current]), NEW u \in Range(ops) PROVE MayPrecede(o, u)
    <3>1. u = DivideOp(c) /\ u.call = host.call /\ Rank(u) = 4 BY <1>3, <1>4, <1>5, Ranks
    <3>2. CASE o.call < host.call BY <3>1, <3>2 DEF MayPrecede
    <3>3. CASE o.call = host.call /\ o.op # "divide"
      <4>1. o.op \in {"produce", "zero", "await", "accumulate"} BY <3>3, <1>8, CurrentOps
      <4>2. Rank(o) \in 0 .. 3 BY <4>1 DEF Rank
      <4> QED BY <3>1, <3>3, <4>2 DEF MayPrecede
    <3> QED BY <3>2, <3>3, <1>8
  <2>2. queue[Current] \in Seq(CurrentOp) /\ Ordered(queue[Current]) BY DEF DeviceShape, CurrentStream
  <2>3. Ordered(queue'[Current]) BY <2>1, <2>2, <1>5, <1>7, OrderedConcat
  <2>4. \A o \in Range(queue'[Current]) : (o.call < host.call \/ (o.call = host.call /\ NotYet(o)))'
    BY <1>2, <1>3, <1>4, <1>7, <1>8 DEF NotYet
  <2>5. \A n \in CallIds, p \in Live, b \in Blocks :
          AccumulateOp(n, p, b) \in Range(queue'[Current]) =>
            <<n, p>> \in recorded' \/ AwaitOp(n, p) \in Range(queue'[Current])
    BY <1>1, <1>7 DEF CurrentStream, AccumulateOp, DivideOp
  <2> QED BY <2>3, <2>4, <2>5 DEF CurrentStream
<1>10. DeviceShape' BY <1>1, <1>7 DEF DeviceShape
<1>11. SideStreams' BY <1>1, <1>2, <1>7, SidesKept
<1>12. \A n, p, b : (Reads(n, p, b))' <=> Reads(n, p, b)
  BY <1>7 DEF Reads, AccumulateOp, DivideOp
<1>13. \A n : (Sound(n))' <=> Sound(n) BY <1>1 DEF Sound
<1>14. Exclusive' /\ Written' BY <1>1, <1>2, <1>7, <1>12, <1>13, ClaimsKept
<1>15. Ledger'
  <2> SUFFICES ASSUME NEW n \in CallIds, (Committed(n))' PROVE (Owes(n))'
    BY DEF Ledger, Owes
  <2>1. DivideOp(n) \in Range(queue'[Current]) BY <1>2 DEF Committed
  <2>2. DivideOp(n) \in Range(queue[Current]) \/ n = c BY <2>1, <1>7 DEF DivideOp
  <2>3. Committed(n) BY <2>2, <1>1, <1>3 DEF Committed
  <2>4. ZeroOp(n) \in Range(queue'[Current]) <=> ZeroOp(n) \in Range(queue[Current])
    BY <1>7 DEF ZeroOp, DivideOp
  <2> QED BY <2>3, <2>4, <1>1, <1>12, <1>13, OwesKept
<1>16. Opened' BY <1>2 DEF Opened
<1>17. WrongOnlyIfLateOrRecycled' BY <1>1, <1>13, ResultKept
<1> QED BY <1>2, <1>9, <1>10, <1>11, <1>14, <1>15, <1>16, <1>17

\* No step of the host or of a stream breaks the invariant.
LEMMA NextKeepsInvariant == IInv /\ [Next]_vars => IInv'
<1> SUFFICES ASSUME IInv, [Next]_vars PROVE IInv'
  OBVIOUS
<1>1. CASE Host BY <1>1, BeginStep, ForkStep, ForkEmptyStep, ThrowStep, JoinStep, ReturnStep DEF Host
<1>2. ASSUME NEW s \in Side \cup {Current}, Stream(s) PROVE IInv' BY <1>2, StreamStep
<1>3. CASE UNCHANGED vars
  <2>1. UNCHANGED <<host, streams, lastUsed, staged, queue, recorded, block, holds, produced,
                    sum, result, late, recycled>>
    BY <1>3 DEF vars
  <2>2. HostShape' /\ DeviceShape' BY <2>1 DEF IInv, HostShape, DeviceShape
  <2>3. \A n, p, b : /\ (Keeps(n, p, b))' <=> Keeps(n, p, b)
                     /\ (Reads(n, p, b))' <=> Reads(n, p, b)
    BY <2>1 DEF Keeps, Reads
  <2>4. /\ \A n : (Sound(n))' <=> Sound(n)
        /\ \A n, p : (Forked(n, p))' <=> Forked(n, p)
    BY <2>1 DEF Sound, Forked
  <2>7. SideStreams' BY <2>1, <2>4, SidesKept DEF IInv
  <2>8. CurrentStream' /\ StagedOnce' BY <2>1 DEF IInv, CurrentStream, StagedOnce, NotYet
  <2>9. Exclusive' /\ Written' BY <2>1, <2>3, <2>4, ClaimsKept DEF IInv
  <2>5. Ledger' /\ Opened'
    BY <2>1 DEF IInv, Ledger, Committed, Due, Reads, Sound, Opened
  <2>6. WrongOnlyIfLateOrRecycled'
    BY <2>1 DEF IInv, WrongOnlyIfLateOrRecycled, Exact
  <2> QED BY <2>2, <2>5, <2>6, <2>7, <2>8, <2>9 DEF IInv
<1> QED BY <1>1, <1>2, <1>3 DEF Next

-----------------------------------------------------------------------------
(* The theorems. *)

\* The invariant holds in every state the forward can reach, whatever is fair.
THEOREM Invariant == FairSpec => []IInv
BY InitInvariant, NextKeepsInvariant, PTL DEF FairSpec

\* staged_results keeps its blocks, each of them once, and the events that have
\* happened are those of paths with tokens.
THEOREM TypeCorrect == FairSpec => []TypeOK
<1>1. IInv => TypeOK
  <2> SUFFICES ASSUME IInv PROVE TypeOK OBVIOUS
  <2>1. /\ host.at \in {"idle", "fork", "join"} /\ host.call \in 0 .. Calls /\ host.path \in 0 .. NumPaths
    BY DEF IInv, HostShape
  <2>2. recorded \subseteq CallIds \X Live /\ produced \subseteq CallIds /\ late \subseteq CallIds
    BY DEF IInv, DeviceShape
  <2>3. /\ \A i \in DOMAIN staged : ~ block[staged[i].block].free
        /\ \A i, j \in DOMAIN staged : i # j => staged[i].block # staged[j].block
    BY DEF IInv, StagedOnce
  <2> QED BY <2>1, <2>2, <2>3 DEF TypeOK
<1> QED BY <1>1, Invariant, PTL

\* What mha_fwd_cqsa_impl returns is the attention over every path with tokens,
\* each counted once and for the token ids it was gathered with; the only excuses
\* are inputs that were still being computed and a block that a later call was
\* handed while this one still had to read it.
THEOREM ResultsExact == FairSpec => []WrongOnlyIfLateOrRecycled
<1>1. IInv => WrongOnlyIfLateOrRecycled BY DEF IInv
<1> QED BY <1>1, Invariant, PTL

\* A stream that writes a block either writes it for the call that will read it or
\* belongs to a later one.
LEMMA OverwritesStayLater ==
  IInv /\ OnlyLaterCallsOverwrite /\ [Next]_vars => OnlyLaterCallsOverwrite'
<1> SUFFICES ASSUME IInv, OnlyLaterCallsOverwrite, [Next]_vars PROVE OnlyLaterCallsOverwrite'
  OBVIOUS
<1>1. CASE UNCHANGED recycled BY <1>1 DEF OnlyLaterCallsOverwrite
<1>2. ASSUME NEW s \in Side \cup {Current}, Local(s) PROVE OnlyLaterCallsOverwrite'
  <2> USE DEF IInv
  <2>1. s \in Side /\ queue[s] # <<>> /\ First(s).op = "local"
    BY <1>2, WhereOpsRun DEF Local, Running
  <2>2. PICK m \in CallIds, q \in Live :
             /\ Forked(m, q) /\ <<m, q>> \notin recorded
             /\ Finishing(s, m, q) \/ \E b \in Blocks : Doing(s, m, q, b) /\ block[b].owner = s
    BY <2>1, BusyIs
  <2>3. ~ Finishing(s, m, q) BY <2>1, DoingFirst, OpsDiffer
  <2>4. PICK c \in Blocks : Doing(s, m, q, c) BY <2>2, <2>3
  <2>5. First(s).call = m /\ First(s).path = q /\ First(s).block = c
    BY <2>1, <2>4, DoingFirst DEF LocalOp
  <2>6. recycled' = recycled \cup
          {[old |-> r.call, new |-> m] : r \in {x \in Readers(c) : <<x.call, x.path>> # <<m, q>>}}
    BY <1>2, <2>5 DEF Local
  <2>7. ASSUME NEW r \in Readers(c), <<r.call, r.path>> # <<m, q>> PROVE r.call < m
    <3>1. r \in Range(queue[Current]) /\ r.op = "accumulate" /\ r.block = c
      BY DEF Readers, Range
    <3>2. r \in CurrentOp BY <3>1, CallsBegun
    <3>3. /\ r.call \in CallIds /\ r.path \in Live
          /\ r = AccumulateOp(r.call, r.path, c)
      BY <3>1, <3>2, CurrentOps
    <3>4. Reads(r.call, r.path, c) BY <3>1, <3>3 DEF Reads
    <3>5. (r.call = m /\ r.path = q) \/ r.call < m BY <3>3, <3>4, <2>1, <2>4 DEF Exclusive
    <3> QED BY <3>5, <2>7
  <2>8. ASSUME NEW r \in recycled' PROVE r.old < r.new
    <3>1. CASE r \in recycled BY <3>1 DEF OnlyLaterCallsOverwrite
    <3>2. CASE r \notin recycled
      <4>1. PICK x \in Readers(c) : <<x.call, x.path>> # <<m, q>> /\ r = [old |-> x.call, new |-> m]
        BY <3>2, <2>6
      <4> QED BY <4>1, <2>7
    <3> QED BY <3>1, <3>2
  <2> QED BY <2>8 DEF OnlyLaterCallsOverwrite
<1>3. CASE Host
  BY <1>1, <1>3 DEF Host, Begin, Fork, ForkEmpty, Throw, Join, Return, device
<1>4. ASSUME NEW s \in Side \cup {Current}, Stream(s) PROVE OnlyLaterCallsOverwrite'
  <2>1. Local(s) \/ UNCHANGED recycled
    BY <1>4 DEF Stream, Produce, Zero, Record, Await, Accumulate, Divide, device
  <2> QED BY <2>1, <1>1, <1>2
<1>5. UNCHANGED vars => UNCHANGED recycled BY DEF vars
<1> QED BY <1>1, <1>3, <1>4, <1>5 DEF Next

\* No call ever takes one of its own blocks back while it is still to be read, nor
\* one of a call that begins later.
THEOREM OverwrittenByLaterCallsOnly == FairSpec => []OnlyLaterCallsOverwrite
<1>1. Init => OnlyLaterCallsOverwrite BY DEF Init, OnlyLaterCallsOverwrite
<1> QED BY <1>1, Invariant, OverwritesStayLater, PTL DEF FairSpec

\* What the host enqueues to be read belongs to the call in hand, and it is only
\* enqueued when the forks are done.
LEMMA HandReads ==
  ASSUME IInv, Join \/ Throw, NEW n \in CallIds, NEW p \in Live, NEW b \in Blocks, (Reads(n, p, b))'
  PROVE  Reads(n, p, b) \/ (n = host.call /\ host.at = "fork")
<1>1. UNCHANGED recorded BY DEF Join, Throw, device
<1>2. CASE UNCHANGED queue BY <1>2 DEF Reads
<1>3. ASSUME host.at = "fork", NEW k \in 0 .. 2 * Len(staged),
             Enqueue(Current, FirstOf(WaitForAll, Accumulations, k))
      PROVE  Reads(n, p, b) \/ n = host.call
  <2>1. Reads(n, p, b) \/ Keeps(n, p, b) BY <1>1, <1>3, Hand
  <2> QED BY <2>1 DEF Keeps
<1>4. CASE Join
  <2>1. host.at = "fork" /\ host.call \in CallIds BY <1>4 DEF Join, IInv, HostShape
  <2>2. HostShape /\ StagedOnce BY DEF IInv
  <2>3. Len(staged) \in Nat BY <2>1, <2>2, StagedOps
  <2>4. PICK k \in 0 .. 2 * Len(staged) : k = 2 * Len(staged) BY <2>3
  <2>5. FirstOf(WaitForAll, Accumulations, k) = WaitForAll \o Accumulations
    BY <2>1, <2>2, <2>4, HandedOver
  <2>6. Enqueue(Current, FirstOf(WaitForAll, Accumulations, k)) BY <1>4, <2>5 DEF Join
  <2> QED BY <2>1, <2>6, <1>3
<1>5. CASE /\ host.at = "fork"
           /\ \E j \in 0 .. 2 * Len(staged) - 1 :
                Enqueue(Current, SubSeq(WaitForAll \o Accumulations, 1, j))
  <2>1. PICK j \in 0 .. 2 * Len(staged) - 1 :
          Enqueue(Current, SubSeq(WaitForAll \o Accumulations, 1, j))
    BY <1>5
  <2>2. host.call \in CallIds /\ HostShape /\ StagedOnce BY <1>5 DEF IInv, HostShape
  <2>3. Len(staged) \in Nat BY <2>2, StagedOps
  <2>4. PICK k \in 0 .. 2 * Len(staged) : k = j BY <2>3
  <2>5. Enqueue(Current, FirstOf(WaitForAll, Accumulations, k)) BY <2>1, <2>4 DEF FirstOf
  <2> QED BY <1>3, <1>5, <2>5
<1> QED BY <1>2, <1>4, <1>5 DEF Throw

\* No other step of the host gives the current stream anything to read ...
LEMMA HostReads ==
  ASSUME IInv, Begin \/ Fork \/ ForkEmpty \/ Return,
         NEW n \in CallIds, NEW p \in Live, NEW b \in Blocks, (Reads(n, p, b))'
  PROVE  Reads(n, p, b)
<1> USE DEF IInv
<1>1. CASE ForkEmpty BY <1>1 DEF ForkEmpty, Reads
<1>2. CASE Fork
  <2>1. streams \in Seq(Side) /\ streams # <<>> /\ host.path \in Nat
    BY <1>2, CqsaForwardAssumption DEF CqsaForwardAssumption, Fork, HostShape
  <2>2. Len(streams) \in Nat \ {0} BY <2>1, EmptySeq
  <2>3. (host.path % Len(streams)) + 1 \in 1 .. Len(streams) BY <2>1, <2>2
  <2>4. StreamOf(host.path) \in Side BY <2>1, <2>3, ElementOfSeq DEF StreamOf
  <2>5. queue'[Current] = queue[Current]
    BY <1>2, <2>4, Numbers DEF Fork, Enqueue, DeviceShape
  <2> QED BY <2>5 DEF Reads
<1>3. ASSUME NEW ops \in Seq(CurrentOp), Enqueue(Current, ops),
             \A o \in Range(ops) : o.op # "accumulate"
      PROVE  Reads(n, p, b)
  <2>1. AccumulateOp(n, p, b) \in Range(queue[Current]) \cup Range(ops)
    BY <1>3, GiveCurrent DEF Reads
  <2> QED BY <2>1, <1>3 DEF Reads, AccumulateOp
<1>4. CASE Return
  <2>1. host.call \in CallIds /\ Enqueue(Current, <<DivideOp(host.call)>>)
    BY <1>4 DEF Return, DivideOp, HostShape
  <2>2. DivideOp(host.call) \in CurrentOp BY <2>1 DEF DivideOp, CurrentOp
  <2>3. <<DivideOp(host.call)>> \in Seq(CurrentOp) BY <2>2
  <2>4. \A o \in Range(<<DivideOp(host.call)>>) : o.op # "accumulate" BY DEF Range, DivideOp
  <2> QED BY <2>1, <2>3, <2>4, <1>3
<1>5. CASE Begin
  <2> DEFINE m == host.call + 1
  <2>1. PICK produce \in BOOLEAN :
          Enqueue(Current, (IF produce THEN <<ProduceOp(m)>> ELSE <<>>) \o <<ZeroOp(m)>>)
    BY <1>5 DEF Begin, ProduceOp, ZeroOp
  <2>2. m \in CallIds
    BY <1>5, CqsaForwardAssumption DEF CqsaForwardAssumption, Begin, HostShape, CallIds
  <2> HIDE DEF m
  <2>3. ProduceOp(m) \in CurrentOp /\ ZeroOp(m) \in CurrentOp
    BY <2>2 DEF ProduceOp, ZeroOp, CurrentOp
  <2>4. PICK inputs : inputs = IF produce THEN <<ProduceOp(m)>> ELSE <<>> OBVIOUS
  <2>5. inputs \in Seq(CurrentOp) /\ Range(inputs) \subseteq {ProduceOp(m)}
    BY <2>3, <2>4 DEF Range
  <2>6. PICK zero : zero = <<ZeroOp(m)>> OBVIOUS
  <2>7. zero \in Seq(CurrentOp) /\ Range(zero) = {ZeroOp(m)}
    BY <2>3, <2>6 DEF Range
  <2>8. inputs \o zero \in Seq(CurrentOp) /\ Range(inputs \o zero) = Range(inputs) \cup Range(zero)
    BY <2>5, <2>7, RangeOfConcat
  <2>9. \A o \in Range(inputs \o zero) : o.op # "accumulate"
    BY <2>5, <2>7, <2>8 DEF ProduceOp, ZeroOp
  <2> QED BY <2>1, <2>4, <2>6, <2>8, <2>9, <1>3
<1> QED BY <1>1, <1>2, <1>4, <1>5

\* ... and the streams only take away from it.
LEMMA StreamReads ==
  ASSUME IInv, NEW s \in Side \cup {Current}, Stream(s),
         NEW n \in CallIds, NEW p \in Live, NEW b \in Blocks, (Reads(n, p, b))'
  PROVE  Reads(n, p, b)
<1> USE DEF IInv
<1>1. queue[s] # <<>> /\ Done(s)
  BY DEF Stream, Produce, Zero, Local, Record, Await, Accumulate, Divide, Running
<1>2. CASE s = Current
  <2>1. Range(queue'[Current]) \subseteq Range(queue[Current]) BY <1>1, <1>2, PopCurrent
  <2> QED BY <2>1 DEF Reads
<1>3. CASE s # Current
  <2>1. queue'[Current] = queue[Current] BY <1>1, <1>3 DEF Done, DeviceShape
  <2> QED BY <2>1 DEF Reads
<1> QED BY <1>2, <1>3

\* A block that is written too early is written by a call that has begun, against
\* an accumulation the current stream still has to run.
LEMMA LateWrite ==
  ASSUME IInv, NEW s \in Side \cup {Current}, Local(s), NEW r \in recycled', r \notin recycled
  PROVE  /\ r.new \in CallIds /\ r.new <= host.call
         /\ r.old \in CallIds /\ \E p \in Live, b \in Blocks : Reads(r.old, p, b)
<1> USE DEF IInv
<1>1. s \in Side /\ queue[s] # <<>> /\ First(s).op = "local"
  BY WhereOpsRun DEF Local, Running
<1>2. PICK m \in CallIds, q \in Live :
           /\ Forked(m, q) /\ <<m, q>> \notin recorded
           /\ Finishing(s, m, q) \/ \E b \in Blocks : Doing(s, m, q, b) /\ block[b].owner = s
  BY <1>1, BusyIs
<1>3. ~ Finishing(s, m, q) BY <1>1, DoingFirst, OpsDiffer
<1>4. PICK c \in Blocks : Doing(s, m, q, c) BY <1>2, <1>3
<1>5. First(s).call = m /\ First(s).block = c BY <1>1, <1>4, DoingFirst DEF LocalOp
<1>6. PICK x \in Readers(c) : r = [old |-> x.call, new |-> m]
  BY <1>5 DEF Local
<1>7. x \in Range(queue[Current]) /\ x.op = "accumulate" /\ x.block = c BY DEF Readers, Range
<1>8. x \in CurrentOp BY <1>7, CallsBegun
<1>9. x.call \in CallIds /\ x.path \in Live /\ x = AccumulateOp(x.call, x.path, c)
  BY <1>7, <1>8, CurrentOps
<1>10. Reads(x.call, x.path, c) BY <1>7, <1>9 DEF Reads
<1>11. m \in Nat /\ host.call \in Nat
  BY CqsaForwardAssumption DEF CqsaForwardAssumption, HostShape, CallIds
<1>12. m <= host.call BY <1>2, <1>11 DEF Forked
<1> QED BY <1>6, <1>9, <1>10, <1>12

\* No step takes the settlement of a profiled call back.
LEMMA SettledKept == IInv /\ Settled /\ [Next]_vars => Settled'
<1> SUFFICES ASSUME IInv, Settled, [Next]_vars PROVE Settled'
  OBVIOUS
<1>1. /\ host.call \in Nat /\ \A n \in CallIds : n \in Nat
      /\ host.at # "idle" => host.call \in CallIds
      /\ recycled \subseteq [old : CallIds, new : CallIds]
  BY CqsaForwardAssumption DEF CqsaForwardAssumption, IInv, HostShape, DeviceShape, CallIds
<1>2. CASE UNCHANGED vars BY <1>2 DEF vars, Settled, Reads
<1>3. ASSUME UNCHANGED <<recycled, profiled>>, host'.call = host.call,
             host.at # "idle",
             \A n \in CallIds, p \in Live, b \in Blocks :
               (Reads(n, p, b))' => Reads(n, p, b) \/ n = host.call
      PROVE  Settled'
  <2>1. \A m \in profiled : m < host.call BY <1>3 DEF Settled
  <2>2. \A m \in profiled, n \in CallIds, p \in Live, b \in Blocks : (Reads(n, p, b))' => m < n
    BY <2>1, <1>3 DEF Settled
  <2> QED BY <2>1, <2>2, <1>3 DEF Settled
<1>4. CASE Begin
  <2>1. /\ UNCHANGED <<recycled, profiled>> /\ host'.call = host.call + 1
    BY <1>4 DEF Begin
  <2>2. \A m \in profiled : m < host.call + 1 BY <1>1 DEF Settled
  <2>3. \A r \in recycled : r.new <= host.call + 1 BY <1>1 DEF Settled
  <2>4. \A n \in CallIds, p \in Live, b \in Blocks : (Reads(n, p, b))' => Reads(n, p, b)
    BY <1>4, HostReads
  <2> QED BY <2>1, <2>2, <2>3, <2>4 DEF Settled
<1>5. CASE Fork \/ ForkEmpty
  <2>1. \A n \in CallIds, p \in Live, b \in Blocks : (Reads(n, p, b))' => Reads(n, p, b)
    BY <1>5, HostReads
  <2>2. /\ UNCHANGED <<recycled, profiled>> /\ host'.call = host.call /\ host.at # "idle"
    BY <1>5 DEF Fork, ForkEmpty, device, IInv, HostShape
  <2> QED BY <2>1, <2>2, <1>3
<1>6. CASE Join \/ Throw
  <2>1. \A n \in CallIds, p \in Live, b \in Blocks :
          (Reads(n, p, b))' => Reads(n, p, b) \/ n = host.call
    BY <1>6, HandReads
  <2>2. /\ UNCHANGED <<recycled, profiled>> /\ host'.call = host.call /\ host.at # "idle"
    BY <1>6 DEF Join, Throw, device, IInv, HostShape
  <2> QED BY <2>1, <2>2, <1>3
<1>7. CASE Return
  <2>1. /\ UNCHANGED recycled /\ host'.call = host.call /\ host'.at = "idle" /\ host.at = "join"
        /\ profiled' = IF host.profile THEN profiled \cup {host.call} ELSE profiled
    BY <1>7 DEF Return, device, IInv, HostShape
  <2>2. \A n \in CallIds, p \in Live, b \in Blocks : (Reads(n, p, b))' => Reads(n, p, b)
    BY <1>7, HostReads
  <2>3. CASE ~ host.profile BY <2>1, <2>2, <2>3 DEF Settled
  <2>4. CASE host.profile
    <3>1. DOMAIN queue[Current] = {} BY <1>7, <2>4, EmptySeq DEF Return
    <3>2. \A n \in CallIds, p \in Live, b \in Blocks : ~ (Reads(n, p, b))'
      BY <2>2, <3>1 DEF Reads, Range
    <3>3. profiled' = profiled \cup {host.call} BY <2>1, <2>4
    <3>4. profiled' \subseteq CallIds BY <3>3, <2>1, <1>1 DEF Settled
    <3>5. \A m \in profiled' : m < host.call \/ m = host.call BY <3>3 DEF Settled
    <3>6. \A m \in profiled', r \in recycled : r.new <= m \/ m < r.old
      BY <3>3 DEF Settled
    <3> QED BY <2>1, <3>2, <3>4, <3>5, <3>6 DEF Settled
  <2> QED BY <2>3, <2>4
<1>8. ASSUME NEW s \in Side \cup {Current}, Stream(s) PROVE Settled'
  <2>1. \A n \in CallIds, p \in Live, b \in Blocks : (Reads(n, p, b))' => Reads(n, p, b)
    BY <1>8, StreamReads
  <2>2. UNCHANGED <<host, profiled>>
    BY <1>8 DEF Stream, Produce, Zero, Local, Record, Await, Accumulate, Divide, hostVars
  <2>3. CASE UNCHANGED recycled BY <2>1, <2>2, <2>3 DEF Settled
  <2>4. CASE Local(s)
    <3>1. ASSUME NEW r \in recycled' PROVE r.new <= host.call
      BY <2>4, LateWrite DEF Settled
    <3>2. ASSUME NEW m \in profiled, NEW r \in recycled' PROVE r.new <= m \/ m < r.old
      <4>1. CASE r \in recycled BY <4>1 DEF Settled
      <4>2. CASE r \notin recycled
        <5>1. r.old \in CallIds /\ \E p \in Live, b \in Blocks : Reads(r.old, p, b)
          BY <2>4, <4>2, LateWrite
        <5> QED BY <5>1 DEF Settled
      <4> QED BY <4>1, <4>2
    <3> QED BY <2>1, <2>2, <3>1, <3>2 DEF Settled
  <2>5. Local(s) \/ UNCHANGED recycled
    BY <1>8 DEF Stream, Produce, Zero, Record, Await, Accumulate, Divide, device
  <2> QED BY <2>3, <2>4, <2>5
<1> QED BY <1>2, <1>4, <1>5, <1>6, <1>7, <1>8 DEF Next, Host

\* Once a call has returned a profile, it and all the calls before it are out of
\* reach of those that follow: what they return can be wrong only because their own
\* inputs were late or a call up to the profiled one was given a block too early.
THEOREM ProfiledSettles == FairSpec => []ProfiledCallSettles
<1>1. Init => Settled BY EmptySeq DEF Init, Settled, Reads, Range
<1>2. IInv /\ Settled => ProfiledCallSettles
  <2> SUFFICES ASSUME IInv, Settled, NEW m \in profiled, NEW n \in 1 .. m, result[n] # Pending,
                      ~ Exact(n), n \notin late
               PROVE  \E r \in recycled : r.old = n /\ r.new \in n + 1 .. m
    BY DEF ProfiledCallSettles
  <2>1. m \in CallIds /\ n \in CallIds /\ m \in Nat /\ n \in Nat
    BY CqsaForwardAssumption DEF CqsaForwardAssumption, Settled, CallIds
  <2>2. PICK r \in recycled : r.old = n /\ r.new > n
    BY <2>1 DEF IInv, WrongOnlyIfLateOrRecycled
  <2>3. r.new \in CallIds /\ r.new \in Nat
    BY CqsaForwardAssumption DEF CqsaForwardAssumption, IInv, DeviceShape, CallIds
  <2>4. r.new <= m \/ m < r.old BY DEF Settled
  <2> QED BY <2>1, <2>2, <2>3, <2>4
<1> QED BY <1>1, <1>2, Invariant, SettledKept, PTL DEF FairSpec

=============================================================================
