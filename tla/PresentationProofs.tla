------------------------- MODULE PresentationProofs -------------------------
(***************************************************************************)
(* Theorems about Presentation for every world, tick rate, frame rate and   *)
(* clock: what is sampled of an entity are positions it held itself, as     *)
(* long as no slot has gone round its generations; and the picture never    *)
(* runs backwards.                                                          *)
(***************************************************************************)
EXTENDS Presentation, WorldProofs

\* No slot has given out as many handles as there are generations.
NoneGoneRound == \A s \in Slots : Len(issued[s]) < GenerationMod

Records == [prev : Values, curr : Values, generation : 0..(GenerationMod - 1), active : BOOLEAN]

\* A record made for the n-th of a slot's count entities has that one's generation, and as long as
\* the generations have not gone round, the newest entity's has positions of that entity.
MadeFor(record, n, count, positions) ==
    record.active =>
        /\ n \in 1..count /\ record.generation = NthGeneration(n)
        /\ (n = count /\ count < GenerationMod) =>
             record.prev \in positions /\ record.curr \in positions

RecordsInv ==
    /\ records \in [Slots -> Records] /\ occupant \in [Slots -> Nat]
    /\ tickPositions \in [Slots -> SUBSET Values]
    /\ \A s \in Slots : MadeFor(records[s], occupant[s], Len(issued[s]), tickPositions[s])

\* What was shown last is not past what the last render time shows of the current tick.
FrameInv ==
    /\ lastTick \in 0..MaxTicks /\ frame \in 0..MaxFrames /\ alpha \in 0..ScalarOne
    /\ renderNs \in Nat /\ shown \in Nat
    /\ valid => shown <= lastTick * ScalarOne + ToScalar(AlphaNum(renderNs, lastTick))

PresentationInv == WorldInv /\ RecordsInv /\ FrameInv

-----------------------------------------------------------------------------
(* Deadlines and the factor: for every rate, tick and time *)

\* The split into whole seconds and remainder loses nothing.
LEMMA SplitExact ==
    ASSUME NEW e \in Nat
    PROVE  /\ e \div NsPerSecond \in Nat
           /\ e % NsPerSecond \in 0..(NsPerSecond - 1)
           /\ e * TickRate = ((e \div NsPerSecond) * TickRate) * NsPerSecond
                                 + (e % NsPerSecond) * TickRate
<1> USE UnitsAssumption, RatesAssumption
<1> DEFINE q == e \div NsPerSecond
           r == e % NsPerSecond
<1>1. q \in Nat /\ r \in 0..(NsPerSecond - 1) /\ e = q * NsPerSecond + r
  OBVIOUS
<1> HIDE DEF q, r
<1>2. (q * NsPerSecond + r) * TickRate = (q * TickRate) * NsPerSecond + r * TickRate
  BY <1>1
<1>3. QED
  BY <1>1, <1>2 DEF q, r

\* onRenderFrame's early exits, which keep its products inside 64 bits, change
\* nothing: the factor is the exact one, clamped to [0, 1].
THEOREM AlphaExact ==
    ASSUME NEW e \in Nat, NEW tick \in Nat
    PROVE  AlphaNum(e, tick) = ExactAlphaNum(e, tick)
<1> USE UnitsAssumption, RatesAssumption
<1> DEFINE ahead == (e \div NsPerSecond) * TickRate - tick
           rest == (e % NsPerSecond) * TickRate
           exact == e * TickRate - tick * NsPerSecond
<1>1. CASE tick = 0
  BY <1>1 DEF AlphaNum, ExactAlphaNum
<1>2. CASE tick # 0
  <2>1. ahead \in Int
    BY SplitExact
  <2>2. rest \in Nat /\ rest <= (NsPerSecond - 1) * TickRate
    <3> DEFINE r == e % NsPerSecond
    <3>1. r \in Nat /\ r <= NsPerSecond - 1
      BY SplitExact
    <3> HIDE DEF r
    <3>2. r * TickRate \in Nat /\ r * TickRate <= (NsPerSecond - 1) * TickRate
      BY <3>1
    <3> QED
      BY <3>2 DEF r
  <2>3. exact = ahead * NsPerSecond + rest
    <3> DEFINE q == e \div NsPerSecond
               whole == q * TickRate
    <3>1. q \in Nat /\ e * TickRate = whole * NsPerSecond + rest
      BY SplitExact
    <3>2. whole \in Int
      BY <3>1
    <3> HIDE DEF whole, rest, q
    <3>3. (whole - tick) * NsPerSecond = whole * NsPerSecond - tick * NsPerSecond
      BY <3>2
    <3>4. whole * NsPerSecond \in Int /\ tick * NsPerSecond \in Int /\ rest \in Int
      BY <2>2, <3>2
    <3>5. e * TickRate - tick * NsPerSecond = (whole - tick) * NsPerSecond + rest
      <4> DEFINE x == e * TickRate
                 y == whole * NsPerSecond
                 z == tick * NsPerSecond
                 w == (whole - tick) * NsPerSecond
      <4>1. x = y + rest /\ w = y - z /\ y \in Int /\ z \in Int
        BY <3>1, <3>3, <3>4
      <4> HIDE DEF x, y, z, w
      <4>2. x - z = w + rest
        BY <4>1, <3>4
      <4> QED
        BY <4>2 DEF x, z, w
    <3> QED
      BY <3>5 DEF whole, q
  <2> HIDE DEF ahead, rest, exact
  <2>4. ahead * NsPerSecond \in Int
    BY <2>1
  <2>5. CASE ahead >= NsPerSecond
    <3>1. ahead * NsPerSecond >= NsPerSecond * NsPerSecond
      BY <2>1, <2>5
    <3>2. NsPerSecond * NsPerSecond >= NsPerSecond
      OBVIOUS
    <3>3. exact >= NsPerSecond /\ exact \in Int
      BY <2>2, <2>3, <2>4, <3>1, <3>2
    <3> QED
      BY <1>2, <2>5, <3>3 DEF AlphaNum, ExactAlphaNum, Clamped, ahead, rest, exact
  <2>6. CASE ahead < 1 - MaxTickRate
    <3>1. ahead <= -MaxTickRate
      BY <2>1, <2>6
    <3>2. ahead * NsPerSecond <= (-MaxTickRate) * NsPerSecond
      BY <2>1, <3>1
    <3>3. (NsPerSecond - 1) * TickRate < MaxTickRate * NsPerSecond
      <4>1. (NsPerSecond - 1) * TickRate < NsPerSecond * TickRate
        OBVIOUS
      <4>2. NsPerSecond * TickRate <= NsPerSecond * MaxTickRate
        OBVIOUS
      <4> QED
        BY <4>1, <4>2
    <3>4. exact < 0 /\ exact \in Int
      BY <2>2, <2>3, <2>4, <3>2, <3>3
    <3>5. ~(ahead >= NsPerSecond)
      BY <2>1, <2>6
    <3> QED
      BY <1>2, <2>6, <3>4, <3>5 DEF AlphaNum, ExactAlphaNum, Clamped, ahead, rest, exact
  <2>7. CASE ~(ahead >= NsPerSecond) /\ ~(ahead < 1 - MaxTickRate)
    BY <1>2, <2>3, <2>7 DEF AlphaNum, ExactAlphaNum, Clamped, ahead, rest, exact
  <2> QED
    BY <2>5, <2>6, <2>7
<1>3. QED
  BY <1>1, <1>2

\* The factor is in [0, 1] and grows with time: between two ticks a sample
\* never leaves the segment of its two positions and never runs back on it.
THEOREM AlphaGrows ==
    ASSUME NEW a \in Nat, NEW b \in Nat, a <= b, NEW tick \in Nat
    PROVE  /\ AlphaNum(a, tick) \in 0..NsPerSecond
           /\ AlphaNum(a, tick) <= AlphaNum(b, tick)
<1> USE UnitsAssumption, RatesAssumption
<1>1. a * TickRate <= b * TickRate
  OBVIOUS
<1>2. a * TickRate \in Int /\ b * TickRate \in Int /\ tick * NsPerSecond \in Int
  OBVIOUS
<1>3. /\ ExactAlphaNum(a, tick) \in 0..NsPerSecond
      /\ ExactAlphaNum(a, tick) <= ExactAlphaNum(b, tick)
  BY <1>1, <1>2 DEF ExactAlphaNum, Clamped
<1>4. QED
  BY <1>3, AlphaExact

\* The frame deadlines never decrease and never exceed the largest time, also
\* where the 64-bit product is clamped.
THEOREM DeadlinesOrdered ==
    ASSUME NEW ref \in 0..TimeMax, NEW m \in Nat, NEW n \in Nat, m <= n
    PROVE  /\ Deadline(ref, m) \in ref..TimeMax
           /\ Deadline(ref, m) <= Deadline(ref, n)
<1> USE UnitsAssumption, RatesAssumption
<1> DEFINE p == Period
           top == (TimeMax - ref) \div p
<1>1. p \in Nat /\ p >= 1
  <2> DEFINE q == NsPerSecond \div FrameRate
             r == NsPerSecond % FrameRate
  <2>1. q \in Int /\ r \in 0..(FrameRate - 1) /\ NsPerSecond = q * FrameRate + r
    OBVIOUS
  <2> HIDE DEF q, r
  <2>2. q >= 1
    <3> SUFFICES ASSUME q <= 0 PROVE FALSE
      BY <2>1
    <3>1. q * FrameRate <= 0
      BY <2>1
    <3> QED
      BY <2>1, <3>1
  <2> QED
    BY <2>1, <2>2 DEF Period, q
<1> HIDE DEF p
<1>2. top \in Nat /\ top * p <= TimeMax - ref
  BY <1>1
<1> HIDE DEF top
<1>3. ASSUME NEW k \in Nat
      PROVE  Deadline(ref, k) = IF k > top THEN TimeMax ELSE ref + k * p
  BY DEF Deadline, top, p
<1>4. ASSUME NEW k \in Nat, k <= top
      PROVE  k * p \in Nat /\ k * p <= TimeMax - ref
  <2>1. k * p <= top * p /\ k * p \in Nat
    BY <1>1, <1>2, <1>4
  <2> QED
    BY <1>1, <1>2, <2>1
<1>5. m <= n /\ n <= top => m * p <= n * p
  BY <1>1
<1>6. QED
  BY <1>2, <1>3, <1>4, <1>5

-----------------------------------------------------------------------------
(* Times *)

\* Whole parts grow with what is divided.
LEMMA DivGrows ==
    ASSUME NEW a \in Nat, NEW b \in Nat, NEW d \in Nat \ {0}, a <= b
    PROVE  a \div d \in Nat /\ a \div d <= b \div d
<1> DEFINE p == a \div d
           q == b \div d
<1>1. /\ p \in Nat /\ a % d \in 0..(d - 1) /\ a = p * d + (a % d)
      /\ q \in Nat /\ b % d \in 0..(d - 1) /\ b = q * d + (b % d)
  OBVIOUS
<1> HIDE DEF p, q
<1>2. p * d < (q + 1) * d
  BY <1>1
<1>3. ASSUME p >= q + 1 PROVE FALSE
  <2>1. p * d >= (q + 1) * d
    BY <1>1, <1>3
  <2>2. p * d \in Int /\ (q + 1) * d \in Int
    BY <1>1
  <2>3. QED
    BY <1>2, <2>1, <2>2
<1>4. p <= q
  BY <1>1, <1>3
<1>5. QED
  BY <1>1, <1>4 DEF p, q

\* The rounded factor grows with the factor and is at most one.
LEMMA ScalarGrows ==
    ASSUME NEW a \in 0..NsPerSecond, NEW b \in 0..NsPerSecond, a <= b
    PROVE  ToScalar(a) \in 0..ScalarOne /\ ToScalar(a) <= ToScalar(b)
<1> USE UnitsAssumption
<1> DEFINE half == NsPerSecond \div 2
<1>1. half \in Nat /\ half < NsPerSecond
  OBVIOUS
<1> HIDE DEF half
<1>2. /\ a * ScalarOne \in Nat /\ b * ScalarOne \in Nat /\ NsPerSecond * ScalarOne \in Nat
      /\ a * ScalarOne <= b * ScalarOne /\ a * ScalarOne <= NsPerSecond * ScalarOne
  OBVIOUS
<1>3. ToScalar(a) \in Nat /\ ToScalar(a) <= ToScalar(b)
  <2>1. a * ScalarOne + half \in Nat /\ b * ScalarOne + half \in Nat
        /\ a * ScalarOne + half <= b * ScalarOne + half
    BY <1>1, <1>2
  <2>2. QED
    BY <2>1, DivGrows DEF ToScalar, half
<1>4. ToScalar(NsPerSecond) = ScalarOne
  <2> DEFINE x == NsPerSecond * ScalarOne + half
  <2>1. x = ScalarOne * NsPerSecond + half /\ x \in Int /\ half \in 0..(NsPerSecond - 1)
    BY <1>1, <1>2
  <2>2. x \div NsPerSecond = ScalarOne
    BY <2>1
  <2>3. QED
    BY <2>2 DEF ToScalar, half
<1>5. ToScalar(a) <= ToScalar(NsPerSecond)
  <2>1. a * ScalarOne + half \in Nat /\ NsPerSecond * ScalarOne + half \in Nat
        /\ a * ScalarOne + half <= NsPerSecond * ScalarOne + half
    BY <1>1, <1>2
  <2>2. QED
    BY <2>1, DivGrows DEF ToScalar, half
<1>6. QED
  BY <1>3, <1>4, <1>5

\* A factor of a time and a tick is in [0, 1] and grows with the time.
LEMMA FactorGrows ==
    ASSUME NEW a \in Nat, NEW b \in Nat, a <= b, NEW tick \in Nat
    PROVE  /\ ToScalar(AlphaNum(a, tick)) \in 0..ScalarOne
           /\ ToScalar(AlphaNum(a, tick)) <= ToScalar(AlphaNum(b, tick))
<1>1. AlphaNum(a, tick) \in 0..NsPerSecond /\ AlphaNum(a, tick) <= AlphaNum(b, tick)
  BY AlphaGrows
<1>2. b <= b
  OBVIOUS
<1>3. AlphaNum(b, tick) \in 0..NsPerSecond
  BY <1>2, AlphaGrows
<1>4. QED
  BY <1>1, <1>3, ScalarGrows

\* A frame's time is not before the sleep's end.
LEMMA FrameTimeIs ==
    ASSUME NEW f \in Nat, NEW slept \in 0..TimeMax
    PROVE  FrameTime(0, f, slept) \in Nat /\ FrameTime(0, f, slept) >= slept
<1>1. 0 \in 0..TimeMax /\ f <= f
  BY UnitsAssumption
<1>2. Deadline(0, f) \in 0..TimeMax
  BY <1>1, DeadlinesOrdered
<1>3. QED
  BY <1>2, UnitsAssumption DEF FrameTime

-----------------------------------------------------------------------------
(* Generations and handles *)

\* Among the first generations of a slot no two are equal.
LEMMA GenerationsApart ==
    ASSUME NEW k \in Nat \ {0}, NEW n \in Nat \ {0}, k <= n, n < GenerationMod,
           NthGeneration(k) = NthGeneration(n)
    PROVE  k = n
<1>1. Cycle \in Nat \ {0} /\ GenerationMod = Cycle + 1
  BY GenerationAssumption DEF Cycle
<1>2. (n - k) % Cycle = 0
  BY SameGeneration
<1>3. n - k \in 0..(Cycle - 1) /\ n - k = 0 * Cycle + (n - k)
  BY <1>1
<1>4. (n - k) % Cycle = n - k
  BY <1>1, <1>3, ModUnique
<1>5. QED
  BY <1>2, <1>3, <1>4

\* A step of the world gives a slot one more handle, or none.
LEMMA HandlesGrow ==
    ASSUME FreeInv, HandleInv, HandleInv', [Next]_vars, NEW s \in Slots
    PROVE  /\ Len(issued[s]) \in Nat /\ Len(issued'[s]) \in Nat
           /\ issued'[s] # issued[s] => Len(issued'[s]) = Len(issued[s]) + 1
<1>1. issued[s] \in Seq(Nat) /\ issued'[s] \in Seq(Nat) /\ generations \in [Slots -> Nat]
  BY DEF HandleInv
<1>2. Len(issued[s]) \in Nat /\ Len(issued'[s]) \in Nat
  BY <1>1, LenProperties
<1>3. ASSUME Create, issued'[s] # issued[s] PROVE Len(issued'[s]) = Len(issued[s]) + 1
  <2> DEFINE t == Last(freeStack)
  <2>1. issued' = [issued EXCEPT ![t] = Append(issued[t], generations[t])]
    BY <1>3 DEF Create
  <2>2. issued \in [Slots -> Seq(Nat)]
    BY DEF HandleInv
  <2> HIDE DEF t
  <2>3. s = t /\ issued'[s] = Append(issued[s], generations[s])
    BY <1>3, <2>1, <2>2
  <2>4. generations[s] \in Nat
    BY <1>1
  <2>5. QED
    BY <1>1, <2>3, <2>4, AppendProperties
<1>4. UNCHANGED issued => issued'[s] = issued[s]
  OBVIOUS
<1>5. \/ Create \/ UNCHANGED issued
  BY SlotActions DEF BeginFrame, Destroy, ClearBegin, ClearSlot, ClearEnd
<1>6. QED
  BY <1>2, <1>3, <1>4, <1>5

\* What a tick finds at a slot with a position.
LEMMA PositionIs ==
    ASSUME WorldInv, NEW s \in Slots, HasPosition(s)
    PROVE  /\ StoredOf(s) = written[s] /\ StoredOf(s)[Position] \in Values
           /\ Len(issued[s]) \in Nat \ {0} /\ generations[s] = NthGeneration(Len(issued[s]))
           /\ generations[s] \in 0..(GenerationMod - 1)
<1>1. alive[s] /\ Position \in SignatureOf(s)
  BY DEF HasPosition
<1>2. SignatureOf(s) = DOMAIN written[s] /\ StoredOf(s) = written[s]
  BY <1>1, StoredIsWritten DEF WorldInv
<1>3. written[s] \in Datas
  BY DEF WorldInv, StoreInv, StoreTypes
<1>4. StoredOf(s)[Position] \in Values
  BY <1>1, <1>2, <1>3 DEF Datas
<1>5. issued[s] \in Seq(Nat) /\ Len(issued[s]) > 0
  BY <1>1 DEF WorldInv, HandleInv
<1>6. Len(issued[s]) \in Nat \ {0}
  BY <1>5, LenProperties
<1>7. generations[s] = NthGeneration(Len(issued[s]))
  BY <1>1, <1>6 DEF WorldInv, HandleInv
<1>8. generations[s] \in 1..Cycle
  BY <1>6, <1>7, BumpIsNext
<1>9. QED
  BY <1>2, <1>4, <1>6, <1>7, <1>8, GenerationAssumption DEF Cycle

-----------------------------------------------------------------------------
(* Steps *)

\* A completed tick: a record of the entity's own is carried on, any other is begun anew.
LEMMA TickKeepsRecords == ASSUME WorldInv, RecordsInv, OnTick PROVE RecordsInv'
<1>1. /\ records' = [s \in Slots |-> IF HasPosition(s) THEN Refreshed(s) ELSE records[s]]
      /\ occupant' = [s \in Slots |-> IF HasPosition(s) THEN Len(issued[s]) ELSE occupant[s]]
      /\ tickPositions' = [s \in Slots |->
             IF HasPosition(s) THEN tickPositions[s] \cup {StoredOf(s)[Position]}
             ELSE tickPositions[s]]
      /\ issued' = issued
  BY DEF OnTick, vars
<1>2. ASSUME NEW s \in Slots
      PROVE  /\ records'[s] \in Records /\ occupant'[s] \in Nat
             /\ tickPositions'[s] \in SUBSET Values
             /\ MadeFor(records'[s], occupant'[s], Len(issued'[s]), tickPositions'[s])
  <2>1. CASE ~HasPosition(s)
    BY <1>1, <2>1 DEF RecordsInv
  <2>2. CASE HasPosition(s)
    <3> DEFINE now == StoredOf(s)[Position]
               n == Len(issued[s])
    <3>1. now \in Values /\ n \in Nat \ {0} /\ generations[s] = NthGeneration(n)
          /\ generations[s] \in 0..(GenerationMod - 1)
      BY <2>2, PositionIs
    <3>2. /\ records[s] \in Records /\ tickPositions[s] \in SUBSET Values
          /\ MadeFor(records[s], occupant[s], n, tickPositions[s])
      BY DEF RecordsInv
    <3>3. /\ records'[s] = Refreshed(s) /\ occupant'[s] = n
          /\ tickPositions'[s] = tickPositions[s] \cup {now} /\ issued'[s] = issued[s]
      BY <1>1, <2>2
    <3> HIDE DEF n
    <3>4. ASSUME Known(s), n < GenerationMod PROVE records[s].curr \in tickPositions[s]
      <4>1. occupant[s] \in 1..n /\ NthGeneration(occupant[s]) = NthGeneration(n)
        BY <3>1, <3>2, <3>4 DEF Known, MadeFor
      <4>2. occupant[s] \in Nat \ {0} /\ occupant[s] <= n
        BY <3>1, <4>1
      <4>3. occupant[s] = n
        BY <3>1, <3>4, <4>1, <4>2, GenerationsApart
      <4>4. QED
        BY <3>2, <3>4, <4>3 DEF Known, MadeFor
    <3> DEFINE prev == IF Known(s) THEN records[s].curr ELSE now
    <3>5. records'[s] = [prev |-> prev, curr |-> now, generation |-> generations[s], active |-> TRUE]
      BY <3>3 DEF Refreshed
    <3>6. prev \in Values /\ (n < GenerationMod => prev \in tickPositions[s] \cup {now})
      BY <3>1, <3>2, <3>4 DEF Records
    <3> HIDE DEF prev, now
    <3>7. records'[s] \in Records
      BY <3>1, <3>5, <3>6 DEF Records
    <3>8. MadeFor(records'[s], n, n, tickPositions[s] \cup {now})
      BY <3>1, <3>5, <3>6 DEF MadeFor
    <3>9. Len(issued'[s]) = n
      BY <3>3 DEF n
    <3>10. QED
      BY <3>1, <3>2, <3>3, <3>7, <3>8, <3>9
  <2>3. QED
    BY <2>1, <2>2
<1>3. /\ records' \in [Slots -> Records] /\ occupant' \in [Slots -> Nat]
      /\ tickPositions' \in [Slots -> SUBSET Values]
  BY <1>1, <1>2
<1>4. QED
  BY <1>2, <1>3 DEF RecordsInv

\* The world's own steps: a new entity has no record, every other keeps the one it had.
LEMMA WorldKeepsRecords ==
    ASSUME WorldInv, WorldInv', RecordsInv, WorldStep
    PROVE  RecordsInv'
<1>1. /\ records' = records /\ occupant' = occupant /\ [Next]_vars
      /\ tickPositions' = [s \in Slots |-> IF issued'[s] = issued[s] THEN tickPositions[s] ELSE {}]
  BY DEF WorldStep, snapshotVars
<1>2. ASSUME NEW s \in Slots
      PROVE  MadeFor(records'[s], occupant'[s], Len(issued'[s]), tickPositions'[s])
  <2>1. MadeFor(records[s], occupant[s], Len(issued[s]), tickPositions[s])
    BY DEF RecordsInv
  <2>2. CASE issued'[s] = issued[s]
    BY <1>1, <2>1, <2>2
  <2>3. CASE issued'[s] # issued[s]
    <3>1. Len(issued[s]) \in Nat /\ Len(issued'[s]) = Len(issued[s]) + 1
      BY <1>1, <2>3, HandlesGrow DEF WorldInv
    <3>2. QED
      BY <1>1, <2>1, <3>1 DEF MadeFor
  <2>4. QED
    BY <2>2, <2>3
<1>3. tickPositions' \in [Slots -> SUBSET Values]
  BY <1>1 DEF RecordsInv
<1>4. QED
  BY <1>1, <1>2, <1>3 DEF RecordsInv

\* A rendered frame shows no earlier picture.
LEMMA FrameAdvances == ASSUME FrameInv, RenderFrame PROVE FrameInv' /\ shown' >= shown
<1>1. PICK f \in (frame + 1)..MaxFrames, slept \in renderNs..TimeMax :
        /\ frame' = f /\ renderNs' = FrameTime(0, f, slept)
        /\ alpha' = ToScalar(AlphaNum(FrameTime(0, f, slept), lastTick))
  BY DEF RenderFrame
<1>2. /\ valid /\ lastTick' = lastTick /\ valid' = valid
      /\ shown' = lastTick * ScalarOne + alpha'
  BY DEF RenderFrame
<1>3. /\ frame \in Nat /\ renderNs \in Nat /\ lastTick \in Nat /\ shown \in Nat
      /\ shown <= lastTick * ScalarOne + ToScalar(AlphaNum(renderNs, lastTick))
      /\ lastTick \in 0..MaxTicks
  BY <1>2, BoundsAssumption DEF FrameInv
<1>4. f \in Nat /\ f \in 0..MaxFrames /\ slept \in 0..TimeMax /\ slept >= renderNs
  BY <1>3, BoundsAssumption, UnitsAssumption
<1>5. renderNs' \in Nat /\ renderNs <= renderNs'
  BY <1>1, <1>3, <1>4, FrameTimeIs, UnitsAssumption
<1>6. alpha' = ToScalar(AlphaNum(renderNs', lastTick))
  BY <1>1
<1>7. /\ ToScalar(AlphaNum(renderNs, lastTick)) \in 0..ScalarOne
      /\ ToScalar(AlphaNum(renderNs, lastTick)) <= ToScalar(AlphaNum(renderNs', lastTick))
  BY <1>3, <1>5, FactorGrows
<1>8. alpha' \in 0..ScalarOne
  <2>1. renderNs' <= renderNs'
    BY <1>5
  <2>2. QED
    BY <1>3, <1>5, <1>6, <2>1, FactorGrows
<1> DEFINE whole == lastTick * ScalarOne
           was == ToScalar(AlphaNum(renderNs, lastTick))
<1>9. whole \in Nat
  BY <1>3, UnitsAssumption
<1> HIDE DEF whole, was
<1>10. was \in 0..ScalarOne /\ was <= alpha' /\ shown <= whole + was /\ shown' = whole + alpha'
  BY <1>2, <1>3, <1>6, <1>7 DEF whole, was
<1>11. shown' \in Nat /\ shown' >= shown
  <2>1. alpha' \in Nat /\ was \in Nat /\ shown \in Nat
    BY <1>3, <1>8, <1>10, UnitsAssumption
  <2>2. \A x, w, a, b \in Nat : x <= w + a /\ a <= b => w + b \in Nat /\ w + b >= x
    OBVIOUS
  <2>3. QED
    BY ONLY <1>9, <1>10, <2>1, <2>2
<1>12. shown' <= lastTick' * ScalarOne + ToScalar(AlphaNum(renderNs', lastTick'))
  BY <1>2, <1>6, <1>11
<1>13. QED
  BY <1>1, <1>2, <1>3, <1>4, <1>5, <1>8, <1>11, <1>12 DEF FrameInv

\* A completed tick leaves what was shown behind.
LEMMA TickAdvances == ASSUME FrameInv, OnTick PROVE FrameInv'
<1>1. /\ valid /\ lastTick < MaxTicks /\ lastTick' = lastTick + 1
      /\ UNCHANGED <<alpha, valid, frame, renderNs, shown>>
  BY DEF OnTick
<1>2. /\ lastTick \in Nat /\ renderNs \in Nat /\ shown \in Nat
      /\ shown <= lastTick * ScalarOne + ToScalar(AlphaNum(renderNs, lastTick))
  BY <1>1, BoundsAssumption DEF FrameInv
<1>3. /\ ToScalar(AlphaNum(renderNs, lastTick)) \in 0..ScalarOne
      /\ ToScalar(AlphaNum(renderNs, lastTick + 1)) \in 0..ScalarOne
  <2>1. renderNs <= renderNs /\ lastTick + 1 \in Nat
    BY <1>2
  <2>2. QED
    BY <1>2, <2>1, FactorGrows
<1>4. (lastTick + 1) * ScalarOne = lastTick * ScalarOne + ScalarOne /\ lastTick * ScalarOne \in Nat
  BY <1>2, UnitsAssumption
<1> DEFINE was == ToScalar(AlphaNum(renderNs, lastTick))
           is == ToScalar(AlphaNum(renderNs, lastTick + 1))
           whole == lastTick * ScalarOne
           next == (lastTick + 1) * ScalarOne
<1>5. /\ was \in 0..ScalarOne /\ is \in 0..ScalarOne /\ whole \in Nat /\ next = whole + ScalarOne
      /\ shown \in Nat /\ shown <= whole + was
  BY <1>2, <1>3, <1>4
<1> HIDE DEF was, is, whole, next
<1>6. shown <= next + is
  BY <1>5, UnitsAssumption
<1>7. shown' <= lastTick' * ScalarOne + ToScalar(AlphaNum(renderNs', lastTick'))
  BY <1>1, <1>6 DEF is, next
<1>8. lastTick' \in 0..MaxTicks
  BY <1>1, <1>2, BoundsAssumption
<1>9. QED
  BY <1>1, <1>7, <1>8 DEF FrameInv

\* Every step keeps what is known of the snapshot.
LEMMA PresentationKeeps == PresentationInv /\ [PresentationNext]_allVars => PresentationInv'
<1> SUFFICES ASSUME WorldInv, RecordsInv, FrameInv, [PresentationNext]_allVars
             PROVE  WorldInv' /\ RecordsInv' /\ FrameInv'
    BY DEF PresentationInv
<1>1. CASE OnTick
  <2>1. WorldInv'
    <3>1. UNCHANGED vars
      BY <1>1 DEF OnTick
    <3>2. QED
      BY <3>1, WorldKeeps
  <2>2. QED
    BY <1>1, <2>1, TickKeepsRecords, TickAdvances
<1>2. CASE RenderFrame
  <2>1. UNCHANGED <<vars, records, occupant, tickPositions>>
    BY <1>2 DEF RenderFrame
  <2>2. WorldInv'
    BY <2>1, WorldKeeps
  <2>3. RecordsInv'
    BY <2>1 DEF RecordsInv, vars
  <2>4. QED
    BY <1>2, <2>2, <2>3, FrameAdvances
<1>3. CASE MoveFrom
  <2>1. UNCHANGED <<vars, records, occupant, tickPositions, alpha, frame, renderNs, shown>>
        /\ lastTick' = 0 /\ ~valid'
    BY <1>3 DEF MoveFrom, historyVars
  <2>2. WorldInv'
    BY <2>1, WorldKeeps
  <2>3. RecordsInv'
    BY <2>1 DEF RecordsInv, vars
  <2>4. FrameInv'
    BY <2>1, BoundsAssumption DEF FrameInv
  <2>5. QED
    BY <2>2, <2>3, <2>4
<1>4. CASE WorldStep
  <2>1. WorldInv'
    BY <1>4, WorldKeeps DEF WorldStep
  <2>2. FrameInv'
    BY <1>4 DEF WorldStep, snapshotVars, FrameInv
  <2>3. QED
    BY <1>4, <2>1, <2>2, WorldKeepsRecords
<1>5. CASE UNCHANGED allVars
  <2>1. UNCHANGED <<vars, records, occupant, tickPositions, alpha, frame, renderNs, shown, lastTick, valid>>
    BY <1>5 DEF allVars, presentationVars, snapshotVars, historyVars
  <2>2. WorldInv'
    BY <2>1, WorldKeeps
  <2>3. QED
    BY <2>1, <2>2 DEF RecordsInv, FrameInv, vars
<1>6. QED
  BY <1>1, <1>2, <1>3, <1>4, <1>5 DEF PresentationNext

\* A new snapshot knows of no entity.
LEMMA PresentationBegins == PresentationInit => PresentationInv
<1> SUFFICES ASSUME PresentationInit PROVE PresentationInv
    OBVIOUS
<1>1. WorldInv
  BY WorldBegins DEF PresentationInit
<1>2. RecordsInv
  <2>1. PICK v \in Values : records = [s \in Slots |-> Unseen(v)]
    BY DEF PresentationInit
  <2>2. Unseen(v) \in Records /\ ~Unseen(v).active
    BY GenerationAssumption DEF Unseen, Records
  <2>3. occupant = [s \in Slots |-> 0] /\ tickPositions = [s \in Slots |-> {}]
    BY DEF PresentationInit
  <2> HIDE DEF Unseen
  <2>4. QED
    BY <2>1, <2>2, <2>3 DEF RecordsInv, MadeFor
<1>3. FrameInv
  <2>1. /\ lastTick = 0 /\ alpha = 0 /\ frame = 0 /\ renderNs = 0 /\ shown = 0
    BY DEF PresentationInit
  <2>2. ToScalar(AlphaNum(0, 0)) \in 0..ScalarOne
    BY FactorGrows
  <2>3. QED
    BY <2>1, <2>2, BoundsAssumption, UnitsAssumption DEF FrameInv
<1>4. QED
  BY <1>1, <1>2, <1>3 DEF PresentationInv

-----------------------------------------------------------------------------
\* What sample_position shows of an entity are positions that entity held at ends of ticks, or holds
\* now, whatever happened to its slot between ticks, as long as no slot has gone round all its
\* generations: then an entity may show the past of another, as the handles of one may be taken for
\* the other's.
THEOREM SamplesAreItsOwn == PresentationSpec => [](NoneGoneRound => SampleMixesOneEntity)
<1>1. PresentationInv /\ NoneGoneRound => SampleMixesOneEntity
  <2> SUFFICES ASSUME WorldInv, RecordsInv, FrameInv, NoneGoneRound PROVE SampleMixesOneEntity
      BY DEF PresentationInv
  <2>1. PresentationTypeOK
    BY DEF RecordsInv, Records, FrameInv, PresentationTypeOK
  <2>2. ASSUME NEW s \in Slots, Sample(s) # Fails
        PROVE  IF Known(s)
               THEN /\ occupant[s] = Len(issued[s])
                    /\ records[s].prev \in tickPositions[s]
                    /\ records[s].curr \in tickPositions[s]
               ELSE Sample(s)[1] = written[s][Position]
    <3> DEFINE n == Len(issued[s])
    <3>1. valid /\ HasPosition(s)
      BY <2>2 DEF Sample
    <3>2. StoredOf(s) = written[s] /\ n \in Nat \ {0} /\ generations[s] = NthGeneration(n)
      BY <3>1, PositionIs
    <3>3. n < GenerationMod /\ MadeFor(records[s], occupant[s], n, tickPositions[s])
      BY DEF NoneGoneRound, RecordsInv
    <3> HIDE DEF n
    <3>4. CASE Known(s)
      <4>1. occupant[s] \in 1..n /\ NthGeneration(occupant[s]) = NthGeneration(n)
        BY <3>2, <3>3, <3>4 DEF Known, MadeFor
      <4>2. occupant[s] \in Nat \ {0} /\ occupant[s] <= n
        BY <3>2, <4>1
      <4>3. occupant[s] = n
        BY <3>2, <3>3, <4>1, <4>2, GenerationsApart
      <4>4. QED
        BY <3>3, <3>4, <4>3 DEF Known, MadeFor, n
    <3>5. CASE ~Known(s)
      BY <3>1, <3>2, <3>5 DEF Sample
    <3>6. QED
      BY <3>4, <3>5
  <2>3. QED
    BY <2>1, <2>2 DEF SampleMixesOneEntity
<1>2. QED
  BY PresentationBegins, PresentationKeeps, <1>1, PTL DEF PresentationSpec

\* From frame to frame the picture never runs backwards, for every rate, however late the frames
\* come and however many are skipped, and whatever ticks complete in between.
THEOREM PictureNeverRunsBack == PresentationSpec => PictureAdvances
<1>1. PresentationInv /\ [PresentationNext]_allVars => [shown' >= shown]_allVars
  <2> SUFFICES ASSUME FrameInv, [PresentationNext]_allVars PROVE [shown' >= shown]_allVars
      BY DEF PresentationInv
  <2>1. shown \in Nat
    BY DEF FrameInv
  <2>2. CASE RenderFrame
    BY <2>2, FrameAdvances
  <2>3. CASE OnTick \/ MoveFrom \/ WorldStep
    BY <2>1, <2>3 DEF OnTick, MoveFrom, WorldStep, historyVars
  <2>4. QED
    BY <2>2, <2>3 DEF PresentationNext
<1>2. QED
  BY PresentationBegins, PresentationKeeps, <1>1, PTL DEF PresentationSpec, PictureAdvances
=============================================================================
