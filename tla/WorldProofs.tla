----------------------------- MODULE WorldProofs -----------------------------
(***************************************************************************)
(* Theorems about World for every capacity, width of the generation, set of *)
(* components and values, and number of archetypes and of entities created: *)
(* the free stack holds the dead slots, each once; a handle that create()   *)
(* gave out is refused once its entity is dead, until the generation has    *)
(* gone all the way round; the budget warnings are those of the peak        *)
(* population; the rows, the index and the values written agree at every    *)
(* moment; and an each() visits what matched when it began, each once.      *)
(***************************************************************************)
EXTENDS World, FiniteSetTheorems, SequenceTheorems, TLAPS

AliveSlots == {s \in Slots : alive[s]}

\* A partition of the slots by a stack without repetition, as FreeStackPartition states it.
Partitioned ==
    /\ alive \in [Slots -> BOOLEAN] /\ freeStack \in Seq(Slots)
    /\ \A i, j \in DOMAIN freeStack : freeStack[i] = freeStack[j] => i = j
    /\ ToSet(freeStack) = {s \in Slots : ~alive[s]}

\* The count is that of the live slots unless clear() runs, which leaves dead slots behind it.
FreeInv ==
    /\ Partitioned
    /\ inUse \in Int /\ clearing \in -1..Capacity
    /\ \A s \in Slots : s < clearing => ~alive[s]
    /\ NotClearing => inUse = Cardinality(AliveSlots)

\* The generations a slot goes through: 1 to GenerationMod - 1 and round again.
Cycle == GenerationMod - 1
NthGeneration(n) == 1 + ((n - 1) % Cycle)

\* A slot is in its n-th generation from the n-th handle it gave out until the release.
HandleInv ==
    /\ issued \in [Slots -> Seq(Nat)] /\ generations \in [Slots -> Nat]
    /\ \A s \in Slots : \A k \in 1..Len(issued[s]) : issued[s][k] = NthGeneration(k)
    /\ \A s \in Slots :
         generations[s] = NthGeneration(Len(issued[s]) + (IF alive[s] THEN 0 ELSE 1))
    /\ \A s \in Slots : alive[s] => Len(issued[s]) > 0

\* The population never passes the peak, and what was warned of this frame was warned of.
BudgetInv ==
    /\ inUse \in Int /\ peakInUse \in Nat /\ inUse <= peakInUse
    /\ warnedThisFrame \subseteq warnedEver
    /\ BudgetWarnsMatchPeak

-----------------------------------------------------------------------------
(* Generations *)

\* A remainder is known by its defining equation.
LEMMA ModUnique ==
    ASSUME NEW m \in Nat \ {0}, NEW q \in Int, NEW r \in 0..(m - 1), NEW x \in Int,
           x = q * m + r
    PROVE  x % m = r
<1> DEFINE p == x \div m
           t == x % m
<1>1. p \in Int /\ t \in 0..(m - 1) /\ x = p * m + t
  OBVIOUS
<1> HIDE DEF p, t
<1>2. (q - p) * m = t - r
  BY <1>1
<1>3. q - p \in Int /\ t - r < m /\ t - r > -m
  BY <1>1
<1>4. q - p < 1
  <2> SUFFICES ASSUME q - p >= 1 PROVE FALSE
    BY <1>3
  <2>1. (q - p) * m >= m
    BY <1>3
  <2> QED
    BY <1>2, <1>3, <2>1
<1>5. q - p > -1
  <2> SUFFICES ASSUME q - p <= -1 PROVE FALSE
    BY <1>3
  <2>1. (q - p) * m <= -m
    BY <1>3
  <2> QED
    BY <1>2, <1>3, <2>1
<1>6. q = p
  BY <1>1, <1>4, <1>5
<1>7. t = r
  BY <1>1, <1>6
<1>8. QED
  BY <1>7 DEF t

\* bumpGeneration goes from one generation of the cycle to the next.
LEMMA BumpIsNext ==
    ASSUME NEW n \in Nat \ {0}
    PROVE  /\ NthGeneration(n) \in 1..Cycle
           /\ BumpGeneration(NthGeneration(n)) = NthGeneration(n + 1)
<1> USE GenerationAssumption
<1> DEFINE q == (n - 1) \div Cycle
           r == (n - 1) % Cycle
<1>1. Cycle \in Nat \ {0} /\ GenerationMod = Cycle + 1 /\ GenerationMod \in Nat \ {0}
  BY DEF Cycle
<1>2. q \in Int /\ r \in 0..(Cycle - 1) /\ n - 1 = q * Cycle + r
  BY <1>1
<1>3. NthGeneration(n) = 1 + r /\ NthGeneration(n + 1) = 1 + (n % Cycle)
  BY DEF NthGeneration
<1> HIDE DEF q, r
<1>4. CASE r + 1 < Cycle
  <2>1. n % Cycle = r + 1
    BY <1>1, <1>2, <1>4, ModUnique
  <2>2. (r + 2) % GenerationMod = r + 2
    <3>1. r + 2 = 0 * GenerationMod + (r + 2) /\ r + 2 \in 0..(GenerationMod - 1)
      BY <1>1, <1>2, <1>4
    <3> QED
      BY <1>1, <1>2, <3>1, ModUnique
  <2> QED
    BY <1>1, <1>2, <1>3, <2>1, <2>2 DEF BumpGeneration
<1>5. CASE r + 1 = Cycle
  <2>1. n = (q + 1) * Cycle + 0
    BY <1>1, <1>2, <1>5
  <2>2. n % Cycle = 0
    BY <1>1, <1>2, <2>1, ModUnique
  <2>3. (r + 2) % GenerationMod = 0
    <3>1. r + 2 = 1 * GenerationMod + 0
      BY <1>1, <1>2, <1>5
    <3> QED
      BY <1>1, <1>2, <3>1, ModUnique
  <2> QED
    BY <1>1, <1>2, <1>3, <2>2, <2>3 DEF BumpGeneration
<1>6. QED
  BY <1>1, <1>2, <1>3, <1>4, <1>5

\* Two equal generations of a slot are whole rounds apart.
LEMMA SameGeneration ==
    ASSUME NEW k \in Nat \ {0}, NEW n \in Nat \ {0}, NthGeneration(k) = NthGeneration(n)
    PROVE  (n - k) % Cycle = 0
<1> USE GenerationAssumption
<1> DEFINE p == (k - 1) \div Cycle
           q == (n - 1) \div Cycle
           r == (k - 1) % Cycle
           t == (n - 1) % Cycle
<1>1. Cycle \in Nat \ {0}
  BY DEF Cycle
<1>2. /\ p \in Int /\ r \in 0..(Cycle - 1) /\ k - 1 = p * Cycle + r
      /\ q \in Int /\ t \in 0..(Cycle - 1) /\ n - 1 = q * Cycle + t
  BY <1>1
<1>3. r = t
  BY <1>1, <1>2 DEF NthGeneration
<1> HIDE DEF p, q, r, t
<1>4. n - k = (q - p) * Cycle + 0
  BY <1>1, <1>2, <1>3
<1>5. q - p \in Int /\ n - k \in Int /\ 0 \in 0..(Cycle - 1)
  BY <1>1, <1>2
<1>6. QED
  BY <1>1, <1>4, <1>5, ModUnique

-----------------------------------------------------------------------------
(* The free stack *)

\* The live slots can be counted.
LEMMA AliveFinite == IsFiniteSet(AliveSlots)
<1>1. IsFiniteSet(Slots)
  BY CapacityAssumption, FS_Interval DEF Slots
<1>2. QED
  BY <1>1, FS_Subset DEF AliveSlots

\* Releasing a live slot pushes it: no slot is on the stack twice.
LEMMA PushKeeps ==
    ASSUME Partitioned, NEW s \in Slots, alive[s],
           alive' = [alive EXCEPT ![s] = FALSE], freeStack' = Append(freeStack, s)
    PROVE  /\ Partitioned'
           /\ Cardinality(AliveSlots') = Cardinality(AliveSlots) - 1
<1> DEFINE n == Len(freeStack)
<1>1. /\ n \in Nat /\ DOMAIN freeStack = 1..n
      /\ \A i \in 1..n : freeStack[i] \in Slots /\ ~alive[freeStack[i]]
  BY DEF Partitioned, ToSet
<1>2. /\ freeStack' \in Seq(Slots) /\ DOMAIN freeStack' = 1..(n + 1)
      /\ \A i \in 1..n : freeStack'[i] = freeStack[i]
      /\ freeStack'[n + 1] = s
  BY <1>1, AppendProperties DEF Partitioned
<1>3. /\ alive' \in [Slots -> BOOLEAN] /\ ~alive'[s]
      /\ \A t \in Slots \ {s} : alive'[t] = alive[t]
  BY DEF Partitioned
<1> HIDE DEF n
<1>4. \A i, j \in DOMAIN freeStack' : freeStack'[i] = freeStack'[j] => i = j
  <2> SUFFICES ASSUME NEW i \in 1..(n + 1), NEW j \in 1..(n + 1), freeStack'[i] = freeStack'[j]
               PROVE  i = j
      BY <1>2
  <2>1. CASE i \in 1..n /\ j \in 1..n
    BY <1>1, <1>2, <2>1 DEF Partitioned
  <2>2. CASE i = n + 1 /\ j \in 1..n
    BY <1>1, <1>2, <2>2
  <2>3. CASE j = n + 1 /\ i \in 1..n
    BY <1>1, <1>2, <2>3
  <2>4. QED
    BY <1>1, <2>1, <2>2, <2>3
<1>5. ToSet(freeStack') = ToSet(freeStack) \cup {s}
  <2>1. \A i \in DOMAIN freeStack' : freeStack'[i] \in ToSet(freeStack) \cup {s}
    BY <1>1, <1>2 DEF ToSet
  <2>2. \A i \in DOMAIN freeStack : freeStack[i] \in ToSet(freeStack')
    BY <1>1, <1>2 DEF ToSet
  <2>3. s \in ToSet(freeStack')
    BY <1>1, <1>2 DEF ToSet
  <2>4. QED
    BY <2>1, <2>2, <2>3 DEF ToSet
<1>6. {t \in Slots : ~alive'[t]} = {t \in Slots : ~alive[t]} \cup {s}
  BY <1>3
<1>7. Partitioned'
  BY <1>2, <1>3, <1>4, <1>5, <1>6 DEF Partitioned
<1>8. AliveSlots' = AliveSlots \ {s} /\ s \in AliveSlots
  BY <1>3 DEF AliveSlots
<1>9. QED
  BY <1>7, <1>8, AliveFinite, FS_RemoveElement

\* Creating pops a slot, which was dead.
LEMMA PopKeeps ==
    ASSUME Partitioned, freeStack # <<>>,
           alive' = [alive EXCEPT ![Last(freeStack)] = TRUE],
           freeStack' = Front(freeStack)
    PROVE  /\ Last(freeStack) \in Slots /\ ~alive[Last(freeStack)]
           /\ Partitioned'
           /\ Cardinality(AliveSlots') = Cardinality(AliveSlots) + 1
<1> DEFINE n == Len(freeStack)
           s == Last(freeStack)
<1>1. /\ n \in Nat \ {0} /\ DOMAIN freeStack = 1..n
      /\ \A i \in 1..n : freeStack[i] \in Slots /\ ~alive[freeStack[i]]
  BY DEF Partitioned, ToSet
<1>2. s = freeStack[n] /\ s \in Slots /\ ~alive[s]
  BY <1>1 DEF Last
<1>3. /\ freeStack' \in Seq(Slots) /\ DOMAIN freeStack' = 1..(n - 1)
      /\ \A i \in 1..(n - 1) : freeStack'[i] = freeStack[i]
  <2>1. \A i \in 1..(n - 1) : freeStack[i] \in Slots
    BY <1>1
  <2>2. freeStack' = SubSeq(freeStack, 1, n - 1)
    BY DEF Front
  <2> HIDE DEF n
  <2>3. /\ freeStack' \in Seq(Slots) /\ Len(freeStack') = n - 1
        /\ \A i \in 1..(n - 1) : freeStack'[i] = freeStack[i]
    BY <1>1, <2>1, <2>2, SubSeqProperties
  <2> QED
    BY <1>1, <2>3
<1> HIDE DEF n, s
<1>4. /\ alive' \in [Slots -> BOOLEAN] /\ alive'[s]
      /\ \A t \in Slots \ {s} : alive'[t] = alive[t]
  BY <1>2 DEF Partitioned, s
<1>5. \A i, j \in DOMAIN freeStack' : freeStack'[i] = freeStack'[j] => i = j
  BY <1>1, <1>3 DEF Partitioned
<1>6. ToSet(freeStack') = ToSet(freeStack) \ {s}
  <2>1. \A i \in 1..(n - 1) : freeStack[i] # s
    BY <1>1, <1>2 DEF Partitioned
  <2>2. \A i \in DOMAIN freeStack' : freeStack'[i] \in ToSet(freeStack) \ {s}
    BY <1>1, <1>3, <2>1 DEF ToSet
  <2>3. \A i \in DOMAIN freeStack : freeStack[i] # s => freeStack[i] \in ToSet(freeStack')
    <3> SUFFICES ASSUME NEW i \in 1..n, freeStack[i] # s PROVE freeStack[i] \in ToSet(freeStack')
        BY <1>1
    <3>1. i \in 1..(n - 1)
      BY <1>1, <1>2
    <3> QED
      BY <1>3, <3>1 DEF ToSet
  <2>4. QED
    BY <2>2, <2>3 DEF ToSet
<1>7. {t \in Slots : ~alive'[t]} = {t \in Slots : ~alive[t]} \ {s}
  BY <1>4
<1>8. Partitioned'
  BY <1>3, <1>4, <1>5, <1>6, <1>7 DEF Partitioned
<1>9. AliveSlots' = AliveSlots \cup {s} /\ s \notin AliveSlots
  BY <1>2, <1>4 DEF AliveSlots
<1>10. QED
  BY <1>2, <1>8, <1>9, AliveFinite, FS_AddElement DEF s

-----------------------------------------------------------------------------
(* The invariants *)

\* Only these actions touch a slot or its handles.
LEMMA SlotActions ==
    ASSUME [Next]_vars
    PROVE  \/ Create \/ BeginFrame \/ \E s \in Slots : Destroy(s)
           \/ ClearBegin \/ ClearSlot \/ ClearEnd
           \/ UNCHANGED <<slotVars, issued>>
<1>1. ASSUME NEW s \in Slots, NEW c \in Components, NEW v \in Values,
             AddInPlace(s, c, v) \/ AddComponent(s, c, v)
      PROVE  UNCHANGED <<slotVars, issued>>
  BY <1>1 DEF AddInPlace, AddComponent
<1>2. ASSUME NEW s \in Slots, NEW c \in Components,
             RemoveComponent(s, c) \/ RemoveLastComponent(s, c)
      PROVE  UNCHANGED <<slotVars, issued>>
  BY <1>2 DEF RemoveComponent, RemoveLastComponent
<1>3. ASSUME NEW q, NEW readOnly, EachBegin(q, readOnly) PROVE UNCHANGED <<slotVars, issued>>
  BY <1>3 DEF EachBegin
<1>4. EachVisit \/ EachNextArchetype \/ EachEnd => UNCHANGED <<slotVars, issued>>
  BY DEF EachVisit, EachNextArchetype, EachEnd
<1>5. UNCHANGED vars => UNCHANGED <<slotVars, issued>>
  BY DEF vars
<1>6. QED
  BY <1>1, <1>2, <1>3, <1>4, <1>5 DEF Next

\* Every step keeps the free stack.
LEMMA FreeStep == FreeInv /\ [Next]_vars => FreeInv'
<1> SUFFICES ASSUME FreeInv, [Next]_vars PROVE FreeInv'
    OBVIOUS
<1> USE CapacityAssumption DEF Slots, budgetVars
<1>1. CASE Create
  <2>1. /\ clearing = -1 /\ UNCHANGED clearing /\ inUse' = inUse + 1 /\ freeStack # <<>>
        /\ alive' = [alive EXCEPT ![Last(freeStack)] = TRUE] /\ freeStack' = Front(freeStack)
    BY <1>1 DEF Create, Ready, NotClearing
  <2>2. Partitioned' /\ Cardinality(AliveSlots') = Cardinality(AliveSlots) + 1
    BY <2>1, PopKeeps DEF FreeInv
  <2>3. QED
    BY <2>1, <2>2 DEF FreeInv, NotClearing
<1>2. ASSUME NEW s \in Slots, Destroy(s) PROVE FreeInv'
  <2>1. /\ clearing = -1 /\ UNCHANGED clearing /\ inUse' = inUse - 1 /\ alive[s]
        /\ alive' = [alive EXCEPT ![s] = FALSE] /\ freeStack' = Append(freeStack, s)
    BY <1>2 DEF Destroy, Release, Ready, NotClearing
  <2>2. Partitioned' /\ Cardinality(AliveSlots') = Cardinality(AliveSlots) - 1
    BY <2>1, PushKeeps DEF FreeInv
  <2>3. QED
    BY <2>1, <2>2 DEF FreeInv, NotClearing
<1>3. CASE ClearBegin
  BY <1>3 DEF ClearBegin, FreeInv, Partitioned, AliveSlots, NotClearing
<1>4. CASE ClearSlot
  <2>1. clearing \in Slots /\ clearing' = clearing + 1 /\ inUse' = inUse
    BY <1>4 DEF ClearSlot
  <2>2. /\ Partitioned' /\ ~alive'[clearing]
        /\ \A s \in Slots : s # clearing => alive'[s] = alive[s]
    <3>1. CASE alive[clearing]
      <4>1. /\ alive' = [alive EXCEPT ![clearing] = FALSE]
            /\ freeStack' = Append(freeStack, clearing)
        BY <1>4, <3>1 DEF ClearSlot, Release
      <4>2. Partitioned'
        BY <2>1, <3>1, <4>1, PushKeeps DEF FreeInv
      <4>3. QED
        BY <2>1, <4>1, <4>2 DEF FreeInv, Partitioned
    <3>2. CASE ~alive[clearing]
      <4>1. UNCHANGED <<alive, freeStack>>
        BY <1>4, <3>2 DEF ClearSlot
      <4>2. QED
        BY <3>2, <4>1 DEF FreeInv, Partitioned
    <3>3. QED
      BY <3>1, <3>2
  <2>3. \A s \in Slots : s < clearing' => ~alive'[s]
    BY <2>1, <2>2 DEF FreeInv
  <2>4. QED
    BY <2>1, <2>2, <2>3 DEF FreeInv, NotClearing
<1>5. CASE ClearEnd
  <2>1. clearing = Capacity /\ clearing' = -1 /\ inUse' = 0 /\ UNCHANGED <<alive, freeStack>>
    BY <1>5 DEF ClearEnd
  <2>2. AliveSlots' = {}
    BY <2>1 DEF FreeInv, AliveSlots
  <2>3. Partitioned'
    BY <2>1 DEF FreeInv, Partitioned
  <2>4. QED
    BY <2>1, <2>2, <2>3, FS_EmptySet DEF FreeInv
<1>6. CASE BeginFrame
  BY <1>6 DEF BeginFrame, FreeInv, Partitioned, AliveSlots, NotClearing
<1>7. CASE UNCHANGED <<slotVars, issued>>
  BY <1>7 DEF slotVars, FreeInv, Partitioned, AliveSlots, NotClearing
<1>8. QED
  BY <1>1, <1>2, <1>3, <1>4, <1>5, <1>6, <1>7, SlotActions

\* Releasing a slot takes it to the generation after its newest handle's.
LEMMA ReleaseKeeps ==
    ASSUME HandleInv, alive \in [Slots -> BOOLEAN], NEW s \in Slots, alive[s], Release(s),
           UNCHANGED issued
    PROVE  HandleInv'
<1> DEFINE n == Len(issued[s])
<1>1. n \in Nat \ {0} /\ generations[s] = NthGeneration(n)
  BY DEF HandleInv
<1>2. /\ generations' = [generations EXCEPT ![s] = BumpGeneration(NthGeneration(n))]
      /\ alive' = [alive EXCEPT ![s] = FALSE]
  BY <1>1 DEF Release, HandleInv
<1> HIDE DEF n
<1>3. /\ BumpGeneration(NthGeneration(n)) = NthGeneration(n + 1)
      /\ NthGeneration(n + 1) \in Nat
  BY <1>1, BumpIsNext, GenerationAssumption DEF Cycle
<1>4. /\ generations' \in [Slots -> Nat] /\ generations'[s] = NthGeneration(n + 1) /\ ~alive'[s]
      /\ \A t \in Slots \ {s} : generations'[t] = generations[t] /\ alive'[t] = alive[t]
  BY <1>2, <1>3 DEF HandleInv
<1>5. QED
  BY <1>4 DEF HandleInv, n

\* Every step keeps a slot's generation in step with the handles it gave out.
LEMMA HandleStep == FreeInv /\ HandleInv /\ [Next]_vars => HandleInv'
<1> SUFFICES ASSUME FreeInv, HandleInv, [Next]_vars PROVE HandleInv'
    OBVIOUS
<1>1. CASE Create
  <2> DEFINE s == Last(freeStack)
             n == Len(issued[s])
  <2>1. /\ freeStack # <<>> /\ UNCHANGED generations
        /\ alive' = [alive EXCEPT ![s] = TRUE] /\ freeStack' = Front(freeStack)
        /\ issued' = [issued EXCEPT ![s] = Append(issued[s], generations[s])]
    BY <1>1 DEF Create
  <2>2. s \in Slots /\ ~alive[s]
    BY <2>1, PopKeeps DEF FreeInv
  <2> HIDE DEF s
  <2>3. /\ n \in Nat /\ issued[s] \in Seq(Nat) /\ generations[s] \in Nat
        /\ generations[s] = NthGeneration(n + 1)
    BY <2>2 DEF HandleInv
  <2>4. /\ issued' \in [Slots -> Seq(Nat)]
        /\ \A t \in Slots \ {s} : issued'[t] = issued[t] /\ alive'[t] = alive[t]
        /\ issued'[s] = Append(issued[s], generations[s]) /\ alive'[s]
    BY <2>1, <2>2, <2>3 DEF HandleInv, FreeInv, Partitioned
  <2>5. /\ Len(issued'[s]) = n + 1 /\ issued'[s][n + 1] = generations[s]
        /\ \A k \in 1..n : issued'[s][k] = issued[s][k]
    BY <2>3, <2>4
  <2> HIDE DEF n
  <2>6. ASSUME NEW k \in 1..Len(issued'[s]) PROVE issued'[s][k] = NthGeneration(k)
    <3>1. CASE k \in 1..n
      BY <2>2, <2>5, <3>1 DEF HandleInv, n
    <3>2. CASE k = n + 1
      BY <2>3, <2>5, <3>2
    <3>3. QED
      BY <2>3, <2>5, <3>1, <3>2
  <2>7. \A t \in Slots :
          /\ \A k \in 1..Len(issued'[t]) : issued'[t][k] = NthGeneration(k)
          /\ generations'[t] = NthGeneration(Len(issued'[t]) + (IF alive'[t] THEN 0 ELSE 1))
          /\ alive'[t] => Len(issued'[t]) > 0
    <3> SUFFICES ASSUME NEW t \in Slots
                 PROVE  /\ \A k \in 1..Len(issued'[t]) : issued'[t][k] = NthGeneration(k)
                        /\ generations'[t] =
                           NthGeneration(Len(issued'[t]) + (IF alive'[t] THEN 0 ELSE 1))
                        /\ alive'[t] => Len(issued'[t]) > 0
        OBVIOUS
    <3>1. CASE t = s
      BY <2>1, <2>3, <2>4, <2>5, <2>6, <3>1
    <3>2. CASE t # s
      BY <2>1, <2>4, <3>2 DEF HandleInv
    <3>3. QED
      BY <3>1, <3>2
  <2>8. QED
    BY <2>1, <2>4, <2>7 DEF HandleInv
<1>2. ASSUME NEW s \in Slots, Destroy(s) PROVE HandleInv'
  BY <1>2, ReleaseKeeps DEF Destroy, FreeInv, Partitioned
<1>3. CASE ClearSlot
  <2>1. CASE alive[clearing]
    BY <1>3, <2>1, ReleaseKeeps DEF ClearSlot, FreeInv, Partitioned
  <2>2. CASE ~alive[clearing]
    BY <1>3, <2>2 DEF ClearSlot, HandleInv
  <2>3. QED
    BY <2>1, <2>2
<1>4. CASE ClearBegin \/ ClearEnd \/ BeginFrame \/ UNCHANGED <<slotVars, issued>>
  BY <1>4 DEF ClearBegin, ClearEnd, BeginFrame, slotVars, HandleInv
<1>5. QED
  BY <1>1, <1>2, <1>3, <1>4, SlotActions

\* Every step keeps the warnings those of the peak: a count is compared when it is first reached.
LEMMA BudgetStep == FreeInv /\ BudgetInv /\ [Next]_vars => BudgetInv'
<1> SUFFICES ASSUME FreeInv, BudgetInv, [Next]_vars PROVE BudgetInv'
    OBVIOUS
<1> USE CapacityAssumption DEF budgetVars, BudgetInv, BudgetWarnsMatchPeak
<1>1. CASE Create
  <2> DEFINE n == inUse + 1
             crossed == Crossed(n) \ warnedThisFrame
  <2>1. \A level \in BudgetLevels : Threshold(level) \in Int
    BY DEF BudgetLevels, Threshold
  <2>2. /\ inUse' = n /\ n \in Int
        /\ peakInUse' = IF n > peakInUse THEN n ELSE peakInUse
        /\ warnedThisFrame' = warnedThisFrame \cup crossed
        /\ warnedEver' = warnedEver \cup crossed
    <3>1. inUse' = n /\ CheckEntityBudget(n)
      BY <1>1 DEF Create
    <3>2. n \in Int
      OBVIOUS
    <3> HIDE DEF n
    <3>3. QED
      BY <3>1, <3>2 DEF CheckEntityBudget
  <2>3. Crossed(n) = {level \in BudgetLevels : Threshold(level) # 0 /\ n = Threshold(level)}
    BY DEF Crossed
  <2> HIDE DEF n
  <2>4. /\ peakInUse' \in Nat /\ n <= peakInUse'
        /\ \A level \in BudgetLevels :
             Threshold(level) <= peakInUse' <=> Threshold(level) <= peakInUse
             \/ Threshold(level) = n
    BY <2>1, <2>2 DEF n
  <2>5. warnedEver' = {level \in BudgetLevels :
                         Threshold(level) # 0 /\ peakInUse' >= Threshold(level)}
    <3>1. warnedEver' = warnedEver \cup Crossed(n)
      BY <2>2
    <3>2. QED
      BY <2>1, <2>2, <2>3, <2>4, <3>1
  <2>6. QED
    BY <2>2, <2>4, <2>5
<1>2. ASSUME NEW s \in Slots, Destroy(s) PROVE BudgetInv'
  BY <1>2 DEF Destroy
<1>3. CASE ClearBegin \/ ClearSlot \/ ClearEnd
  BY <1>3 DEF ClearBegin, ClearSlot, ClearEnd
<1>4. CASE BeginFrame
  BY <1>4 DEF BeginFrame
<1>5. CASE UNCHANGED <<slotVars, issued>>
  BY <1>5 DEF slotVars
<1>6. QED
  BY <1>1, <1>2, <1>3, <1>4, <1>5, SlotActions

\* A new world has one free stack of all slots.
LEMMA InitInv == Init => FreeInv /\ HandleInv /\ BudgetInv
<1> SUFFICES ASSUME Init PROVE FreeInv /\ HandleInv /\ BudgetInv
    OBVIOUS
<1> USE CapacityAssumption DEF Init
<1>1. FreeInv
  <2>1. freeStack \in Seq(Slots) /\ DOMAIN freeStack = 1..Capacity
    BY DEF Slots
  <2>2. ToSet(freeStack) = Slots
    <3>1. \A s \in Slots : s + 1 \in DOMAIN freeStack /\ freeStack[s + 1] = s
      BY <2>1 DEF Slots
    <3>2. \A i \in DOMAIN freeStack : freeStack[i] \in Slots
      BY <2>1 DEF Slots
    <3>3. QED
      BY <3>1, <3>2 DEF ToSet
  <2>3. AliveSlots = {} /\ {s \in Slots : ~alive[s]} = Slots
    BY DEF AliveSlots
  <2>4. Partitioned
    BY <2>1, <2>2, <2>3 DEF Partitioned
  <2>5. QED
    BY <2>3, <2>4, FS_EmptySet DEF FreeInv, Slots
<1>2. HandleInv
  <2>1. NthGeneration(0 + 1) = 1
    <3>1. Cycle \in Nat \ {0} /\ 0 = 0 * Cycle + 0 /\ 0 \in 0..(Cycle - 1)
      BY GenerationAssumption DEF Cycle
    <3>2. 0 % Cycle = 0
      BY <3>1, ModUnique
    <3>3. QED
      BY <3>2 DEF NthGeneration
  <2>2. \A s \in Slots : issued[s] = <<>> /\ Len(issued[s]) = 0 /\ ~alive[s]
    OBVIOUS
  <2>3. QED
    BY <2>1, <2>2 DEF HandleInv
<1>3. BudgetInv
  <2>1. \A level \in BudgetLevels : Threshold(level) \in Nat
    BY DEF BudgetLevels, Threshold
  <2>2. QED
    BY <2>1 DEF BudgetInv, BudgetWarnsMatchPeak
<1>4. QED
  BY <1>1, <1>2, <1>3

\* Slots and handles that are in step refuse every handle but the newest of a live entity.
LEMMA HandlesRejected == HandleInv => StaleHandlesRejected
<1> SUFFICES ASSUME HandleInv, NEW s \in Slots, NEW k \in DOMAIN issued[s]
             PROVE  LET handle == [id |-> s, generation |-> issued[s][k]]
                        newest == Len(issued[s])
                    IN  /\ IsValid(handle) =>
                             alive[s] /\ (newest - k) % (GenerationMod - 1) = 0
                        /\ (alive[s] /\ k = newest) => IsValid(handle)
    BY DEF StaleHandlesRejected
<1> DEFINE n == Len(issued[s])
<1>1. n \in Nat /\ k \in 1..n /\ issued[s][k] = NthGeneration(k)
  BY DEF HandleInv
<1>2. alive[s] => generations[s] = NthGeneration(n)
  BY <1>1 DEF HandleInv
<1>3. NthGeneration(k) # 0
  BY <1>1, BumpIsNext
<1> HIDE DEF n
<1>4. (alive[s] /\ NthGeneration(k) = NthGeneration(n)) => (n - k) % Cycle = 0
  BY <1>1, SameGeneration
<1>5. QED
  BY <1>1, <1>2, <1>3, <1>4 DEF IsValid, Cycle, n

-----------------------------------------------------------------------------
\* create() can neither hand out a live slot nor lose one, and entityCount() counts the live
\* entities: the free stack is the dead slots, each once, through destroy() and clear().
THEOREM FreeStackIsTheDead == Spec => []FreeStackPartition
<1>1. FreeInv => FreeStackPartition
  BY DEF FreeInv, Partitioned, AliveSlots, FreeStackPartition
<1>2. QED
  BY InitInv, FreeStep, <1>1, PTL DEF Spec

\* A handle is valid only while its own entity lives, whatever became of its slot, but for the
\* generation that comes round after GenerationMod - 1 reuses; the newest one of a live entity is.
THEOREM StaleHandlesAreRejected == Spec => []StaleHandlesRejected
  BY InitInv, FreeStep, HandleStep, HandlesRejected, PTL DEF Spec

\* A level counts a warning exactly when the peak population reached it.
THEOREM WarningsMatchThePeak == Spec => []BudgetWarnsMatchPeak
<1>1. BudgetInv => BudgetWarnsMatchPeak
  BY DEF BudgetInv
<1>2. QED
  BY InitInv, FreeStep, BudgetStep, <1>1, PTL DEF Spec

-----------------------------------------------------------------------------
(* Sequences and counting *)

\* 1..n has n elements.
LEMMA UpTo ==
    ASSUME NEW n \in Nat
    PROVE  IsFiniteSet(1..n) /\ Cardinality(1..n) = n
  BY FS_Interval

\* What InsertAt of the community modules inserts.
LEMMA Inserted ==
    ASSUME NEW S, NEW s \in Seq(S), NEW i \in 1..(Len(s) + 1), NEW e \in S
    PROVE  /\ InsertAt(s, i, e) \in Seq(S)
           /\ Len(InsertAt(s, i, e)) = Len(s) + 1
           /\ \A j \in 1..(i - 1) : InsertAt(s, i, e)[j] = s[j]
           /\ InsertAt(s, i, e)[i] = e
           /\ \A j \in i..Len(s) : InsertAt(s, i, e)[j + 1] = s[j]
<1> DEFINE n == Len(s)
           u == SubSeq(s, 1, i - 1)
           w == SubSeq(s, i, n)
<1>1. n \in Nat /\ i \in Int /\ i - 1 \in 0..n /\ \A j \in 1..n : s[j] \in S
  BY LenProperties, ElementOfSeq
<1> HIDE DEF n
<1>2. u \in Seq(S) /\ Len(u) = i - 1 /\ \A j \in 1..(i - 1) : u[j] = s[j]
  <2>1. \A j \in 1..(i - 1) : s[j] \in S
    BY <1>1
  <2>2. /\ u \in Seq(S) /\ Len(u) = IF 1 <= i - 1 THEN (i - 1) - 1 + 1 ELSE 0
        /\ \A j \in 1..((i - 1) - 1 + 1) : u[j] = s[1 + j - 1]
    BY <1>1, <2>1, SubSeqProperties
  <2>3. QED
    BY <1>1, <2>2
<1>3. w \in Seq(S) /\ Len(w) = n - i + 1 /\ \A j \in 1..(n - i + 1) : w[j] = s[i + j - 1]
  <2>1. \A j \in i..n : s[j] \in S
    BY <1>1
  <2>2. /\ w \in Seq(S) /\ Len(w) = IF i <= n THEN n - i + 1 ELSE 0
        /\ \A j \in 1..(n - i + 1) : w[j] = s[i + j - 1]
    BY <1>1, <2>1, SubSeqProperties
  <2>3. QED
    BY <1>1, <2>2
<1>4. InsertAt(s, i, e) = (u \o <<e>>) \o w
  BY DEF InsertAt, n
<1> HIDE DEF u, w
<1>5. /\ <<e>> \in Seq(S) /\ Len(<<e>>) = 1 /\ <<e>>[1] = e
  OBVIOUS
<1>6. /\ u \o <<e>> \in Seq(S) /\ Len(u \o <<e>>) = i
      /\ \A j \in 1..i : (u \o <<e>>)[j] = IF j <= i - 1 THEN u[j] ELSE <<e>>[j - (i - 1)]
  BY <1>1, <1>2, <1>5, ConcatProperties
<1> DEFINE t == u \o <<e>>
<1>7. /\ t \o w \in Seq(S) /\ Len(t \o w) = n + 1
      /\ \A j \in 1..(n + 1) : (t \o w)[j] = IF j <= i THEN t[j] ELSE w[j - i]
  <2> HIDE DEF t
  <2>1. t \in Seq(S) /\ Len(t) = i
    BY <1>6 DEF t
  <2>2. /\ t \o w \in Seq(S) /\ Len(t \o w) = Len(t) + Len(w)
        /\ \A j \in 1..(Len(t) + Len(w)) : (t \o w)[j] = IF j <= Len(t) THEN t[j] ELSE w[j - Len(t)]
    BY <1>3, <2>1, ConcatProperties
  <2>3. Len(t) + Len(w) = n + 1
    BY <1>1, <1>3, <2>1
  <2>4. QED
    BY <2>1, <2>2, <2>3
<1>8. \A j \in 1..(i - 1) : t[j] = s[j] /\ j \in 1..(n + 1) /\ j <= i
  BY <1>1, <1>2, <1>6
<1>9. t[i] = e /\ i \in 1..(n + 1) /\ i <= i
  BY <1>1, <1>5, <1>6
<1> HIDE DEF t
<1>10. \A j \in i..n : w[(j + 1) - i] = s[j] /\ j + 1 \in 1..(n + 1) /\ ~(j + 1 <= i)
  <2> SUFFICES ASSUME NEW j \in i..n
               PROVE  w[(j + 1) - i] = s[j] /\ j + 1 \in 1..(n + 1) /\ ~(j + 1 <= i)
      OBVIOUS
  <2>1. (j + 1) - i \in 1..(n - i + 1) /\ i + ((j + 1) - i) - 1 = j
    BY <1>1
  <2>2. QED
    BY <1>1, <1>3, <2>1
<1>11. QED
  BY <1>1, <1>4, <1>7, <1>8, <1>9, <1>10 DEF t, n

\* What RemoveAt of the community modules leaves.
LEMMA RemovedAt ==
    ASSUME NEW S, NEW s \in Seq(S), NEW i \in 1..Len(s)
    PROVE  /\ RemoveAt(s, i) \in Seq(S)
           /\ Len(RemoveAt(s, i)) = Len(s) - 1
           /\ \A j \in 1..(i - 1) : RemoveAt(s, i)[j] = s[j]
           /\ \A j \in (i + 1)..Len(s) : RemoveAt(s, i)[j - 1] = s[j]
<1> DEFINE n == Len(s)
           u == SubSeq(s, 1, i - 1)
           w == SubSeq(s, i + 1, n)
<1>1. n \in Nat /\ i \in Int /\ i \in 1..n /\ \A j \in 1..n : s[j] \in S
  BY LenProperties, ElementOfSeq
<1> HIDE DEF n
<1>2. u \in Seq(S) /\ Len(u) = i - 1 /\ \A j \in 1..(i - 1) : u[j] = s[j]
  <2>1. \A j \in 1..(i - 1) : s[j] \in S
    BY <1>1
  <2>2. /\ u \in Seq(S) /\ Len(u) = IF 1 <= i - 1 THEN (i - 1) - 1 + 1 ELSE 0
        /\ \A j \in 1..((i - 1) - 1 + 1) : u[j] = s[1 + j - 1]
    BY <1>1, <2>1, SubSeqProperties
  <2>3. QED
    BY <1>1, <2>2
<1>3. w \in Seq(S) /\ Len(w) = n - i /\ \A j \in 1..(n - i) : w[j] = s[i + j]
  <2>1. \A j \in (i + 1)..n : s[j] \in S
    BY <1>1
  <2>2. /\ w \in Seq(S) /\ Len(w) = IF i + 1 <= n THEN n - (i + 1) + 1 ELSE 0
        /\ \A j \in 1..(n - (i + 1) + 1) : w[j] = s[(i + 1) + j - 1]
    BY <1>1, <2>1, SubSeqProperties
  <2>3. QED
    BY <1>1, <2>2
<1>4. RemoveAt(s, i) = u \o w
  BY DEF RemoveAt, n
<1> HIDE DEF u, w
<1>5. /\ u \o w \in Seq(S) /\ Len(u \o w) = n - 1
      /\ \A j \in 1..(n - 1) : (u \o w)[j] = IF j <= i - 1 THEN u[j] ELSE w[j - (i - 1)]
  <2>1. /\ u \o w \in Seq(S) /\ Len(u \o w) = Len(u) + Len(w)
        /\ \A j \in 1..(Len(u) + Len(w)) : (u \o w)[j] = IF j <= Len(u) THEN u[j] ELSE w[j - Len(u)]
    BY <1>2, <1>3, ConcatProperties
  <2>2. Len(u) + Len(w) = n - 1
    BY <1>1, <1>2, <1>3
  <2>3. QED
    BY <1>2, <2>1, <2>2
<1>6. \A j \in 1..(i - 1) : u[j] = s[j] /\ j \in 1..(n - 1) /\ j <= i - 1
  BY <1>1, <1>2
<1>7. ASSUME NEW j \in (i + 1)..n
      PROVE  w[(j - 1) - (i - 1)] = s[j] /\ j - 1 \in 1..(n - 1) /\ ~(j - 1 <= i - 1)
  <2>1. (j - 1) - (i - 1) \in 1..(n - i) /\ i + ((j - 1) - (i - 1)) = j
    BY <1>1
  <2>2. QED
    BY <1>1, <1>3, <2>1
<1>8. QED
  BY <1>1, <1>4, <1>5, <1>6, <1>7 DEF n

\* A set of places that has with each place all before it is 1..k.
LEMMA InitialPart ==
    ASSUME NEW n \in Nat, NEW D \in SUBSET (1..n), \A x \in D, y \in 1..n : y < x => y \in D
    PROVE  Cardinality(D) \in 0..n /\ D = 1..Cardinality(D)
<1>1. IsFiniteSet(D) /\ Cardinality(D) <= n /\ Cardinality(D) \in Nat
  <2>1. IsFiniteSet(1..n) /\ Cardinality(1..n) = n
    BY UpTo
  <2>2. IsFiniteSet(D) /\ Cardinality(D) <= Cardinality(1..n)
    BY <2>1, FS_Subset
  <2>3. QED
    BY <2>1, <2>2, FS_CardinalityType
<1>2. ASSUME NEW x \in D PROVE x <= Cardinality(D)
  <2>1. 1..x \in SUBSET D /\ x \in Nat
    BY <1>2
  <2>2. Cardinality(1..x) <= Cardinality(D)
    BY <1>1, <2>1, FS_Subset
  <2>3. QED
    BY <2>1, <2>2, UpTo
<1> DEFINE c == Cardinality(D)
<1>3. D \in SUBSET (1..c)
  BY <1>1, <1>2
<1>4. IsFiniteSet(1..c) /\ Cardinality(1..c) = c
  BY <1>1, UpTo
<1>5. 1..c = D
  <2> HIDE DEF c
  <2>1. c = Cardinality(D)
    BY DEF c
  <2>2. QED
    BY <1>3, <1>4, <2>1, FS_Subset
<1>6. QED
  BY <1>1, <1>5

-----------------------------------------------------------------------------
(* The rows of an archetype *)

\* The components of an entity with their values, and the rows that hold them.
Datas == UNION {[D -> Values] : D \in SUBSET Components}
Rows == [slot : Slots, data : Datas]

\* Rows in strictly ascending slot order, and an index that says where each is.
Ascends(rows) == \A q, r \in DOMAIN rows : q < r => rows[q].slot < rows[r].slot
\* The index leads to the row of each slot.
IndexedBy(rows, index) == \A r \in DOMAIN rows : index[rows[r].slot] = r

\* In ascending rows a slot has one row.
LEMMA OneRowEach ==
    ASSUME NEW rows \in Seq(Rows), Ascends(rows), NEW q \in 1..Len(rows), NEW r \in 1..Len(rows),
           rows[q].slot = rows[r].slot
    PROVE  q = r
<1>1. DOMAIN rows = 1..Len(rows) /\ Len(rows) \in Nat
  BY LenProperties
<1>2. rows[q] \in Rows /\ rows[r] \in Rows
  BY ElementOfSeq
<1>3. rows[q].slot \in Int /\ rows[r].slot \in Int
  BY <1>2, CapacityAssumption DEF Rows, Slots
<1>4. ~(q < r) /\ ~(r < q)
  BY <1>1, <1>3 DEF Ascends
<1>5. QED
  BY <1>1, <1>4

\* The rank of a slot is the place among the rows that keeps them ascending.
LEMMA RankIsPlace ==
    ASSUME NEW rows \in Seq(Rows), Ascends(rows), NEW s \in Slots,
           \A r \in 1..Len(rows) : rows[r].slot # s
    PROVE  /\ RankIn(rows, s) \in 1..(Len(rows) + 1)
           /\ \A r \in 1..(RankIn(rows, s) - 1) : rows[r].slot < s
           /\ \A r \in RankIn(rows, s)..Len(rows) : s < rows[r].slot
<1> DEFINE n == Len(rows)
           D == {r \in DOMAIN rows : rows[r].slot <= s}
<1>1. n \in Nat /\ DOMAIN rows = 1..n
  BY LenProperties
<1>2. \A r \in 1..n : rows[r].slot \in Int
  <2>1. \A r \in 1..n : rows[r] \in Rows
    BY ElementOfSeq
  <2>2. QED
    BY <2>1, CapacityAssumption DEF Rows, Slots
<1>3. s \in Int
  BY CapacityAssumption DEF Slots
<1>4. D \in SUBSET (1..n)
  BY <1>1
<1>5. ASSUME NEW x \in D, NEW y \in 1..n, y < x PROVE y \in D
  <2>1. rows[y].slot < rows[x].slot /\ rows[x].slot <= s /\ x \in 1..n
    BY <1>1, <1>5 DEF Ascends
  <2>2. QED
    BY <1>1, <1>2, <1>3, <2>1
<1>6. RankIn(rows, s) = 1 + Cardinality(D)
  BY DEF RankIn
<1> DEFINE c == Cardinality(D)
<1>7. c \in 0..n /\ D = 1..c
  <2> HIDE DEF D, n
  <2>1. QED
    BY <1>1, <1>4, <1>5, InitialPart
<1>8. \A r \in 1..n : r \in 1..c <=> rows[r].slot <= s
  BY <1>1, <1>7
<1> HIDE DEF c, D, n
<1>9. ASSUME NEW r \in 1..c PROVE rows[r].slot < s
  <2>1. r \in 1..n
    BY <1>1, <1>7
  <2>2. QED
    BY <1>2, <1>3, <1>8, <2>1 DEF n
<1>10. ASSUME NEW r \in (1 + c)..n PROVE s < rows[r].slot
  <2>1. r \in 1..n /\ r \notin 1..c
    BY <1>1, <1>7
  <2>2. QED
    BY <1>2, <1>3, <1>8, <2>1
<1>11. QED
  BY <1>1, <1>6, <1>7, <1>9, <1>10 DEF c, n

\* What the index becomes when rows from some place on have moved.
LEMMA ReindexedIs ==
    ASSUME NEW rows \in Seq(Rows), Ascends(rows), NEW from \in Nat \ {0},
           NEW index \in [Slots -> Nat]
    PROVE  /\ Reindex(index, rows, from) \in [Slots -> Nat]
           /\ \A r \in from..Len(rows) : Reindex(index, rows, from)[rows[r].slot] = r
           /\ \A t \in Slots : (\A r \in from..Len(rows) : rows[r].slot # t) =>
                 Reindex(index, rows, from)[t] = index[t]
<1> DEFINE R == from..Len(rows)
           f == Reindex(index, rows, from)
<1>1. Len(rows) \in Nat /\ R \subseteq 1..Len(rows) /\ R \subseteq Nat
  BY LenProperties
<1>2. f = [t \in Slots |-> IF \E r \in R : rows[r].slot = t
                           THEN CHOOSE r \in R : rows[r].slot = t ELSE index[t]]
  BY DEF Reindex
<1> HIDE DEF R, f
<1>3. ASSUME NEW r \in R PROVE f[rows[r].slot] = r
  <2>1. rows[r].slot \in Slots
    <3>1. rows[r] \in Rows
      BY <1>1, ElementOfSeq
    <3>2. QED
      BY <3>1 DEF Rows
  <2>2. f[rows[r].slot] = CHOOSE q \in R : rows[q].slot = rows[r].slot
    BY <1>2, <2>1
  <2>3. PICK q \in R : f[rows[r].slot] = q /\ rows[q].slot = rows[r].slot
    BY <2>2
  <2>4. q = r
    BY <1>1, <2>3, OneRowEach
  <2>5. QED
    BY <2>3, <2>4
<1>4. \A t \in Slots : (\A r \in R : rows[r].slot # t) => f[t] = index[t]
  BY <1>2
<1>5. f \in [Slots -> Nat]
  BY <1>1, <1>2
<1>6. QED
  BY <1>3, <1>4, <1>5 DEF R, f

\* new and idx are the rows and the index with one more row, and every other where it was found.
Attached(rows, row, index, new, idx) ==
    /\ new \in Seq(Rows) /\ Len(new) = Len(rows) + 1 /\ Ascends(new)
    /\ idx \in [Slots -> Nat] /\ IndexedBy(new, idx)
    /\ \A r \in 1..Len(new) : new[r] = row \/ \E q \in 1..Len(rows) : new[r] = rows[q]
    /\ idx[row.slot] \in 1..Len(new) /\ new[idx[row.slot]] = row
    /\ \A q \in 1..Len(rows) :
         idx[rows[q].slot] \in 1..Len(new) /\ new[idx[rows[q].slot]] = rows[q]
    /\ \A t \in Slots : (t # row.slot /\ \A q \in 1..Len(rows) : rows[q].slot # t) =>
         idx[t] = index[t]

\* The same for the rows without the k-th.
Removed(rows, k, index, new, idx) ==
    /\ new \in Seq(Rows) /\ Len(new) = Len(rows) - 1 /\ Ascends(new)
    /\ idx \in [Slots -> Nat] /\ IndexedBy(new, idx)
    /\ \A r \in 1..Len(new) : \E q \in 1..Len(rows) : q # k /\ new[r] = rows[q]
    /\ \A q \in 1..Len(rows) : q # k =>
         idx[rows[q].slot] \in 1..Len(new) /\ new[idx[rows[q].slot]] = rows[q]
    /\ \A t \in Slots : (\A q \in 1..Len(rows) : q # k => rows[q].slot # t) =>
         idx[t] = index[t]

\* attachSlot: the rows with one more, and the index, agree again.
LEMMA AttachRows ==
    ASSUME NEW rows \in Seq(Rows), Ascends(rows), NEW row \in Rows,
           NEW index \in [Slots -> Nat], IndexedBy(rows, index),
           \A r \in 1..Len(rows) : rows[r].slot # row.slot,
           NEW new, new = InsertAt(rows, RankIn(rows, row.slot), row),
           NEW idx, idx = Reindex(index, new, RankIn(rows, row.slot))
    PROVE  Attached(rows, row, index, new, idx)
<1> DEFINE n == Len(rows)
           s == row.slot
           k == RankIn(rows, s)
<1>1. n \in Nat /\ DOMAIN rows = 1..n /\ \A r \in 1..n : rows[r] \in Rows
  BY LenProperties, ElementOfSeq
<1>2. s \in Slots /\ \A r \in Rows : r.slot \in Slots /\ r.slot \in Int
  BY CapacityAssumption DEF Rows, Slots
<1>3. /\ k \in 1..(n + 1)
      /\ \A r \in 1..(k - 1) : rows[r].slot < s
      /\ \A r \in k..n : s < rows[r].slot
  BY <1>2, RankIsPlace
<1> HIDE DEF k
<1>4. /\ new \in Seq(Rows) /\ Len(new) = n + 1
      /\ \A j \in 1..(k - 1) : new[j] = rows[j]
      /\ new[k] = row
      /\ \A j \in k..n : new[j + 1] = rows[j]
  BY <1>3, Inserted DEF k
<1>5. DOMAIN new = 1..(n + 1) /\ k \in Nat \ {0}
  BY <1>1, <1>3, <1>4, LenProperties
<1> HIDE DEF n
<1>6. ASSUME NEW r \in 1..(n + 1)
      PROVE  \/ r \in 1..(k - 1) /\ r \in 1..n /\ new[r] = rows[r]
             \/ r = k /\ new[r] = row
             \/ r - 1 \in k..n /\ r - 1 \in 1..n /\ new[r] = rows[r - 1]
  <2>1. CASE r < k
    BY <1>1, <1>3, <1>4, <2>1
  <2>2. CASE r = k
    BY <1>4, <2>2
  <2>3. CASE r > k
    <3>1. r - 1 \in k..n /\ r - 1 \in 1..n /\ (r - 1) + 1 = r
      BY <1>1, <1>3, <2>3
    <3>2. QED
      BY <1>4, <3>1
  <2>4. QED
    BY <1>3, <2>1, <2>2, <2>3
<1>7. Ascends(new)
  <2> SUFFICES ASSUME NEW q \in 1..(n + 1), NEW r \in 1..(n + 1), q < r
               PROVE  new[q].slot < new[r].slot
      BY <1>5 DEF Ascends
  <2>1. \A i, j \in 1..n : i < j => rows[i].slot < rows[j].slot
    BY <1>1 DEF Ascends
  <2>2. CASE q < k /\ r < k
    BY <1>6, <2>1, <2>2, <1>3
  <2>3. CASE q < k /\ r = k
    BY <1>3, <1>6, <2>3
  <2>4. CASE q < k /\ r > k
    <3>1. new[q] = rows[q] /\ new[r] = rows[r - 1] /\ q \in 1..n /\ r - 1 \in 1..n
      BY <1>1, <1>3, <1>6, <2>4
    <3>2. q < r - 1
      BY <1>3, <2>4
    <3>3. QED
      BY <2>1, <3>1, <3>2
  <2>5. CASE q = k /\ r > k
    BY <1>3, <1>6, <2>5
  <2>6. CASE q > k /\ r > k
    <3>1. new[q] = rows[q - 1] /\ new[r] = rows[r - 1] /\ q - 1 \in 1..n /\ r - 1 \in 1..n
      BY <1>1, <1>3, <1>6, <2>6
    <3>2. q - 1 < r - 1
      OBVIOUS
    <3>3. QED
      BY <2>1, <3>1, <3>2
  <2>7. QED
    BY <1>3, <2>2, <2>3, <2>4, <2>5, <2>6
<1>8. /\ idx \in [Slots -> Nat]
      /\ \A r \in k..(n + 1) : idx[new[r].slot] = r
      /\ \A t \in Slots : (\A r \in k..(n + 1) : new[r].slot # t) => idx[t] = index[t]
  <2> DEFINE f == Reindex(index, new, k)
  <2>1. /\ f \in [Slots -> Nat]
        /\ \A r \in k..Len(new) : f[new[r].slot] = r
        /\ \A t \in Slots : (\A r \in k..Len(new) : new[r].slot # t) => f[t] = index[t]
    <3>1. new \in Seq(Rows) /\ Ascends(new) /\ k \in Nat \ {0}
      BY <1>4, <1>5, <1>7
    <3>2. QED
      BY ONLY <3>1, index \in [Slots -> Nat], ReindexedIs
  <2>2. idx = f
    BY DEF k
  <2> HIDE DEF f
  <2>3. QED
    BY <1>4, <2>1, <2>2
<1>9. ASSUME NEW r \in 1..(n + 1) PROVE idx[new[r].slot] = r
  <2>1. CASE r \in k..(n + 1)
    BY <1>8, <2>1
  <2>2. CASE r \in 1..(k - 1)
    <3>1. r \in 1..n /\ new[r] = rows[r]
      BY <1>1, <1>3, <1>4, <2>2
    <3>2. ASSUME NEW q \in k..(n + 1), new[q].slot = new[r].slot PROVE FALSE
      <4>1. q \in 1..(n + 1) /\ q # r
        BY <1>1, <1>3, <2>2
      <4>2. QED
        BY <1>4, <1>7, <3>2, <4>1, OneRowEach
    <3>3. new[r].slot \in Slots
      BY <1>1, <1>2, <3>1
    <3>4. idx[new[r].slot] = index[new[r].slot]
      BY <1>8, <3>2, <3>3
    <3>5. QED
      BY <1>1, <3>1, <3>4 DEF IndexedBy
  <2>3. QED
    BY <1>1, <1>3, <2>1, <2>2
<1>10. k \in 1..(n + 1) /\ new[k] = row /\ idx[s] = k
  BY <1>3, <1>4, <1>9
<1>11. ASSUME NEW q \in 1..n
       PROVE  idx[rows[q].slot] \in 1..(n + 1) /\ new[idx[rows[q].slot]] = rows[q]
  <2>1. CASE q < k
    <3>1. q \in 1..(n + 1) /\ new[q] = rows[q]
      BY <1>1, <1>3, <1>4, <2>1
    <3>2. QED
      BY <1>9, <3>1
  <2>2. CASE q >= k
    <3>1. q + 1 \in 1..(n + 1) /\ new[q + 1] = rows[q]
      BY <1>1, <1>3, <1>4, <2>2
    <3>2. QED
      BY <1>9, <3>1
  <2>3. QED
    BY <1>3, <2>1, <2>2
<1>12. ASSUME NEW t \in Slots, t # s, \A q \in 1..n : rows[q].slot # t PROVE idx[t] = index[t]
  <2>1. \A r \in k..(n + 1) : r \in 1..(n + 1)
    BY <1>1, <1>3
  <2>2. \A r \in k..(n + 1) : new[r].slot # t
    BY <1>6, <1>12, <2>1
  <2>3. QED
    BY <1>8, <2>2
<1>13. \A r \in 1..(n + 1) : new[r] = row \/ \E q \in 1..n : new[r] = rows[q]
  BY <1>6
<1>14. IndexedBy(new, idx)
  BY <1>5, <1>9 DEF IndexedBy
<1>15. QED
  BY <1>4, <1>7, <1>8, <1>10, <1>11, <1>12, <1>13, <1>14 DEF n, Attached

\* removeRow: the rows without one, and the index, agree again.
LEMMA RemoveRows ==
    ASSUME NEW rows \in Seq(Rows), Ascends(rows), NEW k \in 1..Len(rows),
           NEW index \in [Slots -> Nat],
           \A r \in 1..Len(rows) : r # k => index[rows[r].slot] = r,
           NEW new, new = RemoveAt(rows, k), NEW idx, idx = Reindex(index, new, k)
    PROVE  Removed(rows, k, index, new, idx)
<1> DEFINE n == Len(rows)
<1>1. n \in Nat \ {0} /\ DOMAIN rows = 1..n /\ \A r \in 1..n : rows[r] \in Rows
  BY LenProperties, ElementOfSeq
<1>2. \A r \in Rows : r.slot \in Slots
  BY DEF Rows
<1>3. /\ new \in Seq(Rows) /\ Len(new) = n - 1
      /\ \A j \in 1..(k - 1) : new[j] = rows[j]
      /\ \A j \in (k + 1)..n : new[j - 1] = rows[j]
  BY RemovedAt
<1>4. DOMAIN new = 1..(n - 1) /\ k \in Nat \ {0} /\ k \in 1..n
  BY <1>1, <1>3, LenProperties
<1> HIDE DEF n
<1>5. ASSUME NEW r \in 1..(n - 1)
      PROVE  \/ r < k /\ r \in 1..n /\ r # k /\ new[r] = rows[r]
             \/ r >= k /\ r + 1 \in 1..n /\ r + 1 # k /\ new[r] = rows[r + 1]
  <2>1. CASE r < k
    BY <1>1, <1>3, <1>4, <2>1
  <2>2. CASE r >= k
    <3>1. r + 1 \in (k + 1)..n /\ r + 1 \in 1..n /\ (r + 1) - 1 = r
      BY <1>1, <1>4, <2>2
    <3>2. QED
      BY <1>3, <2>2, <3>1
  <2>3. QED
    BY <1>4, <2>1, <2>2
<1>6. Ascends(new)
  <2> SUFFICES ASSUME NEW q \in 1..(n - 1), NEW r \in 1..(n - 1), q < r
               PROVE  new[q].slot < new[r].slot
      BY <1>4 DEF Ascends
  <2>1. PICK i \in 1..n : new[q] = rows[i] /\ (i = q \/ i = q + 1) /\ (r < k => i = q)
    BY <1>4, <1>5
  <2>2. PICK j \in 1..n : new[r] = rows[j] /\ ((j = r /\ r < k) \/ j = r + 1)
    BY <1>5
  <2>3. i < j
    BY <2>1, <2>2
  <2>4. QED
    BY <1>1, <2>1, <2>2, <2>3 DEF Ascends
<1>7. /\ idx \in [Slots -> Nat]
      /\ \A r \in k..(n - 1) : idx[new[r].slot] = r
      /\ \A t \in Slots : (\A r \in k..(n - 1) : new[r].slot # t) => idx[t] = index[t]
  <2> DEFINE f == Reindex(index, new, k)
  <2>1. /\ f \in [Slots -> Nat]
        /\ \A r \in k..Len(new) : f[new[r].slot] = r
        /\ \A t \in Slots : (\A r \in k..Len(new) : new[r].slot # t) => f[t] = index[t]
    <3>1. new \in Seq(Rows) /\ Ascends(new) /\ k \in Nat \ {0}
      BY <1>3, <1>4, <1>6
    <3>2. QED
      BY ONLY <3>1, index \in [Slots -> Nat], ReindexedIs
  <2>2. idx = f
    OBVIOUS
  <2> HIDE DEF f
  <2>3. QED
    BY <1>3, <2>1, <2>2
<1>8. ASSUME NEW r \in 1..(n - 1) PROVE idx[new[r].slot] = r
  <2>1. CASE r >= k
    BY <1>1, <1>4, <1>7, <2>1
  <2>2. CASE r < k
    <3>1. r \in 1..n /\ new[r] = rows[r] /\ r # k
      BY <1>5, <2>2
    <3>2. ASSUME NEW q \in k..(n - 1), new[q].slot = new[r].slot PROVE FALSE
      <4>1. q \in 1..(n - 1) /\ q # r
        BY <1>1, <1>4, <2>2
      <4>2. QED
        BY <1>3, <1>6, <3>2, <4>1, OneRowEach
    <3>3. new[r].slot \in Slots
      BY <1>1, <1>2, <3>1
    <3>4. idx[new[r].slot] = index[new[r].slot]
      BY <1>7, <3>2, <3>3
    <3>5. QED
      BY <3>1, <3>4 DEF n
  <2>3. QED
    BY <1>4, <2>1, <2>2
<1>9. ASSUME NEW q \in 1..n, q # k
      PROVE  idx[rows[q].slot] \in 1..(n - 1) /\ new[idx[rows[q].slot]] = rows[q]
  <2>1. CASE q < k
    <3>1. q \in 1..(n - 1) /\ new[q] = rows[q]
      BY <1>1, <1>3, <1>4, <2>1
    <3>2. QED
      BY <1>8, <3>1
  <2>2. CASE q > k
    <3>1. q - 1 \in 1..(n - 1) /\ new[q - 1] = rows[q]
      BY <1>1, <1>3, <1>4, <2>2
    <3>2. QED
      BY <1>8, <3>1
  <2>3. QED
    BY <1>4, <1>9, <2>1, <2>2
<1>10. ASSUME NEW t \in Slots, \A q \in 1..n : q # k => rows[q].slot # t PROVE idx[t] = index[t]
  <2>1. \A r \in k..(n - 1) : r \in 1..(n - 1)
    BY <1>1, <1>4
  <2>2. \A r \in k..(n - 1) : new[r].slot # t
    BY <1>5, <1>10, <2>1
  <2>3. QED
    BY <1>7, <2>2
<1>11. \A r \in 1..(n - 1) : \E q \in 1..n : q # k /\ new[r] = rows[q]
  BY <1>5
<1>12. IndexedBy(new, idx)
  BY <1>4, <1>8 DEF IndexedBy
<1>13. QED
  BY <1>3, <1>6, <1>7, <1>9, <1>10, <1>11, <1>12 DEF n, Removed

\* An archetype's record.
Archs == [sig : SUBSET Components, rows : Seq(Rows), rowCapacity : 0..Capacity]

\* attachSlot, with the room it makes when the reservation is full.
LEMMA AttachArch ==
    ASSUME NEW arch \in Archs, Ascends(arch.rows), NEW row \in Rows,
           NEW index \in [Slots -> Nat], IndexedBy(arch.rows, index),
           \A r \in 1..Len(arch.rows) : arch.rows[r].slot # row.slot,
           arch.rowCapacity > 0, Len(arch.rows) <= arch.rowCapacity, ~ReserveFails(arch)
    PROVE  LET new == AttachRow(arch, row)
               idx == Reindex(index, new.rows, RankIn(arch.rows, row.slot))
           IN  /\ new \in Archs /\ new.sig = arch.sig
               /\ new.rowCapacity > 0 /\ Len(new.rows) <= new.rowCapacity
               /\ Attached(arch.rows, row, index, new.rows, idx)
<1> DEFINE new == AttachRow(arch, row)
           rows == InsertAt(arch.rows, RankIn(arch.rows, row.slot), row)
           idx == Reindex(index, rows, RankIn(arch.rows, row.slot))
           c == IF Len(arch.rows) = arch.rowCapacity THEN Grown(arch) ELSE arch.rowCapacity
<1>1. /\ arch.sig \in SUBSET Components /\ arch.rows \in Seq(Rows)
      /\ arch.rowCapacity \in 0..Capacity
      /\ arch = [sig |-> arch.sig, rows |-> arch.rows, rowCapacity |-> arch.rowCapacity]
  BY DEF Archs
<1>2. new = [sig |-> arch.sig, rows |-> rows, rowCapacity |-> c]
  <2>1. new = [arch EXCEPT !.rows = rows, !.rowCapacity = c]
    BY DEF AttachRow
  <2> HIDE DEF new, rows, c
  <2>2. QED
    BY <1>1, <2>1
<1> HIDE DEF new, rows, idx
<1>3. Attached(arch.rows, row, index, rows, idx)
  BY <1>1, AttachRows DEF rows, idx
<1>4. rows \in Seq(Rows) /\ Len(rows) = Len(arch.rows) + 1 /\ Len(arch.rows) \in Nat
  BY <1>1, <1>3, LenProperties DEF Attached
<1>5. c \in 0..Capacity /\ c > 0 /\ Len(rows) <= c
  BY <1>1, <1>4, CapacityAssumption DEF Grown, Smaller, ReserveFails
<1> HIDE DEF c
<1>6. new \in Archs /\ new.sig = arch.sig /\ new.rowCapacity = c /\ new.rows = rows
  BY <1>1, <1>2, <1>4, <1>5 DEF Archs
<1>7. QED
  BY <1>3, <1>5, <1>6 DEF new, idx

\* removeRow keeps the reservation.
LEMMA RemoveArch ==
    ASSUME NEW arch \in Archs, Ascends(arch.rows), NEW k \in 1..Len(arch.rows),
           NEW index \in [Slots -> Nat],
           \A r \in 1..Len(arch.rows) : r # k => index[arch.rows[r].slot] = r,
           arch.rowCapacity > 0, Len(arch.rows) <= arch.rowCapacity
    PROVE  LET new == RemoveRow(arch, k)
               idx == Reindex(index, new.rows, k)
           IN  /\ new \in Archs /\ new.sig = arch.sig
               /\ new.rowCapacity > 0 /\ Len(new.rows) <= new.rowCapacity
               /\ Removed(arch.rows, k, index, new.rows, idx)
<1> DEFINE new == RemoveRow(arch, k)
           rows == RemoveAt(arch.rows, k)
           idx == Reindex(index, rows, k)
<1>1. /\ arch.sig \in SUBSET Components /\ arch.rows \in Seq(Rows)
      /\ arch.rowCapacity \in 0..Capacity
      /\ arch = [sig |-> arch.sig, rows |-> arch.rows, rowCapacity |-> arch.rowCapacity]
  BY DEF Archs
<1>2. new = [sig |-> arch.sig, rows |-> rows, rowCapacity |-> arch.rowCapacity]
  BY <1>1 DEF RemoveRow
<1> HIDE DEF new, rows, idx
<1>3. Removed(arch.rows, k, index, rows, idx)
  BY <1>1, RemoveRows DEF rows, idx
<1>4. rows \in Seq(Rows) /\ Len(rows) = Len(arch.rows) - 1 /\ Len(arch.rows) \in Nat
  BY <1>1, <1>3, LenProperties DEF Removed
<1>5. new \in Archs /\ new.sig = arch.sig /\ new.rowCapacity = arch.rowCapacity /\ new.rows = rows
  BY <1>1, <1>2, <1>4 DEF Archs
<1>6. Len(rows) <= arch.rowCapacity
  BY <1>1, <1>4, CapacityAssumption
<1>7. QED
  BY <1>3, <1>5, <1>6 DEF new, idx

-----------------------------------------------------------------------------
(* The store *)

\* The kinds of things the store holds.
StoreTypes ==
    /\ archetypeCount \in 0..MaxArchetypes
    /\ archetypeOf \in [Slots -> 0..archetypeCount]
    /\ rowOf \in [Slots -> Nat]
    /\ written \in [Slots -> Datas]
    /\ archetypes \in [ArchetypeIds -> Archs]

\* Rows that are all of entities of that archetype, where the index says, with what was last
\* written to them.
ArchOk(arch, a, of, wr, index) ==
    /\ Ascends(arch.rows) /\ IndexedBy(arch.rows, index)
    /\ \A r \in DOMAIN arch.rows :
         /\ of[arch.rows[r].slot] = a
         /\ arch.rows[r].data = wr[arch.rows[r].slot]
         /\ DOMAIN arch.rows[r].data = arch.sig
    /\ Len(arch.rows) <= arch.rowCapacity /\ arch.rowCapacity > 0

\* The rows of an archetype are whole in the world as it stands.
RowsOk(a) == ArchOk(archetypes[a], a, archetypeOf, written, rowOf)

\* A slot with an archetype is alive and has its row there; one without has no data.
SlotOk(s) ==
    /\ archetypeOf[s] # 0 =>
         /\ alive[s]
         /\ rowOf[s] \in DOMAIN archetypes[archetypeOf[s]].rows
         /\ archetypes[archetypeOf[s]].rows[rowOf[s]].slot = s
    /\ archetypeOf[s] = 0 => rowOf[s] = 0 /\ (alive[s] => written[s] = NoComponents)

\* Every archetype's rows are whole, every indexed entity is found, no two archetypes are the same.
StoreInv ==
    /\ StoreTypes
    /\ \A a \in 1..archetypeCount : RowsOk(a)
    /\ \A s \in Slots : SlotOk(s)

\* What an archetype record holds.
LEMMA ArchetypeTypes ==
    ASSUME StoreInv, NEW a \in ArchetypeIds
    PROVE  /\ archetypes[a].sig \in SUBSET Components /\ archetypes[a].rows \in Seq(Rows)
           /\ archetypes[a].rowCapacity \in 0..Capacity
           /\ archetypes[a] = [sig |-> archetypes[a].sig, rows |-> archetypes[a].rows,
                               rowCapacity |-> archetypes[a].rowCapacity]
  BY DEF StoreInv, StoreTypes, Archs

\* Ids in use.
LEMMA IdsInUse ==
    ASSUME StoreInv
    PROVE  /\ archetypeCount \in Nat /\ MaxArchetypes \in Nat
           /\ 1..archetypeCount \subseteq ArchetypeIds
           /\ \A s \in Slots : archetypeOf[s] # 0 => archetypeOf[s] \in 1..archetypeCount
  BY ArchetypesAssumption DEF StoreInv, StoreTypes, ArchetypeIds

\* What rows hold.
LEMMA RowTypes ==
    ASSUME NEW rows \in Seq(Rows)
    PROVE  /\ Len(rows) \in Nat /\ DOMAIN rows = 1..Len(rows)
           /\ \A r \in 1..Len(rows) :
                rows[r] \in Rows /\ rows[r].slot \in Slots /\ rows[r].data \in Datas
<1>1. \A r \in 1..Len(rows) : rows[r] \in Rows
  BY ElementOfSeq
<1>2. QED
  BY <1>1, LenProperties DEF Rows

\* The store has, for every live entity, the data last written to it.
LEMMA StoredIsWritten ==
    ASSUME StoreInv, NEW s \in Slots, alive[s]
    PROVE  SignatureOf(s) = DOMAIN written[s] /\ StoredOf(s) = written[s]
<1>1. CASE archetypeOf[s] = 0
  BY <1>1 DEF StoreInv, SlotOk, SignatureOf, StoredOf, NoComponents
<1>2. CASE archetypeOf[s] # 0
  <2>1. archetypeOf[s] \in 1..archetypeCount
    BY <1>2, IdsInUse
  <2>2. RowsOk(archetypeOf[s]) /\ SlotOk(s)
    BY <2>1 DEF StoreInv
  <2>3. QED
    BY <1>2, <2>2 DEF RowsOk, ArchOk, SlotOk, SignatureOf, StoredOf
<1>3. QED
  BY <1>1, <1>2

\* An archetype has or can get room for an entity that is not in it.
LEMMA RoomForMore ==
    ASSUME StoreInv, NEW a \in 1..archetypeCount, NEW s \in Slots, archetypeOf[s] # a
    PROVE  ~ReserveFails(archetypes[a])
<1> DEFINE rows == archetypes[a].rows
           n == Len(rows)
           c == archetypes[a].rowCapacity
<1>1. a \in ArchetypeIds /\ RowsOk(a)
  BY IdsInUse DEF StoreInv
<1>2. /\ rows \in Seq(Rows) /\ c \in 0..Capacity
      /\ n \in Nat /\ DOMAIN rows = 1..n
      /\ \A r \in 1..n : rows[r].slot \in Slots
  BY <1>1, ArchetypeTypes, RowTypes
<1>3. Ascends(rows) /\ n <= c /\ c > 0 /\ \A r \in 1..n : archetypeOf[rows[r].slot] = a
  BY <1>1, <1>2 DEF RowsOk, ArchOk
<1>4. n < Capacity
  <2> DEFINE p == [r \in 1..n |-> rows[r].slot]
             T == Slots \ {s}
  <2>1. IsFiniteSet(Slots) /\ Cardinality(Slots) = Capacity
    BY CapacityAssumption, FS_Interval DEF Slots
  <2>2. IsFiniteSet(T) /\ Cardinality(T) = Capacity - 1
    BY <2>1, FS_RemoveElement
  <2>3. p \in [1..n -> T]
    BY <1>2, <1>3
  <2>4. IsInjective(p)
    <3>1. \A q, r \in 1..n : rows[q].slot = rows[r].slot => q = r
      BY <1>2, <1>3, OneRowEach
    <3>2. QED
      BY <3>1 DEF IsInjective
  <2>5. p \in Injection(1..n, T)
    BY <2>3, <2>4 DEF Injection
  <2> HIDE DEF p, T
  <2>6. Cardinality(1..n) <= Cardinality(T)
    BY <2>2, <2>5, FS_Injection
  <2>7. Cardinality(1..n) = n
    BY <1>2, UpTo
  <2>8. QED
    BY <1>2, <2>2, <2>6, <2>7, CapacityAssumption
<1> HIDE DEF c, n
<1>5. n = c => ~(Smaller(Capacity, 2 * c) <= c)
  BY <1>2, <1>3, <1>4, CapacityAssumption DEF Smaller
<1>6. QED
  BY <1>5 DEF ReserveFails, Grown, c, n

\* The archetype an entity leaves: its other rows stay whole and are found again.
LEMMA SourceKeeps ==
    ASSUME StoreInv, NEW s \in Slots, archetypeOf[s] # 0, NEW index \in [Slots -> Nat],
           \A t \in Slots : t # s /\ archetypeOf[t] = archetypeOf[s] => index[t] = rowOf[t],
           NEW arch, arch = RemoveRow(archetypes[archetypeOf[s]], rowOf[s]),
           NEW idx, idx = Reindex(index, arch.rows, rowOf[s]),
           NEW of, \A t \in Slots : t # s => of[t] = archetypeOf[t],
           NEW wr, \A t \in Slots : t # s => wr[t] = written[t]
    PROVE  /\ arch \in Archs /\ ArchOk(arch, archetypeOf[s], of, wr, idx)
           /\ arch.sig = archetypes[archetypeOf[s]].sig
           /\ idx \in [Slots -> Nat]
           /\ \A t \in Slots : t # s /\ archetypeOf[t] = archetypeOf[s] =>
                 idx[t] \in DOMAIN arch.rows /\ arch.rows[idx[t]].slot = t
           /\ \A t \in Slots : t = s \/ archetypeOf[t] # archetypeOf[s] => idx[t] = index[t]
<1> DEFINE a == archetypeOf[s]
           old == archetypes[a]
           k == rowOf[s]
<1>1. a \in ArchetypeIds /\ a \in 1..archetypeCount /\ RowsOk(a) /\ SlotOk(s)
  BY IdsInUse DEF StoreInv
<1>2. old \in Archs /\ old.rows \in Seq(Rows)
  BY <1>1 DEF StoreInv, StoreTypes, Archs
<1>3. /\ Len(old.rows) \in Nat /\ DOMAIN old.rows = 1..Len(old.rows)
      /\ \A r \in 1..Len(old.rows) : old.rows[r].slot \in Slots
  BY <1>2, RowTypes
<1>4. k \in 1..Len(old.rows) /\ old.rows[k].slot = s
  BY <1>1, <1>3 DEF SlotOk
<1>5. /\ Ascends(old.rows) /\ Len(old.rows) <= old.rowCapacity /\ old.rowCapacity > 0
      /\ \A r \in 1..Len(old.rows) :
           /\ rowOf[old.rows[r].slot] = r
           /\ archetypeOf[old.rows[r].slot] = a
           /\ old.rows[r].data = written[old.rows[r].slot]
           /\ DOMAIN old.rows[r].data = old.sig
  BY <1>1, <1>3 DEF RowsOk, ArchOk, IndexedBy
<1>6. \A r \in 1..Len(old.rows) : r # k => old.rows[r].slot # s
  BY <1>4, <1>5
<1>7. \A r \in 1..Len(old.rows) : r # k => index[old.rows[r].slot] = r
  BY <1>3, <1>5, <1>6
<1>8. arch = RemoveRow(old, k) /\ idx = Reindex(index, arch.rows, k)
  OBVIOUS
<1>9. /\ arch \in Archs /\ arch.sig = old.sig
      /\ arch.rowCapacity > 0 /\ Len(arch.rows) <= arch.rowCapacity
      /\ Removed(old.rows, k, index, arch.rows, idx)
  <2> HIDE DEF old, k
  <2>1. LET new == RemoveRow(old, k)
            i == Reindex(index, new.rows, k)
        IN  /\ new \in Archs /\ new.sig = old.sig
            /\ new.rowCapacity > 0 /\ Len(new.rows) <= new.rowCapacity
            /\ Removed(old.rows, k, index, new.rows, i)
    BY <1>2, <1>4, <1>5, <1>7, RemoveArch
  <2>2. QED
    BY <1>8, <2>1
<1>10. DOMAIN arch.rows = 1..Len(arch.rows)
  BY <1>9, RowTypes DEF Removed
<1>11. \A t \in Slots : t # s /\ archetypeOf[t] = a =>
                           rowOf[t] \in 1..Len(old.rows) /\ old.rows[rowOf[t]].slot = t
  BY <1>1, <1>3 DEF StoreInv, SlotOk
<1> HIDE DEF old, k
<1>12. ASSUME NEW r \in 1..Len(arch.rows)
       PROVE  /\ of[arch.rows[r].slot] = a
              /\ arch.rows[r].data = wr[arch.rows[r].slot]
              /\ DOMAIN arch.rows[r].data = old.sig
  <2>1. PICK q \in 1..Len(old.rows) : q # k /\ arch.rows[r] = old.rows[q]
    BY <1>9 DEF Removed
  <2>2. old.rows[q].slot \in Slots /\ old.rows[q].slot # s
    BY <1>3, <1>6, <2>1
  <2>3. QED
    BY <1>5, <2>1, <2>2
<1>13. ArchOk(arch, a, of, wr, idx)
  BY <1>9, <1>10, <1>12 DEF ArchOk, Removed
<1>14. ASSUME NEW t \in Slots, t # s, archetypeOf[t] = a
       PROVE  idx[t] \in DOMAIN arch.rows /\ arch.rows[idx[t]].slot = t
  <2>1. rowOf[t] \in 1..Len(old.rows) /\ old.rows[rowOf[t]].slot = t /\ rowOf[t] # k
    BY <1>4, <1>11, <1>14
  <2>2. \A q \in 1..Len(old.rows) : q # k =>
          idx[old.rows[q].slot] \in 1..Len(arch.rows)
          /\ arch.rows[idx[old.rows[q].slot]] = old.rows[q]
    BY <1>9 DEF Removed
  <2>3. idx[t] \in 1..Len(arch.rows) /\ arch.rows[idx[t]] = old.rows[rowOf[t]]
    BY <2>1, <2>2
  <2>4. QED
    BY <1>10, <2>1, <2>3
<1>15. ASSUME NEW t \in Slots, t = s \/ archetypeOf[t] # a PROVE idx[t] = index[t]
  <2>1. \A q \in 1..Len(old.rows) : q # k => old.rows[q].slot # t
    BY <1>5, <1>6, <1>15
  <2>2. QED
    BY <1>9, <2>1 DEF Removed
<1>16. QED
  BY <1>9, <1>13, <1>14, <1>15 DEF Removed, old

\* The archetype an entity joins, new or in use, has its row and the ones it had.
LEMMA TargetKeeps ==
    ASSUME StoreInv, NEW s \in Slots, NEW a \in ArchetypeIds, archetypeOf[s] # a,
           NEW newData \in Datas, NEW base \in Archs, base.sig = DOMAIN newData,
           ArchOk(base, a, archetypeOf, written, rowOf),
           \A t \in Slots : archetypeOf[t] = a =>
                              rowOf[t] \in DOMAIN base.rows /\ base.rows[rowOf[t]].slot = t,
           ~ReserveFails(base),
           NEW arch, arch = AttachRow(base, [slot |-> s, data |-> newData]),
           NEW idx, idx = Reindex(rowOf, arch.rows, RankIn(base.rows, s)),
           NEW of, of[s] = a, \A t \in Slots : t # s => of[t] = archetypeOf[t],
           NEW wr, wr[s] = newData, \A t \in Slots : t # s => wr[t] = written[t]
    PROVE  /\ arch \in Archs /\ ArchOk(arch, a, of, wr, idx) /\ arch.sig = base.sig
           /\ idx \in [Slots -> Nat]
           /\ \A t \in Slots : t = s \/ archetypeOf[t] = a =>
                 idx[t] \in DOMAIN arch.rows /\ arch.rows[idx[t]].slot = t
           /\ \A t \in Slots : t # s /\ archetypeOf[t] # a => idx[t] = rowOf[t]
<1> DEFINE row == [slot |-> s, data |-> newData]
<1>1. base.rows \in Seq(Rows) /\ rowOf \in [Slots -> Nat]
  BY DEF StoreInv, StoreTypes, Archs
<1>2. /\ Len(base.rows) \in Nat /\ DOMAIN base.rows = 1..Len(base.rows)
      /\ \A r \in 1..Len(base.rows) : base.rows[r].slot \in Slots
  BY <1>1, RowTypes
<1>3. /\ Ascends(base.rows) /\ IndexedBy(base.rows, rowOf)
      /\ Len(base.rows) <= base.rowCapacity /\ base.rowCapacity > 0
      /\ \A r \in 1..Len(base.rows) :
           /\ archetypeOf[base.rows[r].slot] = a
           /\ base.rows[r].data = written[base.rows[r].slot]
           /\ DOMAIN base.rows[r].data = base.sig
  BY <1>2 DEF ArchOk
<1>4. row \in Rows /\ row.slot = s /\ row.data = newData
  BY DEF Rows
<1>5. \A r \in 1..Len(base.rows) : base.rows[r].slot # s
  BY <1>3
<1>6. arch = AttachRow(base, row) /\ idx = Reindex(rowOf, arch.rows, RankIn(base.rows, row.slot))
  BY <1>4
<1> HIDE DEF row
<1>7. /\ arch \in Archs /\ arch.sig = base.sig
      /\ arch.rowCapacity > 0 /\ Len(arch.rows) <= arch.rowCapacity
      /\ Attached(base.rows, row, rowOf, arch.rows, idx)
  <2>1. LET new == AttachRow(base, row)
            i == Reindex(rowOf, new.rows, RankIn(base.rows, row.slot))
        IN  /\ new \in Archs /\ new.sig = base.sig
            /\ new.rowCapacity > 0 /\ Len(new.rows) <= new.rowCapacity
            /\ Attached(base.rows, row, rowOf, new.rows, i)
    BY <1>1, <1>3, <1>4, <1>5, AttachArch
  <2>2. QED
    BY <1>6, <2>1
<1>8. DOMAIN arch.rows = 1..Len(arch.rows)
  BY <1>7, RowTypes DEF Attached
<1>9. ASSUME NEW r \in 1..Len(arch.rows)
      PROVE  /\ of[arch.rows[r].slot] = a
             /\ arch.rows[r].data = wr[arch.rows[r].slot]
             /\ DOMAIN arch.rows[r].data = base.sig
  <2>1. CASE arch.rows[r] = row
    BY <1>4, <2>1
  <2>2. CASE arch.rows[r] # row
    <3>1. PICK q \in 1..Len(base.rows) : arch.rows[r] = base.rows[q]
      BY <1>7, <2>2 DEF Attached
    <3>2. base.rows[q].slot \in Slots /\ base.rows[q].slot # s
      BY <1>2, <1>5
    <3>3. QED
      BY <1>3, <3>1, <3>2
  <2>3. QED
    BY <2>1, <2>2
<1>10. ArchOk(arch, a, of, wr, idx)
  BY <1>7, <1>8, <1>9 DEF ArchOk, Attached
<1>11. ASSUME NEW t \in Slots, t = s \/ archetypeOf[t] = a
       PROVE  idx[t] \in DOMAIN arch.rows /\ arch.rows[idx[t]].slot = t
  <2>1. CASE t = s
    BY <1>4, <1>7, <1>8, <2>1 DEF Attached
  <2>2. CASE t # s
    <3>1. rowOf[t] \in 1..Len(base.rows) /\ base.rows[rowOf[t]].slot = t
      BY <1>2, <1>11, <2>2
    <3>2. QED
      BY <1>7, <1>8, <3>1 DEF Attached
  <2>3. QED
    BY <2>1, <2>2
<1>12. ASSUME NEW t \in Slots, t # s, archetypeOf[t] # a PROVE idx[t] = rowOf[t]
  <2>1. \A q \in 1..Len(base.rows) : base.rows[q].slot # t
    BY <1>3, <1>12
  <2>2. QED
    BY <1>4, <1>7, <1>12, <2>1 DEF Attached
<1>13. QED
  BY <1>7, <1>10, <1>11, <1>12 DEF Attached

-----------------------------------------------------------------------------
(* Moves between archetypes *)
\* Rows are whole as long as nothing about their own slots changes.
LEMMA ArchOkSame ==
    ASSUME NEW arch \in Archs, NEW a, NEW of, NEW wr, NEW index, ArchOk(arch, a, of, wr, index),
           NEW of2, NEW wr2, NEW index2,
           \A t \in Slots : of[t] = a => of2[t] = a /\ wr2[t] = wr[t] /\ index2[t] = index[t]
    PROVE  ArchOk(arch, a, of2, wr2, index2)
<1>1. arch.rows \in Seq(Rows)
  BY DEF Archs
<1>2. DOMAIN arch.rows = 1..Len(arch.rows)
      /\ \A r \in 1..Len(arch.rows) : arch.rows[r].slot \in Slots
  BY <1>1, RowTypes
<1>3. QED
  BY <1>2 DEF ArchOk, IndexedBy

\* addComponent and removeComponent: the entity's row is in the archetype of its new
\* component set, and in no other.
LEMMA MoveKeeps ==
    ASSUME StoreInv, NEW s \in Slots, alive[s], NEW newData \in Datas, MoveEntity(s, newData),
           DOMAIN newData # {}, DOMAIN newData # SignatureOf(s), UNCHANGED alive,
           written' = [written EXCEPT ![s] = newData]
    PROVE  /\ StoreInv' /\ archetypeCount <= archetypeCount'
           /\ \A a \in 1..archetypeCount :
                /\ archetypes'[a].sig = archetypes[a].sig
                /\ a \notin {archetypeOf[s], TargetArchetype(DOMAIN newData)} =>
                     archetypes'[a] = archetypes[a]
<1> DEFINE sig == DOMAIN newData
           source == archetypeOf[s]
           target == TargetArchetype(sig)
           isNew == target = archetypeCount + 1
           base == IF isNew THEN NewArchetype(sig) ELSE archetypes[target]
           attached == AttachRow(base, [slot |-> s, data |-> newData])
           idx == Reindex(rowOf, attached.rows, RankIn(base.rows, s))
           removed == RemoveRow(archetypes[source], rowOf[s])
           afterAttach == [archetypes EXCEPT ![target] = attached]
<1>1. /\ target \in ArchetypeIds /\ ~ReserveFails(base)
      /\ archetypeCount' = IF isNew THEN target ELSE archetypeCount
      /\ archetypeOf' = [archetypeOf EXCEPT ![s] = target]
      /\ source = 0 => archetypes' = afterAttach /\ rowOf' = idx
      /\ source # 0 => /\ archetypes' = [afterAttach EXCEPT ![source] = removed]
                       /\ rowOf' = Reindex(idx, removed.rows, rowOf[s])
  BY DEF MoveEntity
<1>2. /\ archetypeCount \in Nat /\ MaxArchetypes \in Nat /\ archetypeCount <= MaxArchetypes
      /\ 1..archetypeCount \subseteq ArchetypeIds
      /\ source # 0 => source \in 1..archetypeCount
      /\ sig \in SUBSET Components
      /\ archetypes \in [ArchetypeIds -> Archs] /\ rowOf \in [Slots -> Nat]
      /\ archetypeOf \in [Slots -> 0..archetypeCount] /\ written \in [Slots -> Datas]
      /\ archetypeOf[s] \in 0..archetypeCount
  BY IdsInUse DEF StoreInv, StoreTypes, Datas
<1>3. \/ target \in 1..archetypeCount /\ archetypes[target].sig = sig /\ ~isNew
      \/ target = archetypeCount + 1 /\ isNew
  <2>1. CASE FindArchetype(sig) # 0
    <3>1. \E a \in 1..archetypeCount : archetypes[a].sig = sig
      BY <2>1 DEF FindArchetype
    <3>2. FindArchetype(sig) \in 1..archetypeCount /\ archetypes[FindArchetype(sig)].sig = sig
      BY <3>1 DEF FindArchetype
    <3>3. target = FindArchetype(sig)
      BY <2>1 DEF TargetArchetype
    <3>4. QED
      BY <1>2, <3>2, <3>3
  <2>2. CASE FindArchetype(sig) = 0
    BY <2>2 DEF TargetArchetype
  <2>3. QED
    BY <2>1, <2>2
<1> HIDE DEF target
<1>4. target # source /\ target \in Nat \ {0}
  <2>1. CASE isNew
    BY <1>2, <1>3, <2>1
  <2>2. CASE ~isNew
    BY <1>2, <1>3, <2>2 DEF SignatureOf
  <2>3. QED
    BY <2>1, <2>2
<1>5. /\ archetypeCount' \in 0..MaxArchetypes /\ archetypeCount <= archetypeCount'
      /\ target \in 1..archetypeCount'
      /\ \A a \in 1..archetypeCount' : a = target \/ a \in 1..archetypeCount
  BY <1>1, <1>2, <1>3, ArchetypesAssumption DEF ArchetypeIds
<1>6. /\ base \in Archs /\ base.sig = sig /\ ArchOk(base, target, archetypeOf, written, rowOf)
      /\ \A t \in Slots : archetypeOf[t] = target =>
           rowOf[t] \in DOMAIN base.rows /\ base.rows[rowOf[t]].slot = t
  <2>1. CASE isNew
    <3>1. base = [sig |-> sig, rows |-> <<>>, rowCapacity |-> Smaller(Capacity, InitialRows)]
      BY <2>1 DEF NewArchetype
    <3>2. Smaller(Capacity, InitialRows) \in 0..Capacity /\ Smaller(Capacity, InitialRows) > 0
      BY CapacityAssumption, ArchetypesAssumption DEF Smaller
    <3>3. <<>> \in Seq(Rows) /\ Len(<<>>) = 0 /\ DOMAIN <<>> = {}
      BY EmptySeq
    <3> HIDE DEF base, sig
    <3>4. base.sig = sig /\ base.rows = <<>> /\ base.rowCapacity = Smaller(Capacity, InitialRows)
      BY <3>1
    <3>5. base \in Archs
      BY <1>2, <3>1, <3>2, <3>3 DEF Archs
    <3>6. ArchOk(base, target, archetypeOf, written, rowOf)
      BY <3>2, <3>3, <3>4 DEF ArchOk, Ascends, IndexedBy
    <3>7. \A t \in Slots : archetypeOf[t] # target
      BY <1>2, <1>3, <2>1
    <3>8. QED
      BY <3>4, <3>5, <3>6, <3>7
  <2>2. CASE ~isNew
    <3>1. target \in 1..archetypeCount /\ base = archetypes[target] /\ base.sig = sig
      BY <1>3, <2>2
    <3>2. target \in ArchetypeIds /\ RowsOk(target)
      BY <1>2, <3>1 DEF StoreInv
    <3>3. base \in Archs
      BY <1>2, <3>1, <3>2
    <3>4. \A t \in Slots : archetypeOf[t] = target =>
            rowOf[t] \in DOMAIN base.rows /\ base.rows[rowOf[t]].slot = t
      BY <1>4, <3>1 DEF StoreInv, SlotOk
    <3>5. QED
      BY <3>1, <3>2, <3>3, <3>4 DEF RowsOk
  <2>3. QED
    BY <2>1, <2>2
<1>7. /\ archetypeOf' \in [Slots -> 0..archetypeCount'] /\ archetypeOf'[s] = target
      /\ \A t \in Slots : t # s => archetypeOf'[t] = archetypeOf[t]
      /\ written' \in [Slots -> Datas] /\ written'[s] = newData
      /\ \A t \in Slots : t # s => written'[t] = written[t]
  <2>1. \A x \in 0..archetypeCount : x \in 0..archetypeCount'
    BY <1>2, <1>5
  <2>2. target \in 0..archetypeCount'
    BY <1>5
  <2>3. QED
    BY <1>1, <1>2, <2>1, <2>2
<1> HIDE DEF base
<1>8. /\ attached \in Archs /\ ArchOk(attached, target, archetypeOf', written', idx)
      /\ attached.sig = base.sig /\ idx \in [Slots -> Nat]
      /\ \A t \in Slots : t = s \/ archetypeOf[t] = target =>
            idx[t] \in DOMAIN attached.rows /\ attached.rows[idx[t]].slot = t
      /\ \A t \in Slots : t # s /\ archetypeOf[t] # target => idx[t] = rowOf[t]
  <2>1. /\ attached = AttachRow(base, [slot |-> s, data |-> newData])
        /\ idx = Reindex(rowOf, attached.rows, RankIn(base.rows, s))
    OBVIOUS
  <2>2. /\ target \in ArchetypeIds /\ base \in Archs /\ base.sig = DOMAIN newData
        /\ archetypeOf[s] # target
        /\ ArchOk(base, target, archetypeOf, written, rowOf) /\ ~ReserveFails(base)
        /\ \A t \in Slots : archetypeOf[t] = target =>
             rowOf[t] \in DOMAIN base.rows /\ base.rows[rowOf[t]].slot = t
    BY <1>1, <1>4, <1>6
  <2>3. /\ archetypeOf'[s] = target /\ \A t \in Slots : t # s => archetypeOf'[t] = archetypeOf[t]
        /\ written'[s] = newData /\ \A t \in Slots : t # s => written'[t] = written[t]
    BY <1>7
  <2> HIDE DEF attached, idx
  <2>4. QED
    BY ONLY <2>3, <2>1, <2>2, StoreInv, s \in Slots, newData \in Datas, TargetKeeps
<1> HIDE DEF attached, idx
<1>9. ASSUME source # 0
      PROVE  /\ removed \in Archs /\ ArchOk(removed, source, archetypeOf', written', rowOf')
             /\ removed.sig = archetypes[source].sig /\ rowOf' \in [Slots -> Nat]
             /\ \A t \in Slots : t # s /\ archetypeOf[t] = source =>
                   rowOf'[t] \in DOMAIN removed.rows /\ removed.rows[rowOf'[t]].slot = t
             /\ \A t \in Slots : t = s \/ archetypeOf[t] # source => rowOf'[t] = idx[t]
  <2>1. \A t \in Slots : t # s /\ archetypeOf[t] = archetypeOf[s] => idx[t] = rowOf[t]
    BY <1>4, <1>8
  <2>2. rowOf' = Reindex(idx, removed.rows, rowOf[s])
    BY <1>1, <1>9
  <2>3. removed = RemoveRow(archetypes[archetypeOf[s]], rowOf[s])
    OBVIOUS
  <2> HIDE DEF removed
  <2>4. /\ idx \in [Slots -> Nat] /\ archetypeOf[s] # 0
        /\ \A t \in Slots : t # s => archetypeOf'[t] = archetypeOf[t]
        /\ \A t \in Slots : t # s => written'[t] = written[t]
    BY <1>7, <1>8, <1>9
  <2>5. QED
    BY ONLY <2>1, <2>2, <2>3, <2>4, StoreInv, s \in Slots, SourceKeeps
<1> HIDE DEF removed
<1>10. /\ rowOf' \in [Slots -> Nat]
       /\ \A t \in Slots : (t = s \/ source = 0 \/ archetypeOf[t] # source) => rowOf'[t] = idx[t]
  <2>1. CASE source = 0
    BY <1>1, <1>8, <2>1
  <2>2. CASE source # 0
    BY <1>9, <2>2
  <2>3. QED
    BY <2>1, <2>2
<1>11. /\ archetypes' \in [ArchetypeIds -> Archs]
       /\ archetypes'[target] = attached
       /\ source # 0 => archetypes'[source] = removed
       /\ \A a \in ArchetypeIds : a # target /\ a # source => archetypes'[a] = archetypes[a]
  <2>1. source # 0 => removed \in Archs /\ source \in ArchetypeIds
    BY <1>2, <1>9
  <2>2. /\ afterAttach \in [ArchetypeIds -> Archs] /\ afterAttach[target] = attached
        /\ \A a \in ArchetypeIds : a # target => afterAttach[a] = archetypes[a]
    BY <1>1, <1>2, <1>8
  <2> HIDE DEF afterAttach
  <2>3. QED
    BY <1>1, <1>4, <2>1, <2>2
<1>12. StoreTypes'
  BY <1>5, <1>7, <1>10, <1>11 DEF StoreTypes
<1>13. ASSUME NEW a \in 1..archetypeCount' PROVE RowsOk(a)'
  <2>1. a \in ArchetypeIds /\ a # 0
    BY <1>1, <1>2, <1>5
  <2>2. CASE a = target
    <3>1. \A t \in Slots : archetypeOf'[t] = target => rowOf'[t] = idx[t]
      BY <1>4, <1>7, <1>10
    <3>2. ArchOk(attached, target, archetypeOf', written', rowOf')
      BY <1>8, <3>1, ArchOkSame
    <3>3. QED
      BY <1>11, <2>2, <3>2 DEF RowsOk
  <2>3. CASE a # target /\ a = source
    BY <1>9, <1>11, <2>1, <2>3 DEF RowsOk
  <2>4. CASE a # target /\ a # source
    <3>1. archetypes'[a] = archetypes[a] /\ a \in 1..archetypeCount /\ RowsOk(a)
          /\ archetypes[a] \in Archs
      BY <1>2, <1>5, <1>11, <2>1, <2>4 DEF StoreInv
    <3>2. \A t \in Slots : archetypeOf[t] = a =>
            archetypeOf'[t] = a /\ written'[t] = written[t] /\ rowOf'[t] = rowOf[t]
      <4>1. ASSUME NEW t \in Slots, archetypeOf[t] = a
            PROVE  archetypeOf'[t] = a /\ written'[t] = written[t] /\ rowOf'[t] = rowOf[t]
        <5>1. t # s
          BY <2>4, <4>1
        <5>2. QED
          BY <1>7, <1>8, <1>10, <2>4, <4>1, <5>1
      <4>2. QED
        BY <4>1
    <3>3. ArchOk(archetypes[a], a, archetypeOf', written', rowOf')
      <4>1. archetypes[a] \in Archs /\ ArchOk(archetypes[a], a, archetypeOf, written, rowOf)
        BY <3>1 DEF RowsOk
      <4>2. QED
        BY ONLY <3>2, <4>1, ArchOkSame
    <3>4. QED
      BY <3>1, <3>3 DEF RowsOk
  <2>5. QED
    BY <2>2, <2>3, <2>4
<1>14. ASSUME NEW t \in Slots PROVE SlotOk(t)'
  <2>0. alive' = alive /\ SlotOk(t)
    BY DEF StoreInv
  <2>1. CASE t = s
    BY <1>4, <1>7, <1>8, <1>10, <1>11, <2>0, <2>1 DEF SlotOk
  <2>2. CASE t # s /\ archetypeOf[t] = 0
    <3>1. rowOf'[t] = rowOf[t]
      BY <1>4, <1>8, <1>10, <2>2
    <3>2. QED
      BY <1>7, <2>0, <2>2, <3>1 DEF SlotOk
  <2>3. CASE t # s /\ archetypeOf[t] # 0
    <3>1. archetypeOf[t] \in ArchetypeIds /\ archetypeOf'[t] = archetypeOf[t] /\ alive[t]
      BY <1>2, <1>7, <2>0, <2>3, IdsInUse DEF SlotOk
    <3>2. CASE archetypeOf[t] = target
      BY <1>4, <1>8, <1>10, <1>11, <2>0, <2>3, <3>1, <3>2 DEF SlotOk
    <3>3. CASE archetypeOf[t] # target /\ archetypeOf[t] = source
      BY <1>9, <1>11, <2>0, <2>3, <3>1, <3>3 DEF SlotOk
    <3>4. CASE archetypeOf[t] # target /\ archetypeOf[t] # source
      <4>1. rowOf'[t] = rowOf[t] /\ archetypes'[archetypeOf[t]] = archetypes[archetypeOf[t]]
        BY <1>8, <1>10, <1>11, <2>3, <3>1, <3>4
      <4>2. QED
        BY <2>0, <2>3, <3>1, <4>1 DEF SlotOk
    <3>5. QED
      BY <3>2, <3>3, <3>4
  <2>4. QED
    BY <2>1, <2>2, <2>3
<1>15. ASSUME NEW a \in 1..archetypeCount PROVE archetypes'[a].sig = archetypes[a].sig
  <2>1. CASE a = target
    <3>1. archetypes[target].sig = sig
      BY <1>2, <1>3, <2>1
    <3>2. QED
      BY <1>6, <1>8, <1>11, <2>1, <3>1
  <2>2. CASE a # target /\ a = source
    BY <1>2, <1>9, <1>11, <2>2
  <2>3. CASE a # target /\ a # source
    BY <1>2, <1>11, <2>3
  <2>4. QED
    BY <2>1, <2>2, <2>3
<1>16. StoreInv'
  BY <1>12, <1>13, <1>14 DEF StoreInv
<1>17. \A a \in 1..archetypeCount : a \notin {source, target} => archetypes'[a] = archetypes[a]
  BY <1>2, <1>11
<1>18. QED
  BY <1>5, <1>15, <1>16, <1>17 DEF target

\* create(), and destroy() and clear() on an entity without components: no row is touched.
LEMMA IdleKeeps ==
    ASSUME StoreInv, NEW s \in Slots, archetypeOf[s] = 0,
           UNCHANGED <<archetypes, archetypeCount, archetypeOf, rowOf>>,
           \A t \in Slots : t # s => alive'[t] = alive[t] /\ written'[t] = written[t],
           written' \in [Slots -> Datas], alive'[s] => written'[s] = NoComponents
    PROVE  StoreInv'
<1>1. StoreTypes'
  BY DEF StoreInv, StoreTypes
<1>2. ASSUME NEW a \in 1..archetypeCount PROVE RowsOk(a)'
  <2>1. RowsOk(a) /\ archetypes[a] \in Archs
    BY IdsInUse DEF StoreInv, StoreTypes
  <2>2. \A t \in Slots : archetypeOf[t] = a =>
          archetypeOf[t] = a /\ written'[t] = written[t] /\ rowOf[t] = rowOf[t]
    OBVIOUS
  <2>3. ArchOk(archetypes[a], a, archetypeOf, written, rowOf)
    BY <2>1 DEF RowsOk
  <2>4. ArchOk(archetypes[a], a, archetypeOf, written', rowOf)
    BY ONLY <2>1, <2>2, <2>3, ArchOkSame
  <2>5. QED
    BY <2>4 DEF RowsOk
<1>3. ASSUME NEW t \in Slots PROVE SlotOk(t)'
  BY DEF StoreInv, SlotOk
<1>4. QED
  BY <1>1, <1>2, <1>3 DEF StoreInv

\* destroy(), clear() and removeComponent of the last one: the entity's row leaves.
LEMMA DetachKeeps ==
    ASSUME StoreInv, NEW s \in Slots, archetypeOf[s] # 0, DetachRow(s), UNCHANGED archetypeCount,
           \A t \in Slots : t # s => alive'[t] = alive[t] /\ written'[t] = written[t],
           written' \in [Slots -> Datas], alive'[s] => written'[s] = NoComponents
    PROVE  /\ StoreInv'
           /\ \A a \in 1..archetypeCount :
                /\ archetypes'[a].sig = archetypes[a].sig
                /\ a # archetypeOf[s] => archetypes'[a] = archetypes[a]
<1> DEFINE source == archetypeOf[s]
           removed == RemoveRow(archetypes[source], rowOf[s])
           idx == Reindex(rowOf, removed.rows, rowOf[s])
<1>1. /\ archetypes' = [archetypes EXCEPT ![source] = removed]
      /\ rowOf' = [idx EXCEPT ![s] = 0]
      /\ archetypeOf' = [archetypeOf EXCEPT ![s] = 0]
  BY DEF DetachRow
<1>2. /\ archetypeCount \in Nat /\ 1..archetypeCount \subseteq ArchetypeIds
      /\ source \in 1..archetypeCount /\ source \in ArchetypeIds
      /\ archetypes \in [ArchetypeIds -> Archs] /\ rowOf \in [Slots -> Nat]
      /\ archetypeOf \in [Slots -> 0..archetypeCount]
  BY IdsInUse DEF StoreInv, StoreTypes
<1>3. /\ archetypeOf' \in [Slots -> 0..archetypeCount] /\ archetypeOf'[s] = 0
      /\ \A t \in Slots : t # s => archetypeOf'[t] = archetypeOf[t]
  BY <1>1, <1>2
<1>4. /\ removed \in Archs /\ ArchOk(removed, source, archetypeOf', written', idx)
      /\ removed.sig = archetypes[source].sig /\ idx \in [Slots -> Nat]
      /\ \A t \in Slots : t # s /\ archetypeOf[t] = source =>
            idx[t] \in DOMAIN removed.rows /\ removed.rows[idx[t]].slot = t
      /\ \A t \in Slots : t = s \/ archetypeOf[t] # source => idx[t] = rowOf[t]
  <2>1. /\ removed = RemoveRow(archetypes[archetypeOf[s]], rowOf[s])
        /\ idx = Reindex(rowOf, removed.rows, rowOf[s])
    OBVIOUS
  <2>2. /\ rowOf \in [Slots -> Nat] /\ archetypeOf[s] # 0
        /\ \A t \in Slots : t # s => archetypeOf'[t] = archetypeOf[t]
        /\ \A t \in Slots : t # s => written'[t] = written[t]
        /\ \A t \in Slots : t # s /\ archetypeOf[t] = archetypeOf[s] => rowOf[t] = rowOf[t]
    BY <1>2, <1>3
  <2> HIDE DEF removed, idx
  <2>3. QED
    BY ONLY <2>1, <2>2, StoreInv, s \in Slots, SourceKeeps
<1> HIDE DEF removed, idx
<1>5. /\ rowOf' \in [Slots -> Nat] /\ rowOf'[s] = 0
      /\ \A t \in Slots : t # s => rowOf'[t] = idx[t]
      /\ archetypes' \in [ArchetypeIds -> Archs] /\ archetypes'[source] = removed
      /\ \A a \in ArchetypeIds : a # source => archetypes'[a] = archetypes[a]
  BY <1>1, <1>2, <1>4
<1>6. StoreTypes'
  BY <1>3, <1>5 DEF StoreInv, StoreTypes
<1>7. ASSUME NEW a \in 1..archetypeCount PROVE RowsOk(a)'
  <2>1. a \in ArchetypeIds /\ a # 0
    BY <1>2
  <2>2. CASE a = source
    <3>1. \A t \in Slots : archetypeOf'[t] = source =>
            archetypeOf'[t] = source /\ written'[t] = written'[t] /\ rowOf'[t] = idx[t]
      BY <1>3, <1>5, <2>1, <2>2
    <3>2. removed \in Archs /\ ArchOk(removed, source, archetypeOf', written', idx)
      BY <1>4
    <3>3. ArchOk(removed, source, archetypeOf', written', rowOf')
      BY ONLY <3>1, <3>2, ArchOkSame
    <3>4. QED
      BY <1>5, <2>2, <3>3 DEF RowsOk
  <2>3. CASE a # source
    <3>1. archetypes'[a] = archetypes[a] /\ RowsOk(a) /\ archetypes[a] \in Archs
      BY <1>2, <1>5, <2>1, <2>3 DEF StoreInv
    <3>2. \A t \in Slots : archetypeOf[t] = a =>
            archetypeOf'[t] = a /\ written'[t] = written[t] /\ rowOf'[t] = rowOf[t]
      BY <1>3, <1>4, <1>5, <2>3
    <3>3. archetypes[a] \in Archs /\ ArchOk(archetypes[a], a, archetypeOf, written, rowOf)
      BY <3>1 DEF RowsOk
    <3>4. ArchOk(archetypes[a], a, archetypeOf', written', rowOf')
      BY ONLY <3>2, <3>3, ArchOkSame
    <3>5. QED
      BY <3>1, <3>4 DEF RowsOk
  <2>4. QED
    BY <2>2, <2>3
<1>8. ASSUME NEW t \in Slots PROVE SlotOk(t)'
  <2>1. SlotOk(t)
    BY DEF StoreInv
  <2>2. CASE t = s
    BY <1>3, <1>5, <2>2 DEF SlotOk
  <2>3. CASE t # s /\ archetypeOf[t] = source
    BY <1>2, <1>3, <1>4, <1>5, <2>1, <2>3 DEF SlotOk
  <2>4. CASE t # s /\ archetypeOf[t] = 0
    BY <1>2, <1>3, <1>4, <1>5, <2>1, <2>4 DEF SlotOk
  <2>5. CASE t # s /\ archetypeOf[t] # source /\ archetypeOf[t] # 0
    <3>1. archetypeOf[t] \in ArchetypeIds
      BY <1>2, <2>5, IdsInUse
    <3>2. archetypes'[archetypeOf[t]] = archetypes[archetypeOf[t]] /\ rowOf'[t] = rowOf[t]
          /\ alive'[t] = alive[t]
      BY <1>4, <1>5, <2>5, <3>1
    <3>3. QED
      BY <1>3, <2>1, <2>5, <3>2 DEF SlotOk
  <2>6. QED
    BY <2>2, <2>3, <2>4, <2>5
<1>9. StoreInv'
  BY <1>6, <1>7, <1>8 DEF StoreInv
<1>10. \A a \in 1..archetypeCount :
         /\ archetypes'[a].sig = archetypes[a].sig
         /\ a # source => archetypes'[a] = archetypes[a]
  BY <1>2, <1>4, <1>5
<1>11. QED
  BY <1>9, <1>10

\* addComponent on a component the entity has, and the writes of an each(): a value changes where
\* it is stored.
LEMMA WriteKeeps ==
    ASSUME StoreInv, NEW a \in 1..archetypeCount, NEW k \in 1..Len(archetypes[a].rows),
           NEW c \in archetypes[a].sig, NEW v \in Values,
           archetypes' = [archetypes EXCEPT ![a].rows[k].data[c] = v],
           written' = [written EXCEPT ![archetypes[a].rows[k].slot][c] = v],
           UNCHANGED <<alive, archetypeOf, rowOf, archetypeCount>>
    PROVE  /\ StoreInv'
           /\ \A b \in ArchetypeIds : archetypes'[b].sig = archetypes[b].sig
           /\ \A b \in ArchetypeIds : SlotsOf(archetypes'[b].rows) = SlotsOf(archetypes[b].rows)
<1> DEFINE arch == archetypes[a]
           rows == arch.rows
           s == rows[k].slot
           data == [rows[k].data EXCEPT ![c] = v]
           row == [slot |-> s, data |-> data]
           new == [rows EXCEPT ![k] = row]
           newArch == [sig |-> arch.sig, rows |-> new, rowCapacity |-> arch.rowCapacity]
<1>1. /\ a \in ArchetypeIds /\ RowsOk(a) /\ arch \in Archs
      /\ archetypes \in [ArchetypeIds -> Archs] /\ written \in [Slots -> Datas]
  BY IdsInUse DEF StoreInv, StoreTypes
<1>2. /\ arch.sig \in SUBSET Components /\ rows \in Seq(Rows) /\ arch.rowCapacity \in 0..Capacity
      /\ arch = [sig |-> arch.sig, rows |-> rows, rowCapacity |-> arch.rowCapacity]
  BY <1>1 DEF Archs
<1>3. /\ DOMAIN rows = 1..Len(rows) /\ Len(rows) \in Nat /\ k \in 1..Len(rows)
      /\ \A r \in 1..Len(rows) :
           rows[r] \in Rows /\ rows[r].slot \in Slots /\ rows[r].data \in Datas
  BY <1>2, RowTypes
<1>4. /\ Ascends(rows) /\ IndexedBy(rows, rowOf)
      /\ \A r \in 1..Len(rows) :
           /\ archetypeOf[rows[r].slot] = a
           /\ rows[r].data = written[rows[r].slot]
           /\ DOMAIN rows[r].data = arch.sig
      /\ Len(rows) <= arch.rowCapacity /\ arch.rowCapacity > 0
  BY <1>1, <1>3 DEF RowsOk, ArchOk
<1>5. s \in Slots /\ rows[k] = [slot |-> s, data |-> rows[k].data]
  BY <1>3 DEF Rows
<1>6. data \in Datas /\ DOMAIN data = arch.sig
  <2>1. DOMAIN rows[k].data = arch.sig
    BY <1>4
  <2>2. rows[k].data \in [arch.sig -> Values]
    BY <1>3, <2>1 DEF Datas
  <2> HIDE DEF rows, arch
  <2>3. data \in [arch.sig -> Values]
    BY <2>2
  <2>4. QED
    BY <1>2, <2>3 DEF Datas
<1>7. written' = [written EXCEPT ![s] = data]
  BY <1>4
<1>8. archetypes' = [archetypes EXCEPT ![a] = newArch]
  <2>1. archetypes' = [archetypes EXCEPT ![a] =
                        [arch EXCEPT !.rows = [rows EXCEPT ![k] = [rows[k] EXCEPT !.data = data]]]]
    OBVIOUS
  <2>2. [rows[k] EXCEPT !.data = data] = row
    <3> HIDE DEF data, rows
    <3>1. QED
      BY <1>5
  <2> HIDE DEF data, row, rows
  <2>3. [arch EXCEPT !.rows = new] = newArch
    <3> HIDE DEF arch, new
    <3>1. QED
      BY <1>2
  <2>4. QED
    BY <2>1, <2>2, <2>3
<1>9. row \in Rows /\ row.slot = s /\ row.data = data
  <2> HIDE DEF s, data
  <2>1. QED
    BY <1>5, <1>6 DEF Rows
<1> HIDE DEF s, data, row
<1>10. /\ new \in Seq(Rows) /\ Len(new) = Len(rows) /\ DOMAIN new = 1..Len(rows)
       /\ new[k] = row /\ \A r \in 1..Len(rows) : r # k => new[r] = rows[r]
  <2> HIDE DEF rows
  <2>1. new[k] = row /\ \A r \in 1..Len(rows) : r # k => new[r] = rows[r]
    BY <1>3
  <2>2. new \in [1..Len(rows) -> Rows]
    BY <1>3, <1>9
  <2>3. new \in Seq(Rows) /\ Len(new) = Len(rows)
    BY <1>2, <1>9, ExceptSeq
  <2>4. QED
    BY <2>1, <2>2, <2>3
<1>11. \A r \in 1..Len(rows) : new[r].slot = rows[r].slot
  BY <1>9, <1>10 DEF s
<1> HIDE DEF new
<1>12. newArch \in Archs /\ newArch.sig = arch.sig /\ newArch.rows = new
       /\ newArch.rowCapacity = arch.rowCapacity
  BY <1>2, <1>10 DEF Archs
<1> HIDE DEF newArch
<1>13. /\ written' \in [Slots -> Datas] /\ written'[s] = data
       /\ \A t \in Slots : t # s => written'[t] = written[t]
       /\ archetypes' \in [ArchetypeIds -> Archs] /\ archetypes'[a] = newArch
       /\ \A b \in ArchetypeIds : b # a => archetypes'[b] = archetypes[b]
  BY <1>1, <1>5, <1>6, <1>7, <1>8, <1>12
<1>14. StoreTypes'
  BY <1>13 DEF StoreInv, StoreTypes
<1>15. RowsOk(a)'
  <2>1. ASSUME NEW r \in 1..Len(rows)
        PROVE  /\ archetypeOf[new[r].slot] = a
               /\ new[r].data = written'[new[r].slot] /\ DOMAIN new[r].data = arch.sig
    <3>1. CASE r = k
      BY <1>4, <1>6, <1>9, <1>10, <1>11, <1>13, <3>1
    <3>2. CASE r # k
      <4>1. new[r] = rows[r]
        BY <1>10, <3>2
      <4>2. rows[r].slot # s
        BY <1>4, <1>3, <3>2 DEF IndexedBy, s
      <4>3. QED
        BY <1>3, <1>4, <1>13, <4>1, <4>2
    <3>3. QED
      BY <3>1, <3>2
  <2>2. Ascends(new)
    BY <1>3, <1>4, <1>10, <1>11 DEF Ascends
  <2>3. IndexedBy(new, rowOf)
    BY <1>3, <1>4, <1>10, <1>11 DEF IndexedBy
  <2>4. ArchOk(newArch, a, archetypeOf, written', rowOf)
    BY <1>4, <1>10, <1>12, <2>1, <2>2, <2>3 DEF ArchOk
  <2>5. QED
    BY <1>13, <2>4 DEF RowsOk
<1>16. ASSUME NEW b \in 1..archetypeCount, b # a PROVE RowsOk(b)'
  <2>1. archetypes'[b] = archetypes[b] /\ RowsOk(b) /\ archetypes[b] \in Archs
    BY <1>1, <1>13, <1>16, IdsInUse DEF StoreInv
  <2>2. \A t \in Slots : archetypeOf[t] = b =>
          archetypeOf[t] = b /\ written'[t] = written[t] /\ rowOf[t] = rowOf[t]
    BY <1>4, <1>13, <1>16 DEF s
  <2>3. archetypes[b] \in Archs /\ ArchOk(archetypes[b], b, archetypeOf, written, rowOf)
    BY <2>1 DEF RowsOk
  <2>4. ArchOk(archetypes[b], b, archetypeOf, written', rowOf)
    BY ONLY <2>2, <2>3, ArchOkSame
  <2>5. QED
    BY <2>1, <2>4 DEF RowsOk
<1>17. ASSUME NEW t \in Slots PROVE SlotOk(t)'
  <2>1. SlotOk(t)
    BY DEF StoreInv
  <2>2. CASE archetypeOf[t] = a
    <3>1. rowOf[t] \in 1..Len(rows) /\ rows[rowOf[t]].slot = t /\ a # 0
      BY <1>1, <1>3, <2>1, <2>2 DEF SlotOk, ArchetypeIds
    <3>2. rowOf[t] \in DOMAIN newArch.rows /\ newArch.rows[rowOf[t]].slot = t
      BY <1>10, <1>11, <1>12, <3>1
    <3>3. QED
      BY <1>13, <2>1, <2>2, <3>1, <3>2 DEF SlotOk
  <2>3. CASE archetypeOf[t] # a /\ archetypeOf[t] # 0
    <3>1. archetypes'[archetypeOf[t]] = archetypes[archetypeOf[t]]
      BY <1>13, <2>3, IdsInUse
    <3>2. QED
      BY <2>1, <2>3, <3>1 DEF SlotOk
  <2>4. CASE archetypeOf[t] = 0
    <3>1. t # s
      BY <1>1, <1>4, <2>4 DEF s, ArchetypeIds
    <3>2. QED
      BY <1>13, <2>1, <2>4, <3>1 DEF SlotOk
  <2>5. QED
    BY <2>2, <2>3, <2>4
<1>18. StoreInv'
  BY <1>14, <1>15, <1>16, <1>17 DEF StoreInv
<1>19. SlotsOf(newArch.rows) = SlotsOf(rows)
  BY <1>3, <1>10, <1>11, <1>12 DEF SlotsOf
<1>20. QED
  BY <1>12, <1>13, <1>18, <1>19

-----------------------------------------------------------------------------
(* Steps on the store *)
\* The running each(): the archetypes under the guard, which are those it walks, hold the query's
\* components; and a clear() from its callback found them empty.
EachInv ==
    /\ iterationActive \in BOOLEAN
    /\ query \subseteq Components /\ iterationReadComponents \subseteq query
    /\ iterationArchetypes \subseteq 1..archetypeCount
    /\ matchedIds \in Seq(iterationArchetypes)
    /\ \A a \in iterationArchetypes : query \subseteq archetypes[a].sig
    /\ cursor \in [archetype : Nat \ {0}, row : Nat \ {0}]
    /\ (clearing # -1 /\ iterationActive) =>
         \A a \in iterationArchetypes : archetypes[a].rows = <<>>

\* No step takes an archetype or its component set away, or a row from under a running each().
ArchetypesStay ==
    /\ archetypeCount <= archetypeCount'
    /\ \A a \in 1..archetypeCount :
         /\ archetypes'[a].sig = archetypes[a].sig
         /\ iterationActive /\ a \in iterationArchetypes =>
              SlotsOf(archetypes'[a].rows) = SlotsOf(archetypes[a].rows)

\* Values of a component more, or less.
LEMMA WithIs ==
    ASSUME NEW data \in Datas, NEW c \in Components, NEW v \in Values
    PROVE  With(data, c, v) \in Datas /\ DOMAIN With(data, c, v) = DOMAIN data \cup {c}
<1>1. PICK D \in SUBSET Components : data \in [D -> Values]
  BY DEF Datas
<1>2. D \cup {c} \in SUBSET Components /\ With(data, c, v) \in [D \cup {c} -> Values]
  BY <1>1 DEF With
<1>3. QED
  BY <1>1, <1>2 DEF Datas

\* Dropping a component leaves the others.
LEMMA WithoutIs ==
    ASSUME NEW data \in Datas, NEW c
    PROVE  Without(data, c) \in Datas /\ DOMAIN Without(data, c) = DOMAIN data \ {c}
<1>1. PICK D \in SUBSET Components : data \in [D -> Values]
  BY DEF Datas
<1>2. D \ {c} \in SUBSET Components /\ Without(data, c) \in [D \ {c} -> Values]
  BY <1>1 DEF Without
<1>3. QED
  BY <1>1, <1>2 DEF Datas

\* A new entity's empty set of components is one.
LEMMA NoData == NoComponents \in Datas
<1>1. {} \in SUBSET Components /\ NoComponents \in [{} -> Values]
  BY DEF NoComponents
<1>2. QED
  BY <1>1 DEF Datas

\* A step that leaves the store alone.
LEMMA StoreSame ==
    ASSUME StoreInv, UNCHANGED <<alive, storeVars, written>>
    PROVE  StoreInv' /\ ArchetypesStay
<1>1. archetypeCount \in Nat
  BY IdsInUse
<1>2. QED
  BY <1>1 DEF storeVars, StoreInv, StoreTypes, RowsOk, SlotOk, ArchetypesStay

\* Moving an entity under the guard.
LEMMA MoveStays ==
    ASSUME StoreInv, NEW s \in Slots, alive[s], NEW newData \in Datas, MoveEntity(s, newData),
           DOMAIN newData # {}, DOMAIN newData # SignatureOf(s), UNCHANGED alive,
           written' = [written EXCEPT ![s] = newData]
    PROVE  StoreInv' /\ ArchetypesStay
<1>1. /\ StoreInv' /\ archetypeCount <= archetypeCount'
      /\ \A a \in 1..archetypeCount :
           /\ archetypes'[a].sig = archetypes[a].sig
           /\ a \notin {archetypeOf[s], TargetArchetype(DOMAIN newData)} =>
                archetypes'[a] = archetypes[a]
  BY ONLY StoreInv, s \in Slots, alive[s], newData \in Datas, MoveEntity(s, newData),
          DOMAIN newData # {}, DOMAIN newData # SignatureOf(s), UNCHANGED alive,
          written' = [written EXCEPT ![s] = newData], MoveKeeps
<1>2. StructuralAllowed(archetypeOf[s], TargetArchetype(DOMAIN newData))
  BY DEF MoveEntity
<1>3. iterationActive => /\ archetypeOf[s] \notin iterationArchetypes
                         /\ TargetArchetype(DOMAIN newData) \notin iterationArchetypes
  BY <1>2 DEF StructuralAllowed
<1>4. QED
  BY <1>1, <1>3 DEF ArchetypesStay

\* A row leaves under the guard, or there is none.
LEMMA DetachStays ==
    ASSUME StoreInv, NEW s \in Slots, DetachRow(s), UNCHANGED archetypeCount,
           iterationActive => archetypeOf[s] \notin iterationArchetypes,
           \A t \in Slots : t # s => alive'[t] = alive[t] /\ written'[t] = written[t],
           written' \in [Slots -> Datas], alive'[s] => written'[s] = NoComponents
    PROVE  StoreInv' /\ ArchetypesStay
<1>1. CASE archetypeOf[s] = 0
  <2>1. UNCHANGED <<archetypes, archetypeCount, archetypeOf, rowOf>>
    BY <1>1 DEF DetachRow
  <2>2. StoreInv'
    BY <1>1, <2>1, IdleKeeps
  <2>3. archetypeCount \in Nat
    BY IdsInUse
  <2>4. QED
    BY <2>1, <2>2, <2>3 DEF ArchetypesStay
<1>2. CASE archetypeOf[s] # 0
  <2>1. /\ StoreInv'
        /\ \A a \in 1..archetypeCount :
             /\ archetypes'[a].sig = archetypes[a].sig
             /\ a # archetypeOf[s] => archetypes'[a] = archetypes[a]
    BY <1>2, DetachKeeps
  <2>2. archetypeCount \in Nat
    BY IdsInUse
  <2>3. QED
    BY <2>1, <2>2 DEF ArchetypesStay
<1>3. QED
  BY <1>1, <1>2

\* A value is overwritten.
LEMMA WriteStays ==
    ASSUME StoreInv, NEW a \in 1..archetypeCount, NEW k \in 1..Len(archetypes[a].rows),
           NEW c \in archetypes[a].sig, NEW v \in Values,
           archetypes' = [archetypes EXCEPT ![a].rows[k].data[c] = v],
           written' = [written EXCEPT ![archetypes[a].rows[k].slot][c] = v],
           UNCHANGED <<alive, archetypeOf, rowOf, archetypeCount>>
    PROVE  StoreInv' /\ ArchetypesStay
<1>1. /\ StoreInv'
      /\ \A b \in ArchetypeIds : archetypes'[b].sig = archetypes[b].sig
      /\ \A b \in ArchetypeIds : SlotsOf(archetypes'[b].rows) = SlotsOf(archetypes[b].rows)
  BY WriteKeeps
<1>2. archetypeCount' = archetypeCount /\ archetypeCount \in Nat
      /\ 1..archetypeCount \subseteq ArchetypeIds
  BY IdsInUse
<1>3. QED
  BY ONLY <1>1, <1>2 DEF ArchetypesStay

\* Every step keeps the store whole, and what the running each() walks.
LEMMA StoreStep == FreeInv /\ StoreInv /\ EachInv /\ [Next]_vars => StoreInv' /\ ArchetypesStay
<1> SUFFICES ASSUME FreeInv, StoreInv, EachInv, [Next]_vars PROVE StoreInv' /\ ArchetypesStay
    OBVIOUS
<1>0. /\ alive \in [Slots -> BOOLEAN] /\ written \in [Slots -> Datas]
      /\ archetypeOf \in [Slots -> 0..archetypeCount] /\ rowOf \in [Slots -> Nat]
  BY DEF FreeInv, Partitioned, StoreInv, StoreTypes
<1>1. CASE Create
  <2> DEFINE s == Last(freeStack)
  <2>1. /\ freeStack # <<>> /\ freeStack' = Front(freeStack)
        /\ alive' = [alive EXCEPT ![s] = TRUE]
        /\ archetypeOf' = [archetypeOf EXCEPT ![s] = 0] /\ rowOf' = [rowOf EXCEPT ![s] = 0]
        /\ written' = [written EXCEPT ![s] = NoComponents]
        /\ UNCHANGED <<archetypes, archetypeCount>>
    BY <1>1 DEF Create
  <2>2. s \in Slots /\ ~alive[s]
    BY <2>1, PopKeeps DEF FreeInv
  <2> HIDE DEF s
  <2>3. archetypeOf[s] = 0 /\ rowOf[s] = 0
    BY <2>2 DEF StoreInv, SlotOk
  <2>4. UNCHANGED <<archetypes, archetypeCount, archetypeOf, rowOf>>
    BY <1>0, <2>1, <2>2, <2>3
  <2>5. /\ \A t \in Slots : t # s => alive'[t] = alive[t] /\ written'[t] = written[t]
        /\ written' \in [Slots -> Datas] /\ written'[s] = NoComponents
    BY <1>0, <2>1, <2>2, NoData
  <2>6. StoreInv'
    BY <2>2, <2>3, <2>4, <2>5, IdleKeeps
  <2>7. QED
    BY <2>4, <2>6, IdsInUse DEF ArchetypesStay
<1>2. ASSUME NEW s \in Slots, NEW c \in Components, NEW v \in Values, AddInPlace(s, c, v)
      PROVE  StoreInv' /\ ArchetypesStay
  <2> DEFINE a == archetypeOf[s]
             k == rowOf[s]
  <2>1. c \in SignatureOf(s)
    BY <1>2 DEF AddInPlace
  <2>2. a # 0 /\ c \in archetypes[a].sig
    BY <2>1 DEF SignatureOf
  <2>3. a \in 1..archetypeCount /\ SlotOk(s) /\ archetypes[a].rows \in Seq(Rows)
    BY <2>2, IdsInUse, ArchetypeTypes DEF StoreInv
  <2>4. k \in 1..Len(archetypes[a].rows) /\ archetypes[a].rows[k].slot = s
    BY <2>2, <2>3, RowTypes DEF SlotOk
  <2>5. /\ archetypes' = [archetypes EXCEPT ![a].rows[k].data[c] = v]
        /\ written' = [written EXCEPT ![archetypes[a].rows[k].slot][c] = v]
        /\ UNCHANGED <<alive, archetypeOf, rowOf, archetypeCount>>
    BY <1>2, <2>4 DEF AddInPlace, slotVars
  <2> HIDE DEF a, k
  <2>6. QED
    BY <2>2, <2>3, <2>4, <2>5, WriteStays
<1>3. ASSUME NEW s \in Slots, NEW c \in Components, NEW v \in Values, AddComponent(s, c, v)
      PROVE  StoreInv' /\ ArchetypesStay
  <2> DEFINE new == With(written[s], c, v)
  <2>1. /\ alive[s] /\ c \notin SignatureOf(s) /\ MoveEntity(s, With(StoredOf(s), c, v))
        /\ written' = [written EXCEPT ![s] = new] /\ UNCHANGED alive
    BY <1>3 DEF AddComponent, slotVars
  <2>2. SignatureOf(s) = DOMAIN written[s] /\ MoveEntity(s, new)
    BY <2>1, StoredIsWritten
  <2>3. new \in Datas /\ DOMAIN new = DOMAIN written[s] \cup {c}
    BY <1>0, WithIs
  <2>4. DOMAIN new # {} /\ DOMAIN new # SignatureOf(s)
    BY <2>1, <2>2, <2>3
  <2> HIDE DEF new
  <2>5. QED
    BY <2>1, <2>2, <2>3, <2>4, MoveStays
<1>4. ASSUME NEW s \in Slots, NEW c \in Components, RemoveComponent(s, c)
      PROVE  StoreInv' /\ ArchetypesStay
  <2> DEFINE new == Without(written[s], c)
  <2>1. /\ alive[s] /\ c \in SignatureOf(s) /\ SignatureOf(s) # {c}
        /\ MoveEntity(s, Without(StoredOf(s), c))
        /\ written' = [written EXCEPT ![s] = new] /\ UNCHANGED alive
    BY <1>4 DEF RemoveComponent, slotVars
  <2>2. SignatureOf(s) = DOMAIN written[s] /\ MoveEntity(s, new)
    BY <2>1, StoredIsWritten
  <2>3. new \in Datas /\ DOMAIN new = DOMAIN written[s] \ {c}
    BY <1>0, WithoutIs
  <2>4. DOMAIN new # {} /\ DOMAIN new # SignatureOf(s)
    BY <2>1, <2>2, <2>3
  <2> HIDE DEF new
  <2>5. QED
    BY <2>1, <2>2, <2>3, <2>4, MoveStays
<1>5. ASSUME NEW s \in Slots, NEW c \in Components, RemoveLastComponent(s, c)
      PROVE  StoreInv' /\ ArchetypesStay
  <2>1. /\ StructuralAllowed(archetypeOf[s], 0) /\ DetachRow(s)
        /\ written' = [written EXCEPT ![s] = NoComponents] /\ UNCHANGED <<alive, archetypeCount>>
    BY <1>5 DEF RemoveLastComponent, slotVars
  <2>2. iterationActive => archetypeOf[s] \notin iterationArchetypes
    BY <2>1 DEF StructuralAllowed
  <2>3. /\ \A t \in Slots : t # s => alive'[t] = alive[t] /\ written'[t] = written[t]
        /\ written' \in [Slots -> Datas] /\ written'[s] = NoComponents
    BY <1>0, <2>1, NoData
  <2>4. QED
    BY <2>1, <2>2, <2>3, DetachStays
<1>6. ASSUME NEW s \in Slots, Destroy(s) PROVE StoreInv' /\ ArchetypesStay
  <2>1. /\ StructuralAllowed(archetypeOf[s], 0) /\ DetachRow(s) /\ Release(s)
        /\ UNCHANGED <<written, archetypeCount>>
    BY <1>6 DEF Destroy
  <2>2. iterationActive => archetypeOf[s] \notin iterationArchetypes
    BY <2>1 DEF StructuralAllowed
  <2>3. ~alive'[s] /\ \A t \in Slots : t # s => alive'[t] = alive[t] /\ written'[t] = written[t]
    BY <1>0, <2>1 DEF Release
  <2>4. QED
    BY <1>0, <2>1, <2>2, <2>3, DetachStays
<1>7. CASE ClearSlot
  <2>1. clearing \in Slots /\ UNCHANGED <<written, archetypeCount>>
    BY <1>7 DEF ClearSlot
  <2>2. CASE alive[clearing]
    <3>1. DetachRow(clearing) /\ Release(clearing)
      BY <1>7, <2>2 DEF ClearSlot
    <3>2. iterationActive => archetypeOf[clearing] \notin iterationArchetypes
      <4> SUFFICES ASSUME iterationActive, archetypeOf[clearing] \in iterationArchetypes PROVE FALSE
          OBVIOUS
      <4>1. clearing # -1 /\ archetypeCount \in Nat
        BY <2>1, CapacityAssumption, IdsInUse DEF Slots
      <4>2. archetypes[archetypeOf[clearing]].rows = <<>>
        BY <4>1 DEF EachInv
      <4>3. iterationArchetypes \subseteq 1..archetypeCount
        BY DEF EachInv
      <4>4. archetypeOf[clearing] \in 1..archetypeCount
        BY <4>3
      <4>5. archetypeOf[clearing] # 0
        BY <4>1, <4>4
      <4>6. rowOf[clearing] \in DOMAIN <<>>
        BY <2>1, <4>2, <4>5 DEF StoreInv, SlotOk
      <4>7. QED
        BY <4>6
    <3>3. /\ ~alive'[clearing]
          /\ \A t \in Slots : t # clearing => alive'[t] = alive[t] /\ written'[t] = written[t]
      BY <1>0, <2>1, <3>1 DEF Release
    <3>4. QED
      BY <1>0, <2>1, <3>1, <3>2, <3>3, DetachStays
  <2>3. CASE ~alive[clearing]
    BY <1>7, <2>1, <2>3, StoreSame DEF ClearSlot, storeVars
  <2>4. QED
    BY <2>2, <2>3
<1>8. CASE EachVisit
  <2> DEFINE a == matchedIds[cursor.archetype]
             k == cursor.row
  <2>1. cursor.archetype <= Len(matchedIds) /\ k <= Len(AtCursor)
    BY <1>8 DEF EachVisit
  <2>2. UNCHANGED <<alive, archetypeOf, rowOf, archetypeCount>>
    BY <1>8 DEF EachVisit, slotVars
  <2>3. /\ \/ UNCHANGED <<archetypes, written>>
           \/ \E c \in query \ iterationReadComponents, v \in Values :
                /\ archetypes' = [archetypes EXCEPT ![a].rows[k].data[c] = v]
                /\ written' = [written EXCEPT ![AtCursor[k].slot][c] = v]
    BY <1>8 DEF EachVisit
  <2>4. /\ matchedIds \in Seq(iterationArchetypes) /\ cursor.archetype \in Nat \ {0}
        /\ k \in Nat \ {0}
    BY DEF EachInv
  <2>5. Len(matchedIds) \in Nat
    BY <2>4, LenProperties
  <2>6. cursor.archetype \in 1..Len(matchedIds)
    BY <2>4, <2>5, <2>1
  <2>7. a \in iterationArchetypes
    BY <2>4, <2>6, ElementOfSeq
  <2>8. a \in 1..archetypeCount /\ query \subseteq archetypes[a].sig
        /\ AtCursor = archetypes[a].rows
    BY <2>7 DEF EachInv, AtCursor
  <2>9. archetypes[a].rows \in Seq(Rows)
    BY <2>8, IdsInUse, ArchetypeTypes
  <2>10. Len(archetypes[a].rows) \in Nat
    BY <2>9, LenProperties
  <2>11. k \in 1..Len(archetypes[a].rows)
    BY <2>4, <2>8, <2>10, <2>1
  <2> HIDE DEF a, k
  <2>12. CASE UNCHANGED <<archetypes, written>>
    BY <2>2, <2>12, StoreSame DEF storeVars
  <2>13. ASSUME NEW c \in query \ iterationReadComponents, NEW v \in Values,
               archetypes' = [archetypes EXCEPT ![a].rows[k].data[c] = v],
               written' = [written EXCEPT ![AtCursor[k].slot][c] = v]
        PROVE  StoreInv' /\ ArchetypesStay
    <3>1. written' = [written EXCEPT ![archetypes[a].rows[k].slot][c] = v]
      BY <2>8, <2>13
    <3>2. archetypes' = [archetypes EXCEPT ![a].rows[k].data[c] = v]
      BY <2>13
    <3>3. a \in 1..archetypeCount /\ c \in archetypes[a].sig
      BY <2>8
    <3>4. QED
      BY ONLY StoreInv, v \in Values, <2>2, <2>11, <3>1, <3>2, <3>3, WriteStays
  <2>14. QED
    BY <2>3, <2>12, <2>13
<1>9. ASSUME NEW q, NEW readOnly, EachBegin(q, readOnly) PROVE StoreInv' /\ ArchetypesStay
  BY <1>9, StoreSame DEF EachBegin, slotVars
<1>10. CASE EachNextArchetype \/ EachEnd
  BY <1>10, StoreSame DEF EachNextArchetype, EachEnd, slotVars
<1>11. CASE BeginFrame \/ ClearBegin \/ ClearEnd
  BY <1>11, StoreSame DEF BeginFrame, ClearBegin, ClearEnd
<1>12. CASE UNCHANGED vars
  BY <1>12, StoreSame DEF vars, slotVars
<1>13. QED
  BY <1>1, <1>2, <1>3, <1>4, <1>5, <1>6, <1>7, <1>8, <1>9, <1>10, <1>11, <1>12 DEF Next

\* Ascending lists exactly the ids.
LEMMA AscendingLists ==
    ASSUME NEW n \in Nat, NEW ids \in SUBSET (1..n)
    PROVE  Ascending(ids) \in Seq(ids) /\ Len(Ascending(ids)) = Cardinality(ids)
<1> DEFINE c == Cardinality(ids)
           p == [a \in ids |-> Rank(ids, a)]
<1>0. \A x \in ids : x \in Int
  OBVIOUS
<1>1. IsFiniteSet(ids) /\ c \in Nat
  BY UpTo, FS_Subset, FS_CardinalityType
<1>2. ASSUME NEW a \in ids PROVE Rank(ids, a) \in 1..c
  <2> DEFINE low == {b \in ids : b <= a}
  <2>1. IsFiniteSet(low) /\ Cardinality(low) <= c /\ Cardinality(low) \in Nat
    BY <1>1, FS_Subset, FS_CardinalityType
  <2>2. a \in low
    OBVIOUS
  <2>3. Cardinality(low) # 0
    BY <2>1, <2>2, FS_EmptySet
  <2> HIDE DEF low, c
  <2>4. Cardinality(low) \in 1..c
    BY <1>1, <2>1, <2>3
  <2>5. QED
    BY <2>4 DEF Rank, low
<1>3. ASSUME NEW a \in ids, NEW b \in ids, a < b PROVE Rank(ids, a) # Rank(ids, b)
  <2> DEFINE lowA == {x \in ids : x <= a}
             lowB == {x \in ids : x <= b}
  <2>1. IsFiniteSet(lowA) /\ IsFiniteSet(lowB)
    BY <1>1, FS_Subset
  <2>2. lowA \subseteq lowB /\ b \in lowB /\ b \notin lowA
    <3>1. a \in Int /\ b \in Int /\ a < b
      BY <1>0, <1>3
    <3>2. ASSUME NEW x \in lowA PROVE x \in lowB
      <4>1. x \in ids /\ x <= a /\ x \in Int
        BY <1>0
      <4>2. QED
        BY <3>1, <4>1
    <3>3. b \in lowB /\ b \notin lowA
      BY <3>1
    <3>4. QED
      BY <3>2, <3>3
  <2> HIDE DEF lowA, lowB
  <2>3. Cardinality(lowA) # Cardinality(lowB)
    BY <2>1, <2>2, FS_Subset
  <2>4. QED
    BY <2>3 DEF Rank, lowA, lowB
<1>4. p \in [ids -> 1..c]
  BY <1>2
<1>5. \A a, b \in ids : p[a] = p[b] => a = b
  BY <1>3
<1>6. IsFiniteSet(1..c) /\ Cardinality(1..c) = c
  BY <1>1, UpTo
<1> HIDE DEF p
<1>7. p \in Surjection(ids, 1..c)
  <2>1. p \in Injection(ids, 1..c)
    BY <1>4, <1>5 DEF Injection, IsInjective
  <2>2. QED
    BY <1>1, <1>6, <2>1, FS_Injection
<1>8. \A i \in 1..c : \E a \in ids : Rank(ids, a) = i
  BY <1>7 DEF Surjection, p
<1>9. Ascending(ids) = [i \in 1..c |-> CHOOSE a \in ids : Rank(ids, a) = i]
  BY DEF Ascending
<1> HIDE DEF c
<1>10. Ascending(ids) \in [1..c -> ids]
  BY <1>8, <1>9
<1>11. QED
  BY <1>1, <1>10 DEF c

\* Rows with the slots of no row are no rows.
LEMMA NoRows ==
    ASSUME NEW rows \in Seq(Rows), SlotsOf(rows) = SlotsOf(<<>>)
    PROVE  rows = <<>>
<1>1. DOMAIN rows = 1..Len(rows) /\ Len(rows) \in Nat
  BY RowTypes
<1>2. DOMAIN SlotsOf(rows) = DOMAIN rows /\ DOMAIN SlotsOf(<<>>) = {}
  BY DEF SlotsOf
<1>3. Len(rows) = 0
  <2>1. 1 \notin 1..Len(rows)
    BY <1>1, <1>2
  <2>2. QED
    BY <1>1, <2>1
<1>4. QED
  BY <1>3, EmptySeq

\* Only these actions touch the running each() or start a clear().
LEMMA EachActions ==
    ASSUME [Next]_vars
    PROVE  \/ \E q \in SUBSET Components : \E readOnly \in SUBSET q : EachBegin(q, readOnly)
           \/ EachVisit \/ EachNextArchetype \/ EachEnd \/ ClearBegin
           \/ UNCHANGED eachVars /\ (clearing = -1 => clearing' = -1)
<1>1. ASSUME NEW s \in Slots, NEW c \in Components, NEW v \in Values,
             AddInPlace(s, c, v) \/ AddComponent(s, c, v)
      PROVE  UNCHANGED <<eachVars, clearing>>
  BY <1>1 DEF AddInPlace, AddComponent, slotVars
<1>2. ASSUME NEW s \in Slots, NEW c \in Components,
             RemoveComponent(s, c) \/ RemoveLastComponent(s, c)
      PROVE  UNCHANGED <<eachVars, clearing>>
  BY <1>2 DEF RemoveComponent, RemoveLastComponent, slotVars
<1>3. ASSUME NEW s \in Slots, Destroy(s) PROVE UNCHANGED <<eachVars, clearing>>
  BY <1>3 DEF Destroy
<1>4. Create \/ BeginFrame => UNCHANGED <<eachVars, clearing>>
  BY DEF Create, BeginFrame
<1>5. ClearSlot \/ ClearEnd => UNCHANGED eachVars /\ (clearing = -1 => clearing' = -1)
  BY CapacityAssumption DEF ClearSlot, ClearEnd, Slots
<1>6. UNCHANGED vars => UNCHANGED <<eachVars, clearing>>
  BY DEF vars, slotVars
<1>7. QED
  BY <1>1, <1>2, <1>3, <1>4, <1>5, <1>6 DEF Next

\* Every step keeps what is known of the running each().
LEMMA EachStep == StoreInv /\ StoreInv' /\ EachInv /\ ArchetypesStay /\ [Next]_vars => EachInv'
<1> SUFFICES ASSUME StoreInv, StoreInv', EachInv, ArchetypesStay, [Next]_vars PROVE EachInv'
    OBVIOUS
<1>1. ASSUME NEW q \in SUBSET Components, NEW readOnly \in SUBSET q, EachBegin(q, readOnly)
      PROVE  EachInv'
  <2>1. /\ iterationActive' = TRUE /\ iterationReadComponents' = readOnly /\ query' = q
        /\ matchedIds' = Ascending(Matched(q)) /\ iterationArchetypes' = Matched(q)
        /\ cursor' = [archetype |-> 1, row |-> 1] /\ clearing' = -1
        /\ UNCHANGED <<archetypes, archetypeCount>>
    BY <1>1 DEF EachBegin, MatchedBy, slotVars, storeVars, Ready, NotClearing
  <2>2. /\ Matched(q) \in SUBSET (1..archetypeCount) /\ archetypeCount \in Nat
        /\ \A a \in Matched(q) : q \subseteq archetypes[a].sig
    BY IdsInUse DEF Matched
  <2>3. Ascending(Matched(q)) \in Seq(Matched(q))
    BY <2>2, AscendingLists
  <2>4. QED
    BY <2>1, <2>2, <2>3 DEF EachInv
<1>2. CASE EachEnd
  <2>1. /\ iterationActive' = FALSE /\ iterationReadComponents' = {} /\ query' = {}
        /\ matchedIds' = <<>> /\ iterationArchetypes' = {}
        /\ cursor' = [archetype |-> 1, row |-> 1]
    BY <1>2 DEF EachEnd
  <2>2. <<>> \in Seq({})
        /\ [archetype |-> 1, row |-> 1] \in [archetype : Nat \ {0}, row : Nat \ {0}]
    BY EmptySeq
  <2>3. QED
    BY <2>1, <2>2 DEF EachInv
<1>3. CASE UNCHANGED <<iterationActive, iterationArchetypes, iterationReadComponents,
                       query, matchedIds>>
  <2>1. iterationArchetypes \subseteq 1..archetypeCount /\ archetypeCount \in Nat
        /\ archetypeCount' \in Nat
    BY IdsInUse DEF EachInv, StoreInv, StoreTypes
  <2>2. iterationArchetypes \subseteq 1..archetypeCount'
    BY <2>1 DEF ArchetypesStay
  <2>3. \A a \in iterationArchetypes : query \subseteq archetypes'[a].sig
    BY <2>1 DEF EachInv, ArchetypesStay
  <2>4. cursor' \in [archetype : Nat \ {0}, row : Nat \ {0}]
    <3>1. cursor = [archetype |-> cursor.archetype, row |-> cursor.row]
          /\ cursor.archetype \in Nat \ {0} /\ cursor.row \in Nat \ {0}
      BY DEF EachInv
    <3>2. \/ cursor' = cursor
          \/ cursor' = [archetype |-> 1, row |-> 1]
          \/ cursor' = [archetype |-> cursor.archetype + 1, row |-> 1]
          \/ cursor' = [archetype |-> cursor.archetype, row |-> cursor.row + 1]
      <4>1. ASSUME NEW q, NEW readOnly, EachBegin(q, readOnly)
            PROVE  cursor' = [archetype |-> 1, row |-> 1]
        BY <4>1 DEF EachBegin
      <4>2. EachEnd => cursor' = [archetype |-> 1, row |-> 1]
        BY DEF EachEnd
      <4>3. EachNextArchetype => cursor' = [archetype |-> cursor.archetype + 1, row |-> 1]
        BY DEF EachNextArchetype
      <4>4. EachVisit => cursor' = [archetype |-> cursor.archetype, row |-> cursor.row + 1]
        <5> SUFFICES ASSUME EachVisit
                     PROVE  cursor' = [archetype |-> cursor.archetype, row |-> cursor.row + 1]
            OBVIOUS
        <5>1. cursor' = [cursor EXCEPT !.row = @ + 1]
          BY DEF EachVisit
        <5>2. QED
          BY <3>1, <5>1
      <4>5. ClearBegin \/ UNCHANGED eachVars => cursor' = cursor
        BY DEF ClearBegin, eachVars
      <4>6. QED
        BY <4>1, <4>2, <4>3, <4>4, <4>5, EachActions
    <3>3. QED
      BY <3>1, <3>2
  <2>5. ASSUME clearing' # -1, iterationActive', NEW a \in iterationArchetypes
        PROVE  archetypes'[a].rows = <<>>
    <3>1. archetypes[a].rows = <<>>
      <4>1. CASE clearing # -1
        BY <1>3, <2>5, <4>1 DEF EachInv
      <4>2. CASE clearing = -1
        <5>1. ASSUME NEW q, NEW readOnly, EachBegin(q, readOnly) PROVE clearing' = -1
          BY <5>1, <4>2 DEF EachBegin, slotVars
        <5>2. EachVisit \/ EachNextArchetype \/ EachEnd => clearing' = -1
          BY <4>2 DEF EachVisit, EachNextArchetype, EachEnd, slotVars
        <5>3. ClearBegin
          BY <2>5, <4>2, <5>1, <5>2, EachActions
        <5>4. QED
          BY <1>3, <2>5, <5>3 DEF ClearBegin, ClearAllowed
      <4>3. QED
        BY <4>1, <4>2
    <3>2. SlotsOf(archetypes'[a].rows) = SlotsOf(<<>>)
      BY <1>3, <2>1, <2>5, <3>1 DEF ArchetypesStay
    <3>3. archetypes'[a].rows \in Seq(Rows)
      <4>1. a \in 1..archetypeCount'
        BY <2>2
      <4>2. a \in ArchetypeIds /\ archetypes' \in [ArchetypeIds -> Archs]
        BY <2>1, IdsInUse DEF StoreInv, StoreTypes
      <4>3. QED
        BY <4>2 DEF Archs
    <3>4. QED
      BY <3>2, <3>3, NoRows
  <2>6. QED
    BY <1>3, <2>2, <2>3, <2>4, <2>5 DEF EachInv
<1>4. EachVisit \/ EachNextArchetype \/ ClearBegin \/ UNCHANGED eachVars =>
        UNCHANGED <<iterationActive, iterationArchetypes, iterationReadComponents,
                    query, matchedIds>>
  BY DEF EachVisit, EachNextArchetype, ClearBegin, eachVars
<1>5. QED
  BY <1>1, <1>2, <1>3, <1>4, EachActions

-----------------------------------------------------------------------------
(* The world *)
\* The population and its peak stay within the capacity.
CountInv == inUse \in 0..Capacity /\ peakInUse \in 0..Capacity

\* Every step keeps the counts within the capacity.
LEMMA CountStep == FreeInv /\ FreeInv' /\ CountInv /\ [Next]_vars => CountInv'
<1> SUFFICES ASSUME FreeInv, FreeInv', CountInv, [Next]_vars PROVE CountInv'
    OBVIOUS
<1> USE CapacityAssumption DEF CountInv
<1>0. Cardinality(AliveSlots') \in 0..Capacity
  <2>1. IsFiniteSet(Slots) /\ Cardinality(Slots) = Capacity
    BY FS_Interval DEF Slots
  <2>2. AliveSlots' \in SUBSET Slots
    BY DEF AliveSlots
  <2>3. Cardinality(AliveSlots') <= Capacity /\ Cardinality(AliveSlots') \in Nat
    BY <2>1, <2>2, FS_Subset, FS_CardinalityType
  <2>4. QED
    BY <2>3
<1>1. CASE Create
  <2>1. inUse' = inUse + 1 /\ CheckEntityBudget(inUse + 1) /\ clearing' = -1
    BY <1>1 DEF Create, Ready, NotClearing
  <2>2. inUse' \in 0..Capacity
    BY <1>0, <2>1 DEF FreeInv, NotClearing
  <2>3. peakInUse' = IF inUse' > peakInUse THEN inUse' ELSE peakInUse
    BY <2>1 DEF CheckEntityBudget
  <2>4. QED
    BY <2>2, <2>3
<1>2. ASSUME NEW s \in Slots, Destroy(s) PROVE CountInv'
  <2>1. clearing' = -1 /\ peakInUse' = peakInUse
    BY <1>2 DEF Destroy, Ready, NotClearing, budgetVars
  <2>2. inUse' \in 0..Capacity
    BY <1>0, <2>1 DEF FreeInv, NotClearing
  <2>3. QED
    BY <2>1, <2>2
<1>3. CASE ClearBegin \/ ClearSlot \/ ClearEnd
  BY <1>3 DEF ClearBegin, ClearSlot, ClearEnd, budgetVars
<1>4. CASE BeginFrame
  BY <1>4 DEF BeginFrame
<1>5. CASE UNCHANGED <<slotVars, issued>>
  BY <1>5 DEF slotVars, budgetVars
<1>6. QED
  BY <1>1, <1>2, <1>3, <1>4, <1>5, SlotActions

\* A new world stores nothing.
LEMMA StoreInit == Init => StoreInv /\ EachInv /\ CountInv
<1> SUFFICES ASSUME Init PROVE StoreInv /\ EachInv /\ CountInv
    OBVIOUS
<1> USE CapacityAssumption, ArchetypesAssumption
<1>1. <<>> \in Seq(Rows) /\ <<>> \in Seq({})
  BY EmptySeq
<1>2. Unused \in Archs
  BY <1>1 DEF Unused, Archs
<1>3. archetypes \in [ArchetypeIds -> Archs]
  BY <1>2 DEF Init
<1>4. StoreTypes
  BY <1>3, NoData DEF Init, StoreTypes
<1>5. \A s \in Slots : SlotOk(s)
  BY DEF Init, SlotOk
<1>6. 1..archetypeCount = {}
  BY DEF Init
<1>7. StoreInv
  BY <1>4, <1>5, <1>6 DEF StoreInv
<1>8. EachInv
  <2>1. [archetype |-> 1, row |-> 1] \in [archetype : Nat \ {0}, row : Nat \ {0}]
    OBVIOUS
  <2>2. QED
    BY <1>1, <2>1 DEF Init, EachInv
<1>9. CountInv
  BY DEF Init, CountInv
<1>10. QED
  BY <1>7, <1>8, <1>9

\* All that is known of a world.
WorldInv == FreeInv /\ HandleInv /\ BudgetInv /\ StoreInv /\ EachInv /\ CountInv

\* A new world is as every world is.
LEMMA WorldBegins == Init => WorldInv
  BY InitInv, StoreInit DEF WorldInv

\* Every step keeps all that is known of a world.
LEMMA WorldKeeps == WorldInv /\ [Next]_vars => WorldInv'
<1> SUFFICES ASSUME WorldInv, [Next]_vars PROVE WorldInv'
    OBVIOUS
<1>1. FreeInv' /\ HandleInv' /\ BudgetInv'
  BY FreeStep, HandleStep, BudgetStep DEF WorldInv
<1>2. StoreInv' /\ ArchetypesStay
  BY StoreStep DEF WorldInv
<1>3. EachInv'
  BY <1>2, EachStep DEF WorldInv
<1>4. CountInv'
  BY <1>1, CountStep DEF WorldInv
<1>5. QED
  BY <1>1, <1>2, <1>3, <1>4 DEF WorldInv

\* Its variables have their types.
LEMMA WorldTypes == WorldInv => TypeOK
<1> SUFFICES ASSUME WorldInv PROVE TypeOK
    OBVIOUS
<1>1. /\ alive \in [Slots -> BOOLEAN] /\ freeStack \in Seq(Slots) /\ clearing \in -1..Capacity
  BY DEF WorldInv, FreeInv, Partitioned
<1>2. inUse \in 0..Capacity /\ peakInUse \in inUse..Capacity /\ warnedThisFrame \subseteq warnedEver
  BY CapacityAssumption DEF WorldInv, CountInv, BudgetInv
<1>3. generations \in [Slots -> Generations]
  <2>1. ASSUME NEW s \in Slots PROVE generations[s] \in Generations
    <3> DEFINE n == Len(issued[s]) + (IF alive[s] THEN 0 ELSE 1)
    <3>1. n \in Nat \ {0} /\ generations[s] = NthGeneration(n)
      BY DEF WorldInv, HandleInv
    <3>2. NthGeneration(n) \in 1..Cycle
      BY <3>1, BumpIsNext
    <3>3. QED
      BY <3>1, <3>2, GenerationAssumption DEF Generations, Cycle
  <2>2. QED
    BY <2>1 DEF WorldInv, HandleInv
<1>4. /\ archetypeCount \in 0..MaxArchetypes /\ archetypeOf \in [Slots -> 0..MaxArchetypes]
  <2>1. /\ archetypeCount \in 0..MaxArchetypes /\ archetypeOf \in [Slots -> 0..archetypeCount]
        /\ MaxArchetypes \in Nat
    BY ArchetypesAssumption DEF WorldInv, StoreInv, StoreTypes
  <2>2. 0..archetypeCount \subseteq 0..MaxArchetypes
    BY <2>1
  <2>3. QED
    BY <2>1, <2>2
<1>5. rowOf \in [Slots -> 0..Capacity]
  <2>1. ASSUME NEW s \in Slots PROVE rowOf[s] \in 0..Capacity
    <3>1. StoreInv /\ SlotOk(s)
      BY DEF WorldInv, StoreInv
    <3>2. CASE archetypeOf[s] = 0
      BY <3>1, <3>2, CapacityAssumption DEF SlotOk
    <3>3. CASE archetypeOf[s] # 0
      <4> DEFINE arch == archetypes[archetypeOf[s]]
      <4>1. archetypeOf[s] \in 1..archetypeCount /\ archetypeOf[s] \in ArchetypeIds
        BY <3>1, <3>3, IdsInUse
      <4>2. RowsOk(archetypeOf[s]) /\ arch.rows \in Seq(Rows) /\ arch.rowCapacity \in 0..Capacity
        BY <3>1, <4>1, ArchetypeTypes DEF StoreInv
      <4>3. Len(arch.rows) \in Nat /\ DOMAIN arch.rows = 1..Len(arch.rows)
        BY <4>2, RowTypes
      <4>4. Len(arch.rows) <= arch.rowCapacity
        BY <4>2 DEF RowsOk, ArchOk
      <4>5. rowOf[s] \in DOMAIN arch.rows
        BY <3>1, <3>3 DEF SlotOk
      <4> HIDE DEF arch
      <4>6. QED
        BY <4>2, <4>3, <4>4, <4>5, CapacityAssumption
    <3>4. QED
      BY <3>2, <3>3
  <2>2. QED
    BY <2>1 DEF WorldInv, StoreInv, StoreTypes
<1>6. /\ iterationActive \in BOOLEAN /\ iterationArchetypes \subseteq ArchetypeIds
      /\ iterationReadComponents \subseteq query /\ query \subseteq Components
  BY IdsInUse DEF WorldInv, EachInv
<1>7. QED
  BY <1>1, <1>2, <1>3, <1>4, <1>5, <1>6 DEF TypeOK

\* Rows ascend by slot, the index and the rows agree, and no array is past what it reserved.
LEMMA RowsAreIndexed == StoreInv => RowsIndexed
<1> SUFFICES ASSUME StoreInv PROVE RowsIndexed
    OBVIOUS
<1>1. ASSUME NEW a \in 1..archetypeCount
      PROVE  LET rows == archetypes[a].rows IN
             /\ \A r \in 1..(Len(rows) - 1) : rows[r].slot < rows[r + 1].slot
             /\ \A r \in DOMAIN rows :
                  archetypeOf[rows[r].slot] = a /\ rowOf[rows[r].slot] = r
             /\ Len(rows) <= archetypes[a].rowCapacity
  <2> DEFINE rows == archetypes[a].rows
  <2>1. RowsOk(a) /\ rows \in Seq(Rows)
    BY IdsInUse, ArchetypeTypes DEF StoreInv
  <2>2. DOMAIN rows = 1..Len(rows) /\ Len(rows) \in Nat
    BY <2>1, RowTypes
  <2>3. /\ \A q, r \in DOMAIN rows : q < r => rows[q].slot < rows[r].slot
        /\ \A r \in DOMAIN rows : archetypeOf[rows[r].slot] = a /\ rowOf[rows[r].slot] = r
        /\ Len(rows) <= archetypes[a].rowCapacity
    BY <2>1 DEF RowsOk, ArchOk, Ascends, IndexedBy
  <2>4. \A r \in 1..(Len(rows) - 1) : rows[r].slot < rows[r + 1].slot
    <3> SUFFICES ASSUME NEW r \in 1..(Len(rows) - 1) PROVE rows[r].slot < rows[r + 1].slot
        OBVIOUS
    <3>1. r \in DOMAIN rows /\ r + 1 \in DOMAIN rows /\ r < r + 1
      BY <2>2
    <3>2. QED
      BY <2>3, <3>1
  <2>5. QED
    BY <2>3, <2>4
<1>2. ASSUME NEW s \in Slots, archetypeOf[s] # 0
      PROVE  /\ alive[s]
             /\ rowOf[s] \in DOMAIN archetypes[archetypeOf[s]].rows
             /\ archetypes[archetypeOf[s]].rows[rowOf[s]].slot = s
  BY <1>2 DEF StoreInv, SlotOk
<1>3. QED
  BY <1>1, <1>2 DEF RowsIndexed

\* The store is whole at every moment, for every capacity, set of components and values, width of
\* the generation and number of archetypes: whatever was created, moved, removed, written by an
\* each() or cleared, the index and the rows agree, an entity has its components and the values
\* last written to them, no handle outlives its entity and no move fails for want of room.
THEOREM StoreStaysWhole == Spec => []StoreIsWhole
<1>1. WorldInv => StoreIsWhole
  <2> SUFFICES ASSUME WorldInv PROVE StoreIsWhole
      OBVIOUS
  <2>1. FreeStackPartition
    BY DEF WorldInv, FreeInv, Partitioned, AliveSlots, FreeStackPartition
  <2>2. StaleHandlesRejected
    BY HandlesRejected DEF WorldInv
  <2>3. DataFollowsEntity
    BY StoredIsWritten DEF WorldInv, DataFollowsEntity
  <2>4. ReserveNeverFails
    BY RoomForMore DEF WorldInv, ReserveNeverFails
  <2>5. QED
    BY <2>1, <2>2, <2>3, <2>4, WorldTypes, RowsAreIndexed DEF WorldInv, StoreIsWhole
<1>2. QED
  BY WorldBegins, WorldKeeps, <1>1, PTL DEF Spec

-----------------------------------------------------------------------------
(* Sequences put together *)
\* A set of natural numbers that is not empty has a least element.
LEMMA LeastExists ==
    ASSUME NEW T \in SUBSET Nat, T # {}
    PROVE  \E x \in T : \A y \in T : x <= y
<1> DEFINE initial == {1..k : k \in T}
<1>1. \A k \in T : 1..k \in FiniteSubsetsOf(Nat)
  BY FS_Interval DEF FiniteSubsetsOf
<1>2. initial \subseteq FiniteSubsetsOf(Nat) /\ initial # {}
  BY <1>1
<1>3. \E a \in initial : \A b \in initial : <<b, a>> \notin StrictSubsetOrdering(Nat)
  <2> HIDE DEF initial
  <2> QED
    BY <1>2, FS_StrictSubsetOrderingWellFounded, WFMin
<1>4. PICK x \in T : \A b \in initial : <<b, 1..x>> \notin StrictSubsetOrdering(Nat)
  BY <1>3
<1>5. ASSUME NEW y \in T, y < x PROVE FALSE
  <2>1. 1..y \in initial
    OBVIOUS
  <2>2. 1..y \subseteq 1..x /\ x \in 1..x /\ x \notin 1..y
    BY <1>5
  <2>3. 1..y \in SUBSET Nat /\ 1..x \in SUBSET Nat /\ 1..y # 1..x
    BY <2>2
  <2>4. <<1..y, 1..x>> \in StrictSubsetOrdering(Nat)
    BY <2>2, <2>3 DEF StrictSubsetOrdering
  <2>5. QED
    BY <1>4, <2>1, <2>4
<1>6. QED
  BY <1>5

\* What holds of the first and of each one after it holds of all.
LEMMA AllBut ==
    ASSUME NEW n \in Nat, NEW T \in SUBSET (1..n),
           \A i \in 1..n : (i = 1 \/ i - 1 \in T) => i \in T
    PROVE  T = 1..n
<1> DEFINE rest == (1..n) \ T
<1>1. ASSUME rest # {} PROVE FALSE
  <2>1. rest \in SUBSET Nat
    OBVIOUS
  <2>2. PICK i \in rest : \A j \in rest : i <= j
    BY <1>1, <2>1, LeastExists
  <2>3. i \in 1..n /\ i \notin T
    OBVIOUS
  <2>4. i # 1 => i - 1 \in 1..n /\ i - 1 < i
    BY <2>3
  <2>5. i # 1 => i - 1 \in T
    BY <2>2, <2>4
  <2>6. QED
    BY <2>3, <2>5
<1>2. QED
  BY <1>1

\* f puts the first sequences together, one more at each place.
Flattens(seqs, f) ==
    f = [i \in 1..Len(seqs) |-> IF i = 1 THEN seqs[i] ELSE f[i - 1] \o seqs[i]]

\* There is such a function, so that FlattenSeq chooses one.
LEMMA FlattenExists ==
    ASSUME NEW S, NEW seqs \in Seq(Seq(S))
    PROVE  \E f : Flattens(seqs, f)
<1> DEFINE n == Len(seqs)
           Upto(m, f) == \A i \in 1..m : f[i] = IF i = 1 THEN seqs[i] ELSE f[i - 1] \o seqs[i]
           T == {m \in 1..n : \E f : f = [i \in 1..m |-> f[i]] /\ Upto(m, f)}
<1>1. n \in Nat
  BY LenProperties
<1> HIDE DEF n
<1>2. ASSUME NEW m \in 1..n, m = 1 \/ m - 1 \in T PROVE m \in T
  <2>1. PICK g : m # 1 => Upto(m - 1, g)
    BY <1>2
  <2> DEFINE f == [i \in 1..m |-> IF i < m THEN g[i]
                                  ELSE IF m = 1 THEN seqs[m] ELSE g[m - 1] \o seqs[m]]
  <2>2. m \in Nat \ {0} /\ m \in 1..m
    BY <1>1
  <2>3. ASSUME NEW i \in 1..m PROVE f[i] = IF i = 1 THEN seqs[i] ELSE f[i - 1] \o seqs[i]
    <3>1. CASE i = m /\ m = 1
      BY <2>2, <3>1
    <3>2. CASE i = m /\ m # 1
      <4>1. i - 1 \in 1..m /\ i - 1 < m /\ m - 1 = i - 1
        BY <2>2, <3>2
      <4>2. f[i - 1] = g[i - 1]
        BY <4>1
      <4>3. ~(i < m) /\ i # 1 /\ i = m
        BY <2>2, <3>2
      <4>4. f[i] = g[m - 1] \o seqs[m]
        BY <3>2, <4>3
      <4> HIDE DEF f
      <4>5. f[i] = f[i - 1] \o seqs[i]
        BY <4>2, <4>3, <4>4
      <4>6. QED
        BY <4>3, <4>5
    <3>3. CASE i < m
      <4>1. i \in 1..(m - 1) /\ m # 1
        BY <2>2, <3>3
      <4>2. g[i] = IF i = 1 THEN seqs[i] ELSE g[i - 1] \o seqs[i]
        BY <2>1, <4>1
      <4>3. f[i] = g[i]
        BY <3>3
      <4>4. i # 1 => i - 1 \in 1..m /\ i - 1 < m
        BY <2>2, <4>1
      <4>5. i # 1 => f[i - 1] = g[i - 1]
        BY <4>4
      <4> HIDE DEF f
      <4>6. QED
        BY <4>2, <4>3, <4>5
    <3>4. QED
      BY <2>2, <3>1, <3>2, <3>3
  <2>4. f = [i \in 1..m |-> f[i]]
    OBVIOUS
  <2> HIDE DEF f
  <2>5. QED
    BY <2>3, <2>4
<1>3. T = 1..n
  <2>1. T \in SUBSET (1..n)
    OBVIOUS
  <2>2. \A m \in 1..n : (m = 1 \/ m - 1 \in T) => m \in T
    BY <1>2
  <2> HIDE DEF T
  <2>3. QED
    BY <1>1, <2>1, <2>2, AllBut
<1>4. CASE n = 0
  <2> DEFINE f == [i \in 1..n |-> 0]
  <2>1. Flattens(seqs, f)
    BY <1>4 DEF Flattens, n
  <2>2. QED
    BY <2>1
<1>5. CASE n # 0
  <2>1. n \in T
    BY <1>1, <1>3, <1>5
  <2>2. PICK f : f = [i \in 1..n |-> f[i]] /\ Upto(n, f)
    BY <2>1
  <2>3. f = [i \in 1..n |-> IF i = 1 THEN seqs[i] ELSE f[i - 1] \o seqs[i]]
    BY <2>2
  <2>4. QED
    BY <2>3 DEF Flattens, n
<1>6. QED
  BY <1>4, <1>5

\* FlattenSeq of the community modules is such a function's last value.
LEMMA FlattenIs ==
    ASSUME NEW S, NEW seqs \in Seq(Seq(S))
    PROVE  \E f : Flattens(seqs, f)
           /\ FlattenSeq(seqs) = IF Len(seqs) = 0 THEN seqs ELSE f[Len(seqs)]
<1> DEFINE f == CHOOSE f : Flattens(seqs, f)
<1>1. Flattens(seqs, f)
  BY FlattenExists
<1>2. FlattenSeq(seqs) = IF Len(seqs) = 0 THEN seqs ELSE f[Len(seqs)]
  BY DEF FlattenSeq, Flattens
<1>3. QED
  BY <1>1, <1>2

\* Put together, sequences are a sequence.
LEMMA FlattenTypes ==
    ASSUME NEW S, NEW seqs \in Seq(Seq(S))
    PROVE  FlattenSeq(seqs) \in Seq(S)
<1> DEFINE n == Len(seqs)
<1>1. n \in Nat /\ \A i \in 1..n : seqs[i] \in Seq(S)
  BY LenProperties, ElementOfSeq
<1>2. PICK f : Flattens(seqs, f) /\ FlattenSeq(seqs) = IF n = 0 THEN seqs ELSE f[n]
  BY FlattenIs
<1>3. \A i \in 1..n : f[i] = IF i = 1 THEN seqs[i] ELSE f[i - 1] \o seqs[i]
  <2>1. f = [i \in 1..n |-> IF i = 1 THEN seqs[i] ELSE f[i - 1] \o seqs[i]]
    BY <1>2 DEF Flattens
  <2>2. QED
    BY <2>1
<1> HIDE DEF n
<1> DEFINE T == {i \in 1..n : f[i] \in Seq(S)}
<1>4. ASSUME NEW i \in 1..n, i = 1 \/ i - 1 \in T PROVE i \in T
  <2>1. CASE i = 1
    BY <1>1, <1>3, <2>1
  <2>2. CASE i # 1
    <3>1. f[i - 1] \in Seq(S) /\ seqs[i] \in Seq(S)
      BY <1>1, <1>4, <2>2
    <3>2. f[i - 1] \o seqs[i] \in Seq(S)
      BY <3>1, ConcatProperties
    <3>3. QED
      BY <1>3, <2>2, <3>2
  <2>3. QED
    BY <2>1, <2>2
<1>5. T = 1..n
  <2>1. T \in SUBSET (1..n) /\ \A i \in 1..n : (i = 1 \/ i - 1 \in T) => i \in T
    BY <1>4
  <2> HIDE DEF T
  <2>2. QED
    BY <1>1, <2>1, AllBut
<1>6. CASE n = 0
  <2>1. seqs = <<>>
    BY <1>6, EmptySeq DEF n
  <2>2. QED
    BY <1>2, <1>6, <2>1, EmptySeq
<1>7. CASE n # 0
  <2>1. n \in T
    BY <1>1, <1>5, <1>7
  <2>2. QED
    BY <1>2, <1>7, <2>1
<1>8. QED
  BY <1>6, <1>7

\* Its first element is that of the first sequence that is not empty.
LEMMA FlattenTakes ==
    ASSUME NEW S, NEW a \in Seq(Seq(S)), NEW b \in Seq(Seq(S)), Len(b) = Len(a),
           NEW k \in 1..Len(a), NEW x \in S, a[k] = <<x>> \o b[k],
           \A i \in 1..Len(a) : i # k => a[i] = b[i],
           \A i \in 1..Len(a) : i < k => a[i] = <<>>
    PROVE  FlattenSeq(a) = <<x>> \o FlattenSeq(b)
<1> DEFINE n == Len(a)
<1>1. /\ n \in Nat /\ k \in 1..n /\ <<x>> \in Seq(S) /\ <<>> \in Seq(S)
      /\ \A i \in 1..n : a[i] \in Seq(S)
      /\ \A i \in 1..n : b[i] \in Seq(S)
  <2>1. n \in Nat /\ \A i \in 1..n : a[i] \in Seq(S)
    BY LenProperties, ElementOfSeq
  <2>2. \A i \in 1..Len(b) : b[i] \in Seq(S)
    BY ElementOfSeq
  <2>3. QED
    BY <2>1, <2>2, EmptySeq
<1>2. PICK f : Flattens(a, f) /\ FlattenSeq(a) = IF n = 0 THEN a ELSE f[n]
  BY FlattenIs
<1>3. PICK g : Flattens(b, g) /\ FlattenSeq(b) = IF n = 0 THEN b ELSE g[n]
  BY FlattenIs
<1>4. \A i \in 1..n : f[i] = IF i = 1 THEN a[i] ELSE f[i - 1] \o a[i]
  <2>1. f = [i \in 1..n |-> IF i = 1 THEN a[i] ELSE f[i - 1] \o a[i]]
    BY <1>2 DEF Flattens
  <2>2. QED
    BY <2>1
<1>5. \A i \in 1..n : g[i] = IF i = 1 THEN b[i] ELSE g[i - 1] \o b[i]
  <2>1. g = [i \in 1..n |-> IF i = 1 THEN b[i] ELSE g[i - 1] \o b[i]]
    BY <1>3 DEF Flattens
  <2>2. QED
    BY <2>1
<1>6. /\ a[k] = <<x>> \o b[k]
      /\ \A i \in 1..n : i # k => a[i] = b[i]
      /\ \A i \in 1..n : i < k => a[i] = <<>>
  OBVIOUS
<1> HIDE DEF n
<1> DEFINE T == {i \in 1..n : /\ f[i] \in Seq(S) /\ g[i] \in Seq(S)
                              /\ i < k => f[i] = <<>> /\ g[i] = <<>>
                              /\ i >= k => f[i] = <<x>> \o g[i]}
<1>7. ASSUME NEW i \in 1..n, i = 1 \/ i - 1 \in T PROVE i \in T
  <2>0. i \in Int /\ k \in Int /\ a[i] \in Seq(S) /\ b[i] \in Seq(S) /\ b[k] \in Seq(S)
    BY <1>1
  <2>1. CASE i = 1
    <3>1. f[i] = a[i] /\ g[i] = b[i]
      BY <1>4, <1>5, <2>1
    <3>2. CASE i < k
      <4>1. i # k /\ ~(i >= k)
        BY <2>0, <3>2
      <4>2. a[i] = <<>> /\ b[i] = <<>>
        BY <1>6, <3>2, <4>1
      <4>3. QED
        BY <2>0, <3>1, <4>1, <4>2
    <3>3. CASE i = k
      <4>1. ~(i < k) /\ a[i] = <<x>> \o b[i]
        BY <1>6, <2>0, <3>3
      <4>2. QED
        BY <2>0, <3>1, <4>1
    <3>4. i < k \/ i = k
      BY <1>1, <2>1
    <3>5. QED
      BY <3>2, <3>3, <3>4
  <2>2. CASE i # 1
    <3>1. f[i] = f[i - 1] \o a[i] /\ g[i] = g[i - 1] \o b[i]
      BY <1>4, <1>5, <2>2
    <3>2. /\ f[i - 1] \in Seq(S) /\ g[i - 1] \in Seq(S)
          /\ i - 1 < k => f[i - 1] = <<>> /\ g[i - 1] = <<>>
          /\ i - 1 >= k => f[i - 1] = <<x>> \o g[i - 1]
      BY <1>7, <2>2
    <3>3. f[i] \in Seq(S) /\ g[i] \in Seq(S)
      <4>1. f[i - 1] \o a[i] \in Seq(S)
        BY <2>0, <3>2, ConcatProperties
      <4>2. g[i - 1] \o b[i] \in Seq(S)
        BY <2>0, <3>2, ConcatProperties
      <4>3. QED
        BY <3>1, <4>1, <4>2
    <3>4. CASE i < k
      <4>1. i - 1 < k /\ i # k /\ ~(i >= k)
        BY <2>0, <3>4
      <4>2. f[i - 1] = <<>> /\ g[i - 1] = <<>>
        BY <3>2, <4>1
      <4>3. a[i] = <<>> /\ b[i] = <<>>
        BY <1>6, <3>4, <4>1
      <4>4. <<>> \o <<>> = <<>>
        BY <1>1, ConcatEmptySeq
      <4>5. f[i] = <<>> /\ g[i] = <<>>
        BY <3>1, <4>2, <4>3, <4>4
      <4>6. QED
        BY <3>3, <4>1, <4>5
    <3>5. CASE i = k
      <4>1. i - 1 < k /\ ~(i < k) /\ a[i] = <<x>> \o b[i]
        BY <1>6, <2>0, <3>5
      <4>2. f[i - 1] = <<>> /\ g[i - 1] = <<>>
        BY <3>2, <4>1
      <4>3. <<>> \o a[i] = a[i] /\ <<>> \o b[i] = b[i]
        BY <2>0, ConcatEmptySeq
      <4>4. f[i] = <<x>> \o g[i]
        BY <3>1, <4>1, <4>2, <4>3
      <4>5. QED
        BY <3>3, <4>1, <4>4
    <3>6. CASE i > k
      <4>1. i - 1 >= k /\ i # k /\ ~(i < k)
        BY <2>0, <3>6
      <4>2. f[i - 1] = <<x>> \o g[i - 1] /\ g[i - 1] \in Seq(S)
        BY <3>2, <4>1
      <4>3. a[i] = b[i]
        BY <1>6, <4>1
      <4>4. (<<x>> \o g[i - 1]) \o b[i] = <<x>> \o (g[i - 1] \o b[i])
        <5> DEFINE head == <<x>>
                   before == g[i - 1]
                   next == b[i]
        <5>1. head \in Seq(S) /\ before \in Seq(S) /\ next \in Seq(S)
          BY <1>1, <2>0, <4>2
        <5> HIDE DEF head, before, next
        <5>2. (head \o before) \o next = head \o (before \o next)
          BY ONLY <5>1, ConcatAssociative
        <5>3. QED
          BY <5>2 DEF head, before, next
      <4>5. f[i] = <<x>> \o g[i]
        BY <3>1, <4>2, <4>3, <4>4
      <4>6. QED
        BY <3>3, <4>1, <4>5
    <3>7. QED
      BY <2>0, <3>4, <3>5, <3>6
  <2>3. QED
    BY <2>1, <2>2
<1>8. T = 1..n
  <2>1. T \in SUBSET (1..n) /\ \A i \in 1..n : (i = 1 \/ i - 1 \in T) => i \in T
    BY <1>7
  <2> HIDE DEF T
  <2>2. QED
    BY <1>1, <2>1, AllBut
<1>9. n \in T /\ n # 0 /\ n >= k
  BY <1>1, <1>8
<1>10. QED
  BY <1>2, <1>3, <1>9

-----------------------------------------------------------------------------
(* What is left of the running each() *)

\* Of the slots listed at place i, those the cursor has not passed.
SlotsLeft(slots, i, c) ==
    IF i < c.archetype THEN <<>>
    ELSE IF i = c.archetype THEN SubSeq(slots, c.row, Len(slots)) ELSE slots

\* What the cursor has not passed, archetype by archetype.
Left(archs, ids, c) == [i \in 1..Len(ids) |-> SlotsLeft(SlotsOf(archs[ids[i]].rows), i, c)]

\* What was visited and what is left are what matched when the each() began.
CoverInv ==
    iterationActive => /\ visited \in Seq(Slots)
                       /\ visited \o FlattenSeq(Left(archetypes, matchedIds, cursor)) = expected

\* The slots of rows, in their order.
LEMMA SlotsOfRows ==
    ASSUME NEW rows \in Seq(Rows)
    PROVE  SlotsOf(rows) \in Seq(Slots) /\ Len(SlotsOf(rows)) = Len(rows)
<1>1. Len(rows) \in Nat /\ DOMAIN rows = 1..Len(rows)
      /\ \A r \in 1..Len(rows) : rows[r].slot \in Slots
  BY RowTypes
<1>2. SlotsOf(rows) \in [1..Len(rows) -> Slots]
  BY <1>1 DEF SlotsOf
<1>3. QED
  BY <1>1, <1>2

\* What is left is a sequence of slots at each place.
LEMMA LeftTypes ==
    ASSUME NEW n \in Nat, NEW archs, NEW ids \in Seq(1..n),
           \A a \in 1..n : archs[a].rows \in Seq(Rows),
           NEW c \in [archetype : Nat \ {0}, row : Nat \ {0}]
    PROVE  Left(archs, ids, c) \in Seq(Seq(Slots)) /\ Len(Left(archs, ids, c)) = Len(ids)
<1>1. Len(ids) \in Nat /\ \A i \in 1..Len(ids) : ids[i] \in 1..n
  BY LenProperties, ElementOfSeq
<1>2. ASSUME NEW i \in 1..Len(ids) PROVE SlotsLeft(SlotsOf(archs[ids[i]].rows), i, c) \in Seq(Slots)
  <2> DEFINE slots == SlotsOf(archs[ids[i]].rows)
  <2>1. slots \in Seq(Slots)
    BY <1>1, SlotsOfRows
  <2>2. Len(slots) \in Nat /\ \A r \in 1..Len(slots) : slots[r] \in Slots
    BY <2>1, LenProperties, ElementOfSeq
  <2> HIDE DEF slots
  <2>3. c.row \in Nat \ {0}
    OBVIOUS
  <2>4. SubSeq(slots, c.row, Len(slots)) \in Seq(Slots)
    <3>1. \A r \in c.row..Len(slots) : slots[r] \in Slots
      BY <2>2, <2>3
    <3>2. QED
      BY <2>2, <2>3, <3>1, SubSeqProperties
  <2>5. <<>> \in Seq(Slots)
    BY EmptySeq
  <2>6. QED
    BY <2>1, <2>4, <2>5 DEF SlotsLeft, slots
<1>3. Left(archs, ids, c) \in [1..Len(ids) -> Seq(Slots)]
  BY <1>2 DEF Left
<1>4. QED
  BY <1>1, <1>3

\* Every step keeps the account of the running each().
LEMMA CoverStep ==
    ASSUME WorldInv, WorldInv', ArchetypesStay, CoverInv, [Next]_vars
    PROVE  CoverInv'
<1> DEFINE ids == matchedIds
           left == Left(archetypes, ids, cursor)
           n == archetypeCount
<1>1. /\ n \in Nat /\ n <= archetypeCount'
      /\ \A a \in 1..n : archetypes[a].rows \in Seq(Rows) /\ archetypes'[a].rows \in Seq(Rows)
      /\ iterationArchetypes \subseteq 1..n
  <2>1. StoreInv /\ EachInv /\ archetypes' \in [ArchetypeIds -> Archs]
    BY DEF WorldInv, StoreInv, StoreTypes
  <2>2. /\ n \in Nat /\ 1..n \subseteq ArchetypeIds /\ iterationArchetypes \subseteq 1..n
        /\ archetypes \in [ArchetypeIds -> Archs]
    BY <2>1, IdsInUse DEF EachInv, StoreInv, StoreTypes
  <2>3. n <= archetypeCount'
    BY DEF ArchetypesStay
  <2>4. QED
    BY <2>1, <2>2, <2>3 DEF Archs
<1>2. /\ ids \in Seq(iterationArchetypes) /\ Len(ids) \in Nat
      /\ \A i \in 1..Len(ids) : ids[i] \in iterationArchetypes
      /\ cursor \in [archetype : Nat \ {0}, row : Nat \ {0}]
      /\ cursor = [archetype |-> cursor.archetype, row |-> cursor.row]
      /\ cursor.archetype \in Nat \ {0} /\ cursor.row \in Nat \ {0}
  <2>1. ids \in Seq(iterationArchetypes) /\ cursor \in [archetype : Nat \ {0}, row : Nat \ {0}]
    BY DEF WorldInv, EachInv
  <2>2. Len(ids) \in Nat /\ \A i \in 1..Len(ids) : ids[i] \in iterationArchetypes
    BY <2>1, LenProperties, ElementOfSeq
  <2>3. QED
    BY <2>1, <2>2
<1>3. iterationActive => \A a \in iterationArchetypes :
                            SlotsOf(archetypes'[a].rows) = SlotsOf(archetypes[a].rows)
  BY <1>1 DEF ArchetypesStay
<1> HIDE DEF ids, n
<1>4. \A i \in 1..Len(ids) :
        /\ SlotsOf(archetypes[ids[i]].rows) \in Seq(Slots)
        /\ Len(SlotsOf(archetypes[ids[i]].rows)) = Len(archetypes[ids[i]].rows)
  <2>1. ASSUME NEW i \in 1..Len(ids)
        PROVE  /\ SlotsOf(archetypes[ids[i]].rows) \in Seq(Slots)
               /\ Len(SlotsOf(archetypes[ids[i]].rows)) = Len(archetypes[ids[i]].rows)
    <3>1. archetypes[ids[i]].rows \in Seq(Rows)
      BY <1>1, <1>2
    <3>2. QED
      BY <3>1, SlotsOfRows
  <2>2. QED
    BY <2>1
<1>5. ASSUME iterationActive, NEW c PROVE Left(archetypes', ids, c) = Left(archetypes, ids, c)
  BY <1>2, <1>3, <1>5 DEF Left
<1>6. ASSUME NEW c \in [archetype : Nat \ {0}, row : Nat \ {0}]
      PROVE  Left(archetypes, ids, c) \in Seq(Seq(Slots))
             /\ Len(Left(archetypes, ids, c)) = Len(ids)
  <2>1. ids \in Seq(1..n)
    BY ONLY <1>1, <1>2, SeqMonotonic
  <2>2. \A a \in 1..n : archetypes[a].rows \in Seq(Rows)
    BY <1>1
  <2>3. n \in Nat
    BY <1>1
  <2>4. QED
    BY <2>1, <2>2, <2>3, LeftTypes
<1>7. ASSUME iterationActive', iterationActive, matchedIds' = ids, UNCHANGED <<expected, visited>>,
             Left(archetypes, ids, cursor') = left
      PROVE  CoverInv'
  BY <1>5, <1>7 DEF CoverInv, ids
<1>8. CASE UNCHANGED eachVars \/ ClearBegin
  <2>1. UNCHANGED eachVars
    BY <1>8 DEF ClearBegin
  <2>2. CASE iterationActive
    BY <1>7, <2>1, <2>2 DEF eachVars, ids
  <2>3. CASE ~iterationActive
    BY <2>1, <2>3 DEF eachVars, CoverInv
  <2>4. QED
    BY <2>2, <2>3
<1>9. CASE EachEnd
  BY <1>9 DEF EachEnd, CoverInv
<1>10. CASE EachNextArchetype
  <2> DEFINE k == cursor.archetype
  <2>1. /\ iterationActive /\ k <= Len(ids) /\ cursor.row > Len(AtCursor)
        /\ cursor' = [archetype |-> k + 1, row |-> 1]
        /\ UNCHANGED <<iterationActive, matchedIds, expected, visited>>
    BY <1>10 DEF EachNextArchetype, ids
  <2>2. ASSUME NEW i \in 1..Len(ids)
        PROVE  LET slots == SlotsOf(archetypes[ids[i]].rows) IN
               SlotsLeft(slots, i, cursor') = SlotsLeft(slots, i, cursor)
    <3> DEFINE slots == SlotsOf(archetypes[ids[i]].rows)
    <3>1. slots \in Seq(Slots) /\ Len(slots) = Len(archetypes[ids[i]].rows) /\ Len(slots) \in Nat
      BY <1>4, LenProperties
    <3>2. cursor'.archetype = k + 1 /\ cursor'.row = 1 /\ k \in Nat /\ cursor.row \in Nat
      BY <1>2, <2>1
    <3>3. CASE i < k
      BY <3>2, <3>3 DEF SlotsLeft
    <3>4. CASE i = k
      <4>1. cursor.row > Len(slots)
        BY <2>1, <3>1, <3>4 DEF AtCursor, ids
      <4> HIDE DEF slots
      <4>2. SubSeq(slots, cursor.row, Len(slots)) = <<>>
        BY <3>1, <3>2, <4>1, SubSeqEmpty
      <4>3. i < cursor'.archetype /\ ~(i < k)
        BY <3>2, <3>4
      <4>4. SlotsLeft(slots, i, cursor') = SlotsLeft(slots, i, cursor)
        BY <3>4, <4>2, <4>3 DEF SlotsLeft
      <4>5. QED
        BY <4>4 DEF slots
    <3>5. CASE i > k
      <4> HIDE DEF slots
      <4>1. SubSeq(slots, 1, Len(slots)) = slots
        BY <3>1, SubSeqFull
      <4>2. ~(i < k) /\ i # k /\ ~(i < cursor'.archetype)
        BY <3>2, <3>5
      <4>3. SlotsLeft(slots, i, cursor') = SlotsLeft(slots, i, cursor)
        BY <3>2, <4>1, <4>2 DEF SlotsLeft
      <4>4. QED
        BY <4>3 DEF slots
    <3>6. QED
      BY <3>2, <3>3, <3>4, <3>5
  <2>3. Left(archetypes, ids, cursor') = left
    BY <2>2 DEF Left
  <2>4. QED
    BY <1>7, <2>1, <2>3 DEF ids
<1>11. CASE EachVisit
  <2> DEFINE k == cursor.archetype
             slots == SlotsOf(archetypes[ids[k]].rows)
             s == slots[cursor.row]
             next == Left(archetypes, ids, cursor')
  <2>1. /\ iterationActive /\ k <= Len(ids) /\ cursor.row <= Len(AtCursor)
        /\ cursor' = [cursor EXCEPT !.row = @ + 1]
        /\ visited' = Append(visited, AtCursor[cursor.row].slot)
        /\ UNCHANGED <<iterationActive, matchedIds, expected>>
    BY <1>11 DEF EachVisit, ids
  <2>2. cursor'.archetype = k /\ cursor'.row = cursor.row + 1 /\ k \in 1..Len(ids)
        /\ cursor' \in [archetype : Nat \ {0}, row : Nat \ {0}]
    BY <1>2, <2>1
  <2>3. slots \in Seq(Slots) /\ Len(slots) \in Nat /\ cursor.row \in 1..Len(slots)
    <3>1. slots \in Seq(Slots) /\ Len(slots) = Len(AtCursor)
      BY <1>4, <2>2 DEF AtCursor, ids
    <3>2. Len(slots) \in Nat
      BY <3>1, LenProperties
    <3> HIDE DEF slots
    <3>3. QED
      BY <1>2, <2>1, <3>1, <3>2
  <2>4. s \in Slots /\ s = AtCursor[cursor.row].slot
    <3>1. s \in Slots
      BY <2>3, ElementOfSeq
    <3>2. archetypes[ids[k]].rows \in Seq(Rows)
      BY <1>1, <1>2, <2>2
    <3>3. DOMAIN archetypes[ids[k]].rows = 1..Len(slots)
      BY <1>4, <2>2, <3>2, RowTypes
    <3>4. s = archetypes[ids[k]].rows[cursor.row].slot
      BY <2>3, <3>3 DEF SlotsOf
    <3>5. QED
      BY <3>1, <3>4 DEF AtCursor, ids
  <2>5. /\ left \in Seq(Seq(Slots)) /\ Len(left) = Len(ids)
        /\ next \in Seq(Seq(Slots)) /\ Len(next) = Len(ids)
    BY <1>2, <1>6, <2>2
  <2>6. left[k] = <<s>> \o next[k]
    <3>1. SubSeq(slots, cursor.row, Len(slots)) =
            <<slots[cursor.row]>> \o SubSeq(slots, cursor.row + 1, Len(slots))
      <4> HIDE DEF slots
      <4>1. Len(slots) \in cursor.row..Len(slots)
        BY <2>3
      <4>2. QED
        BY <2>3, <4>1, SubSeqRecursiveFirst
    <3>2. left[k] = SubSeq(slots, cursor.row, Len(slots))
      BY <1>2, <2>2 DEF Left, SlotsLeft
    <3>3. next[k] = SubSeq(slots, cursor.row + 1, Len(slots))
      BY <1>2, <2>2 DEF Left, SlotsLeft
    <3> HIDE DEF left, next, slots
    <3>4. QED
      BY <3>1, <3>2, <3>3
  <2>7. \A i \in 1..Len(ids) : i # k => left[i] = next[i]
    BY <2>2 DEF Left, SlotsLeft
  <2>8. \A i \in 1..Len(ids) : i < k => left[i] = <<>>
    BY DEF Left, SlotsLeft
  <2> HIDE DEF left, next, s, slots
  <2>9. FlattenSeq(left) = <<s>> \o FlattenSeq(next) /\ FlattenSeq(next) \in Seq(Slots)
    <3>1. FlattenSeq(next) \in Seq(Slots)
      BY <2>5, FlattenTypes
    <3>2. /\ Len(next) = Len(left) /\ k \in 1..Len(left)
          /\ \A i \in 1..Len(left) : i # k => left[i] = next[i]
          /\ \A i \in 1..Len(left) : i < k => left[i] = <<>>
      BY <2>2, <2>5, <2>7, <2>8
    <3>3. FlattenSeq(left) = <<s>> \o FlattenSeq(next)
      BY ONLY <2>4, <2>5, <2>6, <3>2, FlattenTakes
    <3>4. QED
      BY <3>1, <3>3
  <2>10. visited \in Seq(Slots) /\ visited \o FlattenSeq(left) = expected
    BY <2>1 DEF CoverInv, left, ids
  <2> DEFINE one == <<s>>
             rest == FlattenSeq(next)
  <2>11. visited' = visited \o one /\ visited' \in Seq(Slots) /\ one \in Seq(Slots)
    <3>1. Append(visited, s) = visited \o <<s>>
      BY <2>4, <2>10, AppendIsConcat
    <3>2. QED
      BY <2>1, <2>4, <2>10, <3>1
  <2>12. FlattenSeq(left) = one \o rest /\ rest \in Seq(Slots)
    BY <2>9
  <2> HIDE DEF one, rest
  <2>13. visited' \o rest = visited \o (one \o rest)
    <3>1. (visited \o one) \o rest = visited \o (one \o rest)
      BY ONLY <2>10, <2>11, <2>12, ConcatAssociative
    <3>2. QED
      BY <2>11, <3>1
  <2>14. Left(archetypes', matchedIds', cursor') = next
    BY <1>5, <2>1 DEF next, ids
  <2>15. visited' \o FlattenSeq(Left(archetypes', matchedIds', cursor')) = expected'
    BY <2>1, <2>10, <2>12, <2>13, <2>14 DEF rest
  <2>16. QED
    BY <2>11, <2>15 DEF CoverInv
<1>12. ASSUME NEW q \in SUBSET Components, NEW readOnly \in SUBSET q, EachBegin(q, readOnly)
       PROVE  CoverInv'
  <2> DEFINE m == Ascending(Matched(q))
             all == [i \in 1..Len(m) |-> SlotsOf(archetypes[m[i]].rows)]
             first == [archetype |-> 1, row |-> 1]
  <2>1. /\ matchedIds' = m /\ cursor' = first /\ visited' = <<>> /\ archetypes' = archetypes
        /\ expected' = FlattenSeq([i \in DOMAIN m |-> SlotsOf(archetypes[m[i]].rows)])
    BY <1>12 DEF EachBegin, MatchedBy, storeVars
  <2>2. Matched(q) \in SUBSET (1..n)
    BY DEF Matched, n
  <2>3. m \in Seq(Matched(q))
    BY <1>1, <2>2, AscendingLists
  <2> HIDE DEF m
  <2>4. DOMAIN m = 1..Len(m) /\ Len(m) \in Nat /\ \A i \in 1..Len(m) : m[i] \in 1..n
    BY <2>2, <2>3, LenProperties, ElementOfSeq
  <2>5. m \in Seq(1..n)
    BY ONLY <2>2, <2>3, SeqMonotonic
  <2>6. ASSUME NEW i \in 1..Len(m)
        PROVE  LET slots == SlotsOf(archetypes[m[i]].rows) IN SlotsLeft(slots, i, first) = slots
    <3> DEFINE slots == SlotsOf(archetypes[m[i]].rows)
    <3>1. slots \in Seq(Slots)
      <4>1. archetypes[m[i]].rows \in Seq(Rows)
        BY <1>1, <2>4
      <4>2. QED
        BY <4>1, SlotsOfRows
    <3>2. ~(i < 1)
      BY <2>4
    <3> HIDE DEF slots
    <3>3. SubSeq(slots, 1, Len(slots)) = slots
      BY <3>1, SubSeqFull
    <3>4. SlotsLeft(slots, i, first) = slots
      BY <3>2, <3>3 DEF SlotsLeft
    <3>5. QED
      BY <3>4 DEF slots
  <2>7. Left(archetypes, m, first) = all
    BY <2>6 DEF Left
  <2>8. all \in Seq(Seq(Slots))
    <3>1. first \in [archetype : Nat \ {0}, row : Nat \ {0}]
      OBVIOUS
    <3>2. \A a \in 1..n : archetypes[a].rows \in Seq(Rows)
      BY <1>1
    <3> HIDE DEF first, all
    <3>3. Left(archetypes, m, first) \in Seq(Seq(Slots))
      BY <1>1, <2>5, <3>1, <3>2, LeftTypes
    <3>4. QED
      BY <2>7, <3>3
  <2>9. expected' = FlattenSeq(all)
    BY <2>1, <2>4
  <2> HIDE DEF all, first
  <2>10. FlattenSeq(all) \in Seq(Slots)
    BY <2>8, FlattenTypes
  <2>11. <<>> \o FlattenSeq(all) = FlattenSeq(all) /\ <<>> \in Seq(Slots)
    BY <2>10, ConcatEmptySeq, EmptySeq
  <2>12. Left(archetypes', matchedIds', cursor') = all
    BY <2>1, <2>7
  <2>13. QED
    BY <2>1, <2>9, <2>11, <2>12 DEF CoverInv
<1>13. QED
  BY <1>8, <1>9, <1>10, <1>11, <1>12, EachActions

\* Whatever the callback does (create, destroy, add, remove, overwrite, clear, whichever the guard
\* lets through), an each() has visited every entity that matched when it began, or has it still
\* before it, once and in order, and no other.
THEOREM EachCoversItsMatches == Spec => []EachVisitsMatchesOnce
<1> DEFINE Inv == WorldInv /\ CoverInv
<1>1. Init => Inv
  BY WorldBegins DEF Init, CoverInv
<1>2. Inv /\ [Next]_vars => Inv'
  <2> SUFFICES ASSUME WorldInv, CoverInv, [Next]_vars PROVE WorldInv' /\ CoverInv'
      OBVIOUS
  <2>1. WorldInv'
    BY WorldKeeps
  <2>2. ArchetypesStay
    BY StoreStep DEF WorldInv
  <2>3. QED
    BY <2>1, <2>2, CoverStep
<1>3. Inv => EachVisitsMatchesOnce
  <2>1. Remaining = FlattenSeq(Left(archetypes, matchedIds, cursor))
    BY DEF Remaining, Left, SlotsLeft
  <2>2. QED
    BY <2>1 DEF CoverInv, EachVisitsMatchesOnce
<1> HIDE DEF Inv
<1>4. QED
  BY <1>1, <1>2, <1>3, PTL DEF Spec
=============================================================================
