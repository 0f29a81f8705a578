-------------------------------- MODULE World --------------------------------
(***************************************************************************)
(* laige::World (laige-sim): entity slots with generation-checked handles   *)
(* (entity.cpp), the archetype storage (archetype.cpp, entity.h), and the   *)
(* iteration guard of World::each (query.cpp).  Release-build behaviour: a  *)
(* rejected call returns an error and changes nothing.                      *)
(*                                                                          *)
(* The world belongs to one thread; what makes it hard is that an each()    *)
(* hands control to a callback, and the callback may call any operation.    *)
(* An iteration is therefore a state (EachBegin to EachEnd), and after each *)
(* of its visits every other operation can occur.                           *)
(*                                                                          *)
(* Rows are numbered from 1 here and from 0 in the code.  A row keeps its   *)
(* slot and its column values together.                                     *)
(***************************************************************************)
EXTENDS Integers, FiniteSets, FiniteSetsExt, SequencesExt

CONSTANTS
    Capacity,       \* World::Options::capacity
    GenerationMod,  \* 2^16 in the code
    Components,     \* ids of the registered component types
    Values,         \* values a component can hold
    MaxArchetypes,  \* kMaxArchetypes
    InitialRows,    \* kInitialArchetypeRows
    MaxCreates      \* bound: entities created in all

ASSUME CapacityAssumption == Capacity \in Nat \ {0}
ASSUME GenerationAssumption == GenerationMod \in Nat /\ GenerationMod > 2
ASSUME ArchetypesAssumption == MaxArchetypes \in Nat /\ InitialRows \in Nat \ {0}
ASSUME CreatesAssumption == MaxCreates \in Nat

Slots == 0..(Capacity - 1)
Generations == 1..(GenerationMod - 1)
ArchetypeIds == 1..MaxArchetypes

VARIABLES
    \* entity slots
    generations, alive, freeStack, inUse,
    clearing,     \* the slot clear() is at, or -1 outside clear()
    \* entity budget
    peakInUse,
    warnedThisFrame,  \* the levels warned since beginFrame()
    warnedEver,       \* the levels with a non-zero warning count
    \* archetypes
    archetypeOf,  \* per slot, 0 for an entity without components
    rowOf,        \* per slot, its row (0 without components)
    archetypes,   \* per id: the component set, the rows and their capacity
    archetypeCount,
    \* the iteration guard and the cursor of the running each()
    iterationActive, iterationArchetypes, iterationReadComponents,
    query, matchedIds, cursor,
    \* history
    issued,       \* per slot, the generations of the handles create() gave out
    written,      \* per slot, the component values last written to its entity
    expected,     \* the slots the running each() has to visit
    visited       \* the slots it has visited

budgetVars == <<peakInUse, warnedThisFrame, warnedEver>>
slotVars == <<generations, alive, freeStack, inUse, clearing, budgetVars>>
storeVars == <<archetypeOf, rowOf, archetypes, archetypeCount>>
eachVars == <<iterationActive, iterationArchetypes, iterationReadComponents,
              query, matchedIds, cursor, expected, visited>>
vars == <<slotVars, storeVars, eachVars, issued, written>>

Unused == [sig |-> {}, rows |-> <<>>, rowCapacity |-> 0]
NoComponents == [c \in {} |-> 0]

Init ==
    /\ generations = [s \in Slots |-> 1]
    /\ alive = [s \in Slots |-> FALSE]
    /\ freeStack = [i \in 1..Capacity |-> i - 1]
    /\ inUse = 0
    /\ clearing = -1
    /\ peakInUse = 0
    /\ warnedThisFrame = {}
    /\ warnedEver = {}
    /\ archetypeOf = [s \in Slots |-> 0]
    /\ rowOf = [s \in Slots |-> 0]
    /\ archetypes = [a \in ArchetypeIds |-> Unused]
    /\ archetypeCount = 0
    /\ iterationActive = FALSE
    /\ iterationArchetypes = {}
    /\ iterationReadComponents = {}
    /\ query = {}
    /\ matchedIds = <<>>
    /\ cursor = [archetype |-> 1, row |-> 1]
    /\ issued = [s \in Slots |-> <<>>]
    /\ written = [s \in Slots |-> NoComponents]
    /\ expected = <<>>
    /\ visited = <<>>

-----------------------------------------------------------------------------
(* Slots and handles *)

IsValid(e) ==
    /\ e.id \in Slots
    /\ e.generation # 0
    /\ alive[e.id]
    /\ generations[e.id] = e.generation

\* bumpGeneration: a 16-bit increment that skips the null generation 0.
BumpGeneration(g) ==
    LET next == (g + 1) % GenerationMod IN IF next = 0 THEN 1 ELSE next

\* An operation may run: no call is running, or the callback of an each() is.
\* clear() is one call, its loop is not interrupted.
NotClearing == clearing = -1
Ready == NotClearing /\ (iterationActive => visited # <<>>)

BudgetLevels == {25, 50, 100}

\* A threshold that rounds down to 0 never fires.
Threshold(level) == (Capacity * level) \div 100

\* Faulty variant: the count compared before it is incremented.
CrossedLate(population) ==
    {level \in BudgetLevels :
        Threshold(level) # 0 /\ population - 1 = Threshold(level)}

\* The levels create() crosses when it brings the population to this count.
Crossed(population) ==
    {level \in BudgetLevels :
        Threshold(level) # 0 /\ population = Threshold(level)}

\* checkEntityBudget: one warning per level and frame.
CheckEntityBudget(population) ==
    LET warned == Crossed(population) \ warnedThisFrame IN
    /\ peakInUse' = IF population > peakInUse THEN population ELSE peakInUse
    /\ warnedThisFrame' = warnedThisFrame \cup warned
    /\ warnedEver' = warnedEver \cup warned

Create ==
    /\ Ready
    /\ MapThenSumSet(LAMBDA s : Len(issued[s]), Slots) < MaxCreates
    /\ freeStack # <<>>   \* else BudgetExhausted
    /\ LET slot == Last(freeStack) IN
         /\ alive' = [alive EXCEPT ![slot] = TRUE]
         /\ archetypeOf' = [archetypeOf EXCEPT ![slot] = 0]
         /\ rowOf' = [rowOf EXCEPT ![slot] = 0]
         /\ issued' = [issued EXCEPT ![slot] = Append(@, generations[slot])]
         /\ written' = [written EXCEPT ![slot] = NoComponents]
    /\ freeStack' = Front(freeStack)
    /\ inUse' = inUse + 1
    /\ CheckEntityBudget(inUse + 1)
    /\ UNCHANGED <<generations, clearing, archetypes,
                   archetypeCount, eachVars>>

\* The game loop calls it before each tick.  The churn counts it also resets
\* are GameLoop's.
BeginFrame ==
    /\ NotClearing /\ ~iterationActive
    /\ warnedThisFrame # {}
    /\ warnedThisFrame' = {}
    /\ UNCHANGED <<generations, alive, freeStack, inUse, clearing, peakInUse,
                   warnedEver, storeVars, eachVars, issued, written>>

-----------------------------------------------------------------------------
(* Rows *)

Smaller(m, n) == IF m < n THEN m ELSE n

\* rowOf after the rows of an archetype changed from row "from" on.
Reindex(index, rows, from) ==
    [s \in Slots |->
        IF \E r \in from..Len(rows) : rows[r].slot = s
        THEN CHOOSE r \in from..Len(rows) : rows[r].slot = s
        ELSE index[s]]

\* attachSlot keeps the rows in ascending slot order.
RankIn(rows, slot) == 1 + Cardinality({r \in DOMAIN rows : rows[r].slot <= slot})

\* growArchetype doubles the reservation up to the world's capacity.
Grown(arch) == Smaller(Capacity, 2 * arch.rowCapacity)

ReserveFails(arch) ==
    Len(arch.rows) = arch.rowCapacity /\ Grown(arch) <= arch.rowCapacity

AttachRow(arch, row) ==
    [arch EXCEPT
        !.rows = InsertAt(arch.rows, RankIn(arch.rows, row.slot), row),
        !.rowCapacity = IF Len(arch.rows) = @ THEN Grown(arch) ELSE @]

RemoveRow(arch, r) == [arch EXCEPT !.rows = RemoveAt(arch.rows, r)]

\* findArchetype, by value over the archetypes created so far; 0 if none.
FindArchetype(sig) ==
    IF \E a \in 1..archetypeCount : archetypes[a].sig = sig
    THEN CHOOSE a \in 1..archetypeCount : archetypes[a].sig = sig
    ELSE 0

NewArchetype(sig) ==
    [sig |-> sig, rows |-> <<>>, rowCapacity |-> Smaller(Capacity, InitialRows)]

\* The component set of a slot and the values stored for it.
SignatureOf(s) == IF archetypeOf[s] = 0 THEN {} ELSE archetypes[archetypeOf[s]].sig
StoredOf(s) == IF archetypeOf[s] = 0 THEN NoComponents
               ELSE archetypes[archetypeOf[s]].rows[rowOf[s]].data

-----------------------------------------------------------------------------
(* The iteration guard *)

\* The archetype ids guardStructural looks up: the entity's own, and the one
\* it moves to (the next free id when that set is new).
TargetArchetype(sig) ==
    IF sig = {} THEN 0
    ELSE IF FindArchetype(sig) # 0 THEN FindArchetype(sig)
    ELSE archetypeCount + 1

\* Faulty variant: only the source archetype looked up.
StructuralAllowedBySource(source, target) ==
    ~(iterationActive /\ source \in iterationArchetypes)

StructuralAllowed(source, target) ==
    ~(iterationActive /\ {source, target} \cap iterationArchetypes # {})

InplaceAllowed(c, arch) ==
    ~(/\ iterationActive
      /\ arch \in iterationArchetypes
      /\ c \in iterationReadComponents)

ClearAllowed ==
    ~(/\ iterationActive
      /\ \E a \in iterationArchetypes : archetypes[a].rows # <<>>)

-----------------------------------------------------------------------------
(* Component operations on a live entity *)

\* The entity of slot s moves to the archetype of newData's component set:
\* attach to the target, copy the row, remove it from the source.
MoveEntity(s, newData) ==
    LET sig == DOMAIN newData
        source == archetypeOf[s]
        target == TargetArchetype(sig)
        isNew == target = archetypeCount + 1
        base == IF isNew THEN NewArchetype(sig) ELSE archetypes[target]
        attached == AttachRow(base, [slot |-> s, data |-> newData])
        afterAttach == [archetypes EXCEPT ![target] = attached]
        rowsAfterAttach ==
            Reindex(rowOf, attached.rows, RankIn(base.rows, s))
        removed == RemoveRow(archetypes[source], rowOf[s])
    IN  /\ StructuralAllowed(source, target)
        /\ target \in ArchetypeIds   \* else BudgetExhausted
        /\ ~ReserveFails(base)       \* else BudgetExhausted
        /\ archetypeCount' = IF isNew THEN target ELSE archetypeCount
        /\ archetypeOf' = [archetypeOf EXCEPT ![s] = target]
        /\ IF source = 0
             THEN archetypes' = afterAttach /\ rowOf' = rowsAfterAttach
             ELSE /\ archetypes' = [afterAttach EXCEPT ![source] = removed]
                  /\ rowOf' = Reindex(rowsAfterAttach, removed.rows, rowOf[s])

\* addComponent on an entity that already has the component: overwrite.
AddInPlace(s, c, v) ==
    /\ Ready
    /\ alive[s]
    /\ c \in SignatureOf(s)
    /\ InplaceAllowed(c, archetypeOf[s])
    /\ archetypes' = [archetypes EXCEPT
                        ![archetypeOf[s]].rows[rowOf[s]].data[c] = v]
    /\ written' = [written EXCEPT ![s][c] = v]
    /\ UNCHANGED <<slotVars, archetypeOf, rowOf, archetypeCount, eachVars,
                   issued>>

With(data, c, v) ==
    [d \in (DOMAIN data) \cup {c} |-> IF d = c THEN v ELSE data[d]]

\* addComponent of a component the entity does not have yet.
AddComponent(s, c, v) ==
    /\ Ready
    /\ alive[s]
    /\ c \notin SignatureOf(s)
    /\ MoveEntity(s, With(StoredOf(s), c, v))
    /\ written' = [written EXCEPT ![s] = With(@, c, v)]
    /\ UNCHANGED <<slotVars, eachVars, issued>>

Without(data, c) == [d \in (DOMAIN data) \ {c} |-> data[d]]

\* removeComponent that leaves the entity other components.
RemoveComponent(s, c) ==
    /\ Ready
    /\ alive[s]
    /\ c \in SignatureOf(s)
    /\ SignatureOf(s) # {c}
    /\ MoveEntity(s, Without(StoredOf(s), c))
    /\ written' = [written EXCEPT ![s] = Without(@, c)]
    /\ UNCHANGED <<slotVars, eachVars, issued>>

\* Faulty variant: the rows behind it keep their old index.
DetachRowUnindexed(s) ==
    IF archetypeOf[s] = 0
    THEN UNCHANGED <<archetypes, archetypeOf, rowOf>>
    ELSE LET removed == RemoveRow(archetypes[archetypeOf[s]], rowOf[s])
         IN  /\ archetypes' = [archetypes EXCEPT ![archetypeOf[s]] = removed]
             /\ rowOf' = [rowOf EXCEPT ![s] = 0]
             /\ archetypeOf' = [archetypeOf EXCEPT ![s] = 0]

\* The row of slot s leaves its archetype, if it has one.
DetachRow(s) ==
    IF archetypeOf[s] = 0
    THEN UNCHANGED <<archetypes, archetypeOf, rowOf>>
    ELSE LET removed == RemoveRow(archetypes[archetypeOf[s]], rowOf[s])
         IN  /\ archetypes' = [archetypes EXCEPT ![archetypeOf[s]] = removed]
             /\ rowOf' = [Reindex(rowOf, removed.rows, rowOf[s])
                             EXCEPT ![s] = 0]
             /\ archetypeOf' = [archetypeOf EXCEPT ![s] = 0]

\* removeComponent of the last component: no target archetype.
RemoveLastComponent(s, c) ==
    /\ Ready
    /\ alive[s]
    /\ SignatureOf(s) = {c}
    /\ StructuralAllowed(archetypeOf[s], 0)
    /\ DetachRow(s)
    /\ written' = [written EXCEPT ![s] = NoComponents]
    /\ UNCHANGED <<slotVars, archetypeCount, eachVars, issued>>

Release(s) ==
    /\ alive' = [alive EXCEPT ![s] = FALSE]
    /\ generations' = [generations EXCEPT ![s] = BumpGeneration(@)]
    /\ freeStack' = Append(freeStack, s)

Destroy(s) ==
    /\ Ready
    /\ alive[s]
    /\ StructuralAllowed(archetypeOf[s], 0)
    /\ DetachRow(s)
    /\ Release(s)
    /\ inUse' = inUse - 1
    /\ UNCHANGED <<clearing, budgetVars, archetypeCount, eachVars, issued,
                   written>>

\* clear() walks the slots in ascending order and zeroes inUse_ at the end.
ClearBegin ==
    /\ Ready
    /\ ClearAllowed
    /\ clearing' = 0
    /\ UNCHANGED <<generations, alive, freeStack, inUse, budgetVars,
                   storeVars, eachVars, issued, written>>

ClearSlot ==
    /\ clearing \in Slots
    /\ IF alive[clearing]
         THEN DetachRow(clearing) /\ Release(clearing)
         ELSE UNCHANGED <<alive, generations, freeStack,
                          archetypes, archetypeOf, rowOf>>
    /\ clearing' = clearing + 1
    /\ UNCHANGED <<inUse, budgetVars, archetypeCount, eachVars, issued,
                   written>>

ClearEnd ==
    /\ clearing = Capacity
    /\ inUse' = 0
    /\ clearing' = -1
    /\ UNCHANGED <<generations, alive, freeStack, budgetVars,
                   storeVars, eachVars, issued, written>>

-----------------------------------------------------------------------------
(* World::each *)

SlotsOf(rows) == [r \in DOMAIN rows |-> rows[r].slot]

\* A non-empty query matches the archetypes that have all its components.
\* each<>() matches none: its walk over the slots reads nothing the guard
\* protects and is not modelled further.
Matched(q) == {a \in 1..archetypeCount : q # {} /\ q \subseteq archetypes[a].sig}

\* Archetype ids, ascending.
Rank(ids, a) == Cardinality({b \in ids : b <= a})
Ascending(ids) == [i \in 1..Cardinality(ids) |-> CHOOSE a \in ids : Rank(ids, a) = i]

MatchedBy(q) == Ascending(Matched(q))

EachBegin(q, readOnly) ==
    /\ Ready
    /\ ~iterationActive
    /\ iterationActive' = TRUE
    /\ iterationReadComponents' = readOnly
    /\ query' = q
    /\ matchedIds' = MatchedBy(q)
    /\ iterationArchetypes' = Matched(q)
    /\ cursor' = [archetype |-> 1, row |-> 1]
    /\ expected' = FlattenSeq([i \in DOMAIN MatchedBy(q) |->
                                 SlotsOf(archetypes[MatchedBy(q)[i]].rows)])
    /\ visited' = <<>>
    /\ UNCHANGED <<slotVars, storeVars, issued, written>>

AtCursor == archetypes[matchedIds[cursor.archetype]].rows

\* The next row: the callback gets it, and may write the components it
\* declared Write.
EachVisit ==
    /\ NotClearing
    /\ iterationActive
    /\ cursor.archetype <= Len(matchedIds)
    /\ cursor.row <= Len(AtCursor)
    /\ LET s == AtCursor[cursor.row].slot
           a == matchedIds[cursor.archetype]
       IN  /\ visited' = Append(visited, s)
           /\ \/ UNCHANGED <<archetypes, written>>
              \/ \E c \in query \ iterationReadComponents, v \in Values :
                   /\ archetypes' = [archetypes EXCEPT
                                       ![a].rows[cursor.row].data[c] = v]
                   /\ written' = [written EXCEPT ![s][c] = v]
    /\ cursor' = [cursor EXCEPT !.row = @ + 1]
    /\ UNCHANGED <<slotVars, archetypeOf, rowOf, archetypeCount,
                   iterationActive, iterationArchetypes,
                   iterationReadComponents, query, matchedIds, expected,
                   issued>>

EachNextArchetype ==
    /\ NotClearing
    /\ iterationActive
    /\ cursor.archetype <= Len(matchedIds)
    /\ cursor.row > Len(AtCursor)
    /\ cursor' = [archetype |-> cursor.archetype + 1, row |-> 1]
    /\ UNCHANGED <<slotVars, storeVars, issued, written, iterationActive,
                   iterationArchetypes, iterationReadComponents, query,
                   matchedIds, expected, visited>>

EachEnd ==
    /\ NotClearing
    /\ iterationActive
    /\ cursor.archetype > Len(matchedIds)
    /\ iterationActive' = FALSE
    /\ iterationArchetypes' = {}
    /\ iterationReadComponents' = {}
    /\ query' = {}
    /\ matchedIds' = <<>>
    /\ cursor' = [archetype |-> 1, row |-> 1]
    /\ expected' = <<>>
    /\ visited' = <<>>
    /\ UNCHANGED <<slotVars, storeVars, issued, written>>

-----------------------------------------------------------------------------
Next ==
    \/ Create \/ BeginFrame
    \/ \E s \in Slots, c \in Components :
         \/ \E v \in Values : AddInPlace(s, c, v) \/ AddComponent(s, c, v)
         \/ RemoveComponent(s, c)
         \/ RemoveLastComponent(s, c)
    \/ \E s \in Slots : Destroy(s)
    \/ ClearBegin \/ ClearSlot \/ ClearEnd
    \/ \E q \in SUBSET Components : \E readOnly \in SUBSET q : EachBegin(q, readOnly)
    \/ EachVisit \/ EachNextArchetype \/ EachEnd

Spec == Init /\ [][Next]_vars

-----------------------------------------------------------------------------
(* Properties *)

TypeOK ==
    /\ generations \in [Slots -> Generations]
    /\ alive \in [Slots -> BOOLEAN]
    /\ freeStack \in Seq(Slots)
    /\ inUse \in 0..Capacity
    /\ clearing \in -1..Capacity
    /\ peakInUse \in inUse..Capacity
    /\ warnedThisFrame \subseteq warnedEver
    /\ archetypeOf \in [Slots -> 0..MaxArchetypes]
    /\ rowOf \in [Slots -> 0..Capacity]
    /\ archetypeCount \in 0..MaxArchetypes
    /\ iterationActive \in BOOLEAN
    /\ iterationArchetypes \subseteq ArchetypeIds
    /\ iterationReadComponents \subseteq query
    /\ query \subseteq Components

\* The free stack holds every dead slot exactly once and no live one, so that
\* create() can neither hand out a live slot nor lose one; and entityCount()
\* is the number of live entities whenever no call is running.
FreeStackPartition ==
    /\ \A i, j \in DOMAIN freeStack :
         freeStack[i] = freeStack[j] => i = j
    /\ ToSet(freeStack) = {s \in Slots : ~alive[s]}
    /\ NotClearing => inUse = Cardinality({s \in Slots : alive[s]})

\* The budget report (GuardrailStats): a level counts a warning exactly when
\* the peak population reached it, through every destroy(), clear() and
\* beginFrame(), although only the exact count is ever compared.
BudgetWarnsMatchPeak ==
    warnedEver = {level \in BudgetLevels :
                    Threshold(level) # 0 /\ peakInUse >= Threshold(level)}

\* A handle create() once gave out is valid only while its own entity lives:
\* the one exception is a slot whose generation has gone all the way round.
StaleHandlesRejected ==
    \A s \in Slots : \A k \in DOMAIN issued[s] :
        LET handle == [id |-> s, generation |-> issued[s][k]]
            newest == Len(issued[s])
        IN  /\ IsValid(handle) =>
                 alive[s] /\ (newest - k) % (GenerationMod - 1) = 0
            /\ (alive[s] /\ k = newest) => IsValid(handle)

\* Storage and index agree: rows are in strictly ascending slot order, and
\* a slot's archetypeOf_/rowOf_ entry is exactly where its row is (dead slots
\* and entities without components have none).
RowsIndexed ==
    /\ \A a \in 1..archetypeCount :
         LET rows == archetypes[a].rows IN
         /\ \A r \in 1..(Len(rows) - 1) : rows[r].slot < rows[r + 1].slot
         /\ \A r \in DOMAIN rows :
              archetypeOf[rows[r].slot] = a /\ rowOf[rows[r].slot] = r
         /\ Len(rows) <= archetypes[a].rowCapacity
    /\ \A s \in Slots :
         archetypeOf[s] # 0 =>
           /\ alive[s]
           /\ rowOf[s] \in DOMAIN archetypes[archetypeOf[s]].rows
           /\ archetypes[archetypeOf[s]].rows[rowOf[s]].slot = s

\* Through every move between archetypes an entity keeps exactly the
\* components it was given, with the values last written to them.
DataFollowsEntity ==
    \A s \in Slots : alive[s] =>
        /\ SignatureOf(s) = DOMAIN written[s]
        /\ StoredOf(s) = written[s]

\* attachSlot's failure path "should be unreachable": an archetype always has
\* room, or can grow, for an entity that is not in it.
ReserveNeverFails ==
    \A a \in 1..archetypeCount : \A s \in Slots :
        (alive[s] /\ archetypeOf[s] # a) => ~ReserveFails(archetypes[a])

\* The store is whole at every moment, through destroy, clear, generation wraps
\* and moves between archetypes: each slot is free once or alive, old handles are
\* refused, every row is where the index says, an entity keeps its components and
\* their values, and a move never fails for want of room (entity.cpp,
\* archetype.cpp).
StoreIsWhole ==
    /\ TypeOK /\ FreeStackPartition /\ StaleHandlesRejected
    /\ RowsIndexed /\ DataFollowsEntity /\ ReserveNeverFails

\* What is left to visit of the running each().
Remaining ==
    FlattenSeq([i \in 1..Len(matchedIds) |->
        LET rows == SlotsOf(archetypes[matchedIds[i]].rows) IN
        IF i < cursor.archetype THEN <<>>
        ELSE IF i = cursor.archetype THEN SubSeq(rows, cursor.row, Len(rows))
        ELSE rows])

\* Whatever the callback does, an each() visits every entity that matched
\* when it began, once, in archetype-id and slot order, and no other.
EachVisitsMatchesOnce ==
    iterationActive => visited \o Remaining = expected

\* The guard sets index ids 1..kMaxArchetypes (query.h, IdSet256): no
\* structural change may look up an id outside that space.
GuardIdsInRange ==
    \A s \in Slots, c \in Components :
        (/\ Ready
         /\ iterationActive
         /\ alive[s]
         /\ archetypeOf[s] \notin iterationArchetypes
         /\ c \notin SignatureOf(s)) =>
            TargetArchetype(SignatureOf(s) \cup {c}) \in 0..MaxArchetypes

\* Component ids and stored values are only compared for equality and never
\* ordered, so they are interchangeable.
WorldSymmetry == Permutations(Values) \cup Permutations(Components)
=============================================================================
