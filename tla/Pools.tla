-------------------------------- MODULE Pools --------------------------------
(***************************************************************************)
(* laige::Pool and laige::ArenaPool (pools.h): fixed-capacity stores that   *)
(* construct elements in place.  A Pool hands out generation-checked        *)
(* handles and reuses slots last-in first-out; an ArenaPool fills a prefix  *)
(* and releases it whole.  Pools are moved and destroyed like any C++       *)
(* object.                                                                  *)
(*                                                                          *)
(* Elements are numbered in order of construction, so that each can be      *)
(* followed to its destructor.  A slot holds an element's number, or None.  *)
(***************************************************************************)
EXTENDS Integers, FiniteSets, FiniteSetsExt, SequencesExt

CONSTANTS
    PoolCount,      \* the Pool objects
    PoolCapacity,       \* Options::capacity of each at construction
    PoolGenerations,  \* 2^32 in the code
    MaxElements,    \* bound: elements constructed in all
    MaxStores       \* bound: Pool objects constructed in all

ASSUME PoolsAssumption ==
    /\ PoolCount \in Nat /\ PoolCapacity \in Nat /\ MaxElements \in Nat /\ MaxStores \in Nat
    /\ PoolGenerations \in Nat /\ PoolGenerations > 1

None == 0
NoHandle == [index |-> 0, generation |-> 0, store |-> None, use |-> 0]
PoolIds == 1..PoolCount
Elements == 1..MaxElements
PoolSlots == 0..(PoolCapacity - 1)

VARIABLES
    pools,       \* per Pool: capacity, generations, slots, freeStack, inUse
    arena,       \* the ArenaPool: its live elements in slot order
    constructed, \* elements constructed so far
    \* history
    destructions,  \* per element, how often its destructor ran
    handles,       \* per element, the handle create() returned for it
    stores         \* backing stores allocated so far
poolsVars == <<pools, arena, constructed, destructions, handles, stores>>

\* A newly constructed pool.  Its store's number and the uses of its slots are
\* history: no code reads them.
Fresh(store) ==
    [store |-> store,
     uses |-> [s \in PoolSlots |-> 0],
     capacity |-> PoolCapacity,
     generations |-> [s \in PoolSlots |-> 1],
     slots |-> [s \in PoolSlots |-> None],
     freeStack |-> [i \in 1..PoolCapacity |-> i - 1],
     inUse |-> 0]

\* What a move leaves behind: no capacity, no storage.
MovedFrom ==
    [store |-> None, uses |-> <<>>, capacity |-> 0, generations |-> <<>>, slots |-> <<>>,
     freeStack |-> <<>>, inUse |-> 0]

PoolsInit ==
    /\ pools = [p \in PoolIds |-> Fresh(p)]
    /\ stores = PoolCount
    /\ arena = <<>>
    /\ constructed = 0
    /\ destructions = [e \in Elements |-> 0]
    /\ handles = [e \in Elements |-> NoHandle]

Destroyed(count, elements) ==
    [e \in Elements |-> IF e \in elements THEN count[e] + 1 ELSE count[e]]

Held(pool) == {pool.slots[s] : s \in DOMAIN pool.slots} \ {None}

HandleIsValid(pool, handle) ==
    /\ handle.index < pool.capacity
    /\ handle.generation # 0
    /\ pool.slots[handle.index] # None
    /\ pool.generations[handle.index] = handle.generation

-----------------------------------------------------------------------------
(* Pool *)

PoolCreate(p) ==
    /\ constructed < MaxElements
    /\ pools[p].freeStack # <<>>   \* else BudgetExhausted
    /\ LET slot == Last(pools[p].freeStack)
           e == constructed + 1
       IN  /\ constructed' = e
           /\ pools' = [pools EXCEPT
                  ![p].slots[slot] = e,
                  ![p].uses[slot] = @ + 1,
                  ![p].freeStack = Front(@),
                  ![p].inUse = @ + 1]
           /\ handles' = [handles EXCEPT ![e] =
                  [index |-> slot, generation |-> pools[p].generations[slot],
                   store |-> pools[p].store, use |-> pools[p].uses[slot]]]
    /\ UNCHANGED <<arena, destructions, stores>>

\* Faulty variant: the slot returned, its generation not advanced.
ReleasedSameGeneration(pool, slot) ==
    [pool EXCEPT !.slots[slot] = None,
                 !.freeStack = Append(@, slot),
                 !.inUse = @ - 1]

\* The generation is 32 bits wide and, unlike the world's, does not skip 0.
Released(pool, slot) ==
    [pool EXCEPT !.slots[slot] = None,
                 !.generations[slot] = (@ + 1) % PoolGenerations,
                 !.freeStack = Append(@, slot),
                 !.inUse = @ - 1]

\* destroy() with any handle this program ever got, from whichever pool.
PoolDestroy(p) ==
    \E e \in 1..constructed :
        LET handle == handles[e] IN
        /\ handle.store # None   \* an arena's element has no handle
        /\ HandleIsValid(pools[p], handle)   \* else InvalidArgument
        /\ destructions' =
               Destroyed(destructions, {pools[p].slots[handle.index]})
        /\ pools' = [pools EXCEPT ![p] = Released(@, handle.index)]
        /\ UNCHANGED <<arena, constructed, handles, stores>>

Live(pool) == {s \in DOMAIN pool.slots : pool.slots[s] # None}

\* clear() releases the live slots in ascending order.
InOrder(slots) ==
    [i \in 1..Cardinality(slots) |->
        CHOOSE s \in slots : Cardinality({t \in slots : t <= s}) = i]

Cleared(pool) ==
    [pool EXCEPT
        !.slots = [s \in DOMAIN @ |-> None],
        !.generations = [s \in DOMAIN @ |->
            IF s \in Live(pool) THEN (@[s] + 1) % PoolGenerations ELSE @[s]],
        !.freeStack = @ \o InOrder(Live(pool)),
        !.inUse = 0]

PoolClear(p) ==
    /\ pools[p].inUse > 0
    /\ destructions' = Destroyed(destructions, Held(pools[p]))
    /\ pools' = [pools EXCEPT ![p] = Cleared(@)]
    /\ UNCHANGED <<arena, constructed, handles, stores>>

\* The elements the target of a move destroys first.
OverwrittenBy(p) == Held(pools[p])

\* p = std::move(q).
MoveAssign(p, q) ==
    /\ p # q
    /\ destructions' = Destroyed(destructions, OverwrittenBy(p))
    /\ pools' = [pools EXCEPT ![p] = pools[q], ![q] = MovedFrom]
    /\ UNCHANGED <<arena, constructed, handles, stores>>

\* The pool object ends, and a new one takes its name.
Renew(p) ==
    /\ stores < MaxStores
    /\ stores' = stores + 1
    /\ destructions' = Destroyed(destructions, Held(pools[p]))
    /\ pools' = [pools EXCEPT ![p] = Fresh(stores + 1)]
    /\ UNCHANGED <<arena, constructed, handles>>

-----------------------------------------------------------------------------
(* ArenaPool *)

ArenaCreate ==
    /\ constructed < MaxElements
    /\ Len(arena) < PoolCapacity   \* else BudgetExhausted
    /\ arena' = Append(arena, constructed + 1)
    /\ constructed' = constructed + 1
    /\ UNCHANGED <<pools, destructions, handles, stores>>

\* reset(), also what the destructor and a move onto the arena do.
ArenaReset ==
    /\ arena # <<>>
    /\ destructions' = Destroyed(destructions, ToSet(arena))
    /\ arena' = <<>>
    /\ UNCHANGED <<pools, constructed, handles, stores>>

PoolsNext ==
    \/ \E p \in PoolIds :
         \/ PoolCreate(p) \/ PoolDestroy(p) \/ PoolClear(p) \/ Renew(p)
         \/ \E q \in PoolIds : MoveAssign(p, q)
    \/ ArenaCreate \/ ArenaReset

PoolsSpec == PoolsInit /\ [][PoolsNext]_poolsVars

-----------------------------------------------------------------------------
(* Properties *)

PoolsTypeOK ==
    /\ \A p \in PoolIds :
         /\ pools[p].capacity \in {0, PoolCapacity}
         /\ \A s \in DOMAIN pools[p].slots :
              /\ pools[p].slots[s] \in 0..constructed
              /\ pools[p].generations[s] \in 0..(PoolGenerations - 1)
    /\ Len(arena) <= PoolCapacity

\* Through destroy(), clear(), moves and the end of a pool, every element is
\* either in exactly one slot of one store and was never destroyed, or in
\* none and its destructor ran exactly once.
NoLeakNoDoubleDestroy ==
    \A e \in 1..constructed :
        LET places == {at \in PoolIds \X PoolSlots :
                          /\ at[2] \in DOMAIN pools[at[1]].slots
                          /\ pools[at[1]].slots[at[2]] = e}
        IN  Cardinality(places) + (IF e \in ToSet(arena) THEN 1 ELSE 0)
                + destructions[e] = 1

\* The pool's books: the free stack holds each free slot once, and inUse is
\* the number of the others.
FreeSlotsOnce ==
    \A p \in PoolIds :
        LET pool == pools[p] IN
        /\ Len(pool.freeStack) + pool.inUse = pool.capacity
        /\ ToSet(pool.freeStack) = (DOMAIN pool.slots) \ Live(pool)

\* Within the store that gave it out, and through every move of the pool, a
\* handle reaches its own element as long as that lives, and afterwards none:
\* the exceptions are a generation that went all the way round and the
\* generation 0, whose elements no handle reaches.
HandlesReachTheirOwn ==
    \A p \in PoolIds, e \in 1..constructed :
        LET pool == pools[p]
            handle == handles[e]
        IN  (pool.store # None /\ handle.store = pool.store) =>
              /\ HandleIsValid(pool, handle) =>
                   \/ pool.slots[handle.index] = e
                   \/ LET later == handles[pool.slots[handle.index]].use IN
                      (later - handle.use) % PoolGenerations = 0
              /\ pool.slots[handle.index] = e =>
                   HandleIsValid(pool, handle) \/ handle.generation = 0

\* Through destroy, clear, moves and reuse a handle reaches its own element or
\* none, and each element is destroyed exactly once (pools.h).
PoolsKeepTheirElements ==
    PoolsTypeOK /\ FreeSlotsOnce /\ NoLeakNoDoubleDestroy /\ HandlesReachTheirOwn
=============================================================================
