--------------------------- MODULE SchedulerProofs ---------------------------
(***************************************************************************)
(* Theorems about Scheduler for every number of systems, names and          *)
(* components: a schedule is the stable topological sort of the             *)
(* declarations, a reported cycle is one and no order exists beside it, and *)
(* a tick's systems read what that tick's writer wrote.                     *)
(***************************************************************************)
EXTENDS Scheduler, FiniteSetTheorems, SequenceTheorems, TLAPS

-----------------------------------------------------------------------------
(* Least elements, and counting *)

\* A set of natural numbers that is not empty has a least element.
LEMMA LeastExists ==
    ASSUME NEW T \in SUBSET Nat, T # {}
    PROVE  \E x \in T : \A y \in T : x <= y
<1> DEFINE initial == {1..k : k \in T}
<1>1. \A k \in T : 1..k \in FiniteSubsetsOf(Nat)
  BY FS_Interval DEF FiniteSubsetsOf
<1>2. initial \subseteq FiniteSubsetsOf(Nat) /\ initial # {}
  BY <1>1
<1>3. \E a \in initial : \A b \in initial : <<b, a>> \notin StrictSubsetOrdering(Nat)
  <2> HIDE DEF initial
  <2> QED
    BY <1>2, FS_StrictSubsetOrderingWellFounded, WFMin
<1>4. PICK x \in T : \A b \in initial : <<b, 1..x>> \notin StrictSubsetOrdering(Nat)
  BY <1>3
<1>5. ASSUME NEW y \in T, y < x PROVE FALSE
  <2>1. 1..y \in initial
    OBVIOUS
  <2>2. 1..y \subseteq 1..x /\ x \in 1..x /\ x \notin 1..y
    BY <1>5
  <2>3. 1..y \in SUBSET Nat /\ 1..x \in SUBSET Nat /\ 1..y # 1..x
    BY <2>2
  <2>4. <<1..y, 1..x>> \in StrictSubsetOrdering(Nat)
    BY <2>2, <2>3 DEF StrictSubsetOrdering
  <2>5. QED
    BY <1>4, <2>1, <2>4
<1>6. QED
  BY <1>5

\* Min of the community modules is that element.
LEMMA MinIsLeast ==
    ASSUME NEW T \in SUBSET Nat, T # {}
    PROVE  Min(T) \in T /\ \A y \in T : Min(T) <= y
  BY LeastExists DEF Min

\* 1..n has n elements.
LEMMA UpTo ==
    ASSUME NEW n \in Nat
    PROVE  IsFiniteSet(1..n) /\ Cardinality(1..n) = n
  BY FS_Interval

\* A sequence without repetition of n numbers of 1..n holds each of them.
LEMMA InjectiveIsOnto ==
    ASSUME NEW n \in Nat, NEW p \in [1..n -> 1..n], IsInjective(p)
    PROVE  \A j \in 1..n : \E k \in 1..n : p[k] = j
<1>1. p \in Injection(1..n, 1..n)
  BY DEF Injection, IsInjective
<1>2. IsFiniteSet(1..n)
  BY UpTo
<1>3. p \in Surjection(1..n, 1..n)
  BY <1>1, <1>2, FS_Injection
<1>4. QED
  BY <1>3 DEF Surjection

\* A sequence without repetition of elements of a finite set is no longer than the set.
LEMMA InjectiveIsShort ==
    ASSUME NEW S, IsFiniteSet(S), NEW n \in Nat, NEW p \in [1..n -> S], IsInjective(p)
    PROVE  n <= Cardinality(S)
<1>1. p \in Injection(1..n, S)
  BY DEF Injection, IsInjective
<1>2. Cardinality(1..n) = n
  BY UpTo
<1>3. QED
  BY <1>1, <1>2, FS_Injection

\* Fewer than n numbers are not all of 1..n.
LEMMA SomeIsLeft ==
    ASSUME NEW n \in Nat, NEW m \in Nat, NEW p \in [1..m -> 1..n], m < n
    PROVE  \E j \in 1..n : \A k \in 1..m : p[k] # j
<1> SUFFICES ASSUME \A j \in 1..n : \E k \in 1..m : p[k] = j PROVE FALSE
    OBVIOUS
<1>1. ExistsSurjection(1..m, 1..n)
  BY DEF ExistsSurjection, Surjection
<1>2. Cardinality(1..n) <= m
  BY <1>1, FS_SurjCardinalityBound
<1>3. QED
  BY <1>2, UpTo

-----------------------------------------------------------------------------
(* The inductive invariant *)

\* Names are given once, and a system names no dependency twice.
Registry ==
    /\ systems \in Seq([name : Names, dependsOn : Seq(Names),
                        reads : SUBSET Components, writes : SUBSET Components])
    /\ Len(systems) <= MaxSystems
    /\ \A i, j \in Ids : systems[i].name = systems[j].name => i = j
    /\ \A i \in Ids : IsInjective(systems[i].dependsOn)

\* What a placed system must follow is placed before it.
Respects ==
    \A k \in DOMAIN order, j \in 1..systemCount :
        MustFollow(order[k], j) => \E l \in 1..(k - 1) : order[l] = j

\* No order that respects the dependencies and agrees with this one up to some place has
\* a lower system there.
Stable ==
    \A p \in Topological(systemCount) : \A k \in DOMAIN order :
        (\A l \in 1..(k - 1) : p[l] = order[l]) => order[k] <= p[k]

OrderInv ==
    /\ systemCount \in 0..Len(systems)
    /\ order \in Seq(1..systemCount) /\ IsInjective(order)
    /\ Respects /\ Stable

\* What each phase finds: the locals of scheduleSystems are those of its running call.
PhaseInv ==
    /\ pc \in {"idle", "resolve", "place", "walk", "running"}
    /\ status \in Statuses
    /\ pc \in {"resolve", "place", "walk"} => systemCount = Len(systems) /\ status = "none"
    /\ pc \notin {"place", "walk"} => scheduled = {}
    /\ pc # "walk" => path = <<>>
    /\ pc = "resolve" => order = <<>>
    /\ pc = "running" => status = "ok"
    /\ pc # "running" => ran = <<>>

\* The dependencies of i that are not placed.
Left(i) == {d \in DOMAIN depIds[i] : depIds[i][d] \notin scheduled}

\* Kahn's loop: an unplaced system waits for as many as it has unplaced dependencies.
PlaceInv ==
    pc \in {"place", "walk"} =>
        /\ scheduled = {order[k] : k \in DOMAIN order}
        /\ \A i \in Ids :
             /\ DOMAIN depIds[i] = DOMAIN systems[i].dependsOn
             /\ \A d \in DOMAIN depIds[i] :
                  /\ depIds[i][d] \in Ids
                  /\ systems[depIds[i][d]].name = systems[i].dependsOn[d]
        /\ \A i \in Ids \ scheduled : pending[i] = Cardinality(Left(i))

\* The walk goes from an unplaced system to one it must follow, and to each once.
WalkInv ==
    pc = "walk" =>
        /\ Ready = {}
        /\ cur \in Ids \ scheduled
        /\ path \in Seq(Ids \ scheduled) /\ IsInjective(path)
        /\ \A k \in 1..(Len(path) - 1) : MustFollow(path[k], path[k + 1])
        /\ path # <<>> => MustFollow(path[Len(path)], cur)

\* An accepted schedule has every system, no component two writers, and a warning for
\* each read before its write; a rejected one has its cycle.
OutcomeInv ==
    /\ status = "ok" =>
         /\ Len(order) = systemCount
         /\ \A i, j \in 1..systemCount : systems[i].writes \cap systems[j].writes # {} => i = j
         /\ \A c \in Components, r, w \in 1..systemCount :
              (r # w /\ c \in systems[r].reads /\ c \in systems[w].writes /\ Before(r, w)) =>
                  <<c, r, w>> \in warnings
    /\ status = "dependency_cycle" => cycle \in Seq(1..systemCount) /\ CycleIsReal

\* The running tick is at some place of the order.
TickInv ==
    /\ ran \in Seq(1..systemCount) /\ Len(ran) <= Len(order)
    /\ \A k \in DOMAIN ran : ran[k] = order[k]

SchedulerInv ==
    Registry /\ OrderInv /\ PhaseInv /\ PlaceInv /\ WalkInv /\ OutcomeInv /\ TickInv

-----------------------------------------------------------------------------
(* Steps that leave parts of the state alone *)

\* What a registered system is.
LEMMA SystemTypes ==
    ASSUME Registry, NEW i \in Ids
    PROVE  /\ systems[i].name \in Names /\ systems[i].dependsOn \in Seq(Names)
           /\ systems[i].reads \subseteq Components /\ systems[i].writes \subseteq Components
<1> DEFINE Rec == [name : Names, dependsOn : Seq(Names),
                   reads : SUBSET Components, writes : SUBSET Components]
<1>1. systems \in Seq(Rec) /\ i \in 1..Len(systems)
  BY DEF Registry, Ids
<1>2. systems[i] \in Rec
  <2> HIDE DEF Rec
  <2> QED
    BY <1>1, ElementOfSeq
<1>3. QED
  BY <1>2

\* The declarations and the order are read off these three variables.
LEMMA SameOrder ==
    ASSUME Registry, OrderInv, UNCHANGED <<systems, systemCount, order>>
    PROVE  Registry' /\ OrderInv'
<1>1. Registry'
  BY DEF Registry, Ids
<1>2. \A i, j : MustFollow(i, j)' <=> MustFollow(i, j)
  BY DEF MustFollow
<1>3. Topological(systemCount)' = Topological(systemCount)
  BY <1>2 DEF Topological
<1>4. Respects' /\ Stable'
  BY <1>2, <1>3 DEF OrderInv, Respects, Stable
<1>5. QED
  BY <1>1, <1>4 DEF OrderInv

\* So is the outcome, with what was reported beside it.
LEMMA SameOutcome ==
    ASSUME OutcomeInv, UNCHANGED <<systems, systemCount, order, warnings, cycle, status>>
    PROVE  OutcomeInv'
  BY DEF OutcomeInv, CycleIsReal, MustFollow, Before

\* A newly registered system changes nothing among the ones before it.
LEMMA Registered ==
    ASSUME Registry, NEW r, systems' = Append(systems, r),
           r \in [name : Names, dependsOn : Seq(Names),
                   reads : SUBSET Components, writes : SUBSET Components],
           r.name \notin {systems[i].name : i \in Ids}, IsInjective(r.dependsOn),
           Len(systems) < MaxSystems
    PROVE  /\ Registry'
           /\ Len(systems') = Len(systems) + 1
           /\ \A i \in Ids : systems'[i] = systems[i]
           /\ \A i, j \in Ids : MustFollow(i, j)' <=> MustFollow(i, j)
<1> DEFINE Rec == [name : Names, dependsOn : Seq(Names),
                   reads : SUBSET Components, writes : SUBSET Components]
           n == Len(systems)
<1>1. systems \in Seq(Rec) /\ n \in Nat /\ MaxSystems \in Nat
  BY BoundsAssumption DEF Registry
<1> HIDE DEF Rec
<1>2. /\ systems' \in Seq(Rec) /\ Len(systems') = n + 1
      /\ \A i \in 1..n : systems'[i] = systems[i]
      /\ systems'[n + 1] = r
  BY <1>1, AppendProperties DEF Rec
<1>3. \A i, j \in 1..(n + 1) : systems'[i].name = systems'[j].name => i = j
  <2> SUFFICES ASSUME NEW i \in 1..(n + 1), NEW j \in 1..(n + 1), systems'[i].name = systems'[j].name
               PROVE  i = j
      OBVIOUS
  <2> HIDE DEF n
  <2>1. i \in 1..n \/ i = n + 1
    BY <1>1
  <2>2. j \in 1..n \/ j = n + 1
    BY <1>1
  <2>3. QED
    BY <1>2, <2>1, <2>2 DEF Registry, Ids, n
<1>4. \A i \in 1..(n + 1) : IsInjective(systems'[i].dependsOn)
  <2> SUFFICES ASSUME NEW i \in 1..(n + 1) PROVE IsInjective(systems'[i].dependsOn)
      OBVIOUS
  <2> HIDE DEF n
  <2>1. i \in 1..n \/ i = n + 1
    BY <1>1
  <2>2. QED
    BY <1>2, <2>1 DEF Registry, Ids, n
<1>5. Registry'
  <2> HIDE DEF n
  <2>1. n < MaxSystems
    BY DEF n
  <2>2. n + 1 <= MaxSystems
    BY <1>1, <2>1
  <2>3. QED
    BY <1>2, <1>3, <1>4, <2>2 DEF Registry, Ids, Rec
<1>6. \A i, j \in 1..n : MustFollow(i, j)' <=> MustFollow(i, j)
  BY <1>2 DEF MustFollow
<1>7. QED
  BY <1>2, <1>5, <1>6 DEF Ids

\* Orders of the systems that were scheduled are the same orders after it.
LEMMA SameTopological ==
    ASSUME NEW n \in Nat, \A i, j \in 1..n : MustFollow(i, j)' <=> MustFollow(i, j)
    PROVE  Topological(n)' = Topological(n)
<1>1. ASSUME NEW p \in [1..n -> 1..n]
      PROVE  (\A k, l \in 1..n : MustFollow(p[k], p[l])' => l < k)
               <=> (\A k, l \in 1..n : MustFollow(p[k], p[l]) => l < k)
  <2>1. \A k \in 1..n : p[k] \in 1..n
    OBVIOUS
  <2>2. QED
    BY <2>1
<1>2. QED
  BY <1>1 DEF Topological

-----------------------------------------------------------------------------
(* One lemma per action *)

\* The place after the last one of a cycle is the first.
LEMMA NextPlace ==
    ASSUME NEW n \in Nat, NEW k \in 1..n
    PROVE  /\ (k % n) + 1 \in 1..n
           /\ k < n => (k % n) + 1 = k + 1
           /\ k = n => (k % n) + 1 = 1
<1>1. k < n => k % n = k
  BY SMT
<1>2. k = n => k % n = 0
  BY SMT
<1>3. QED
  BY <1>1, <1>2

LEMMA RegisterStep == SchedulerInv /\ RegisterSystem => SchedulerInv'
<1> SUFFICES ASSUME SchedulerInv, RegisterSystem PROVE SchedulerInv'
    OBVIOUS
<1>1. PICK name \in Names \ {systems[i].name : i \in Ids},
           spec \in {x \in Specs : DepSpecOk(x)},
           reads \in SUBSET Components, writes \in SUBSET Components :
        systems' = Append(systems, [name |-> name, dependsOn |-> spec,
                                    reads |-> reads, writes |-> writes])
  BY DEF RegisterSystem
<1> DEFINE r == [name |-> name, dependsOn |-> spec, reads |-> reads, writes |-> writes]
<1>2. /\ pc \in {"idle", "running"} /\ Len(systems) < MaxSystems
      /\ UNCHANGED <<scheduleVars, localVars, ran>>
  BY DEF RegisterSystem
<1>3. spec \in Seq(Names) /\ IsInjective(spec)
  <2>1. PICK n \in 0..(MaxDeps + 1) : spec \in [1..n -> Names \cup {NoName}]
    BY DEF Specs
  <2>2. n \in Nat /\ \A d \in 1..n : spec[d] \in Names
    BY <2>1 DEF DepSpecOk
  <2>3. spec \in [1..n -> Names]
    BY <2>1, <2>2
  <2>4. QED
    BY <2>2, <2>3, SeqDef DEF DepSpecOk
<1>4. /\ r \in [name : Names, dependsOn : Seq(Names),
                 reads : SUBSET Components, writes : SUBSET Components]
      /\ r.name = name /\ r.dependsOn = spec
  BY <1>3
<1>5. /\ Registry'
      /\ Len(systems') = Len(systems) + 1
      /\ \A i \in Ids : systems'[i] = systems[i]
      /\ \A i, j \in Ids : MustFollow(i, j)' <=> MustFollow(i, j)
  <2> HIDE DEF r
  <2>1. systems' = Append(systems, r)
    BY <1>1 DEF r
  <2>2. Registry
    BY DEF SchedulerInv
  <2>3. r.name \notin {systems[i].name : i \in Ids} /\ IsInjective(r.dependsOn)
    BY <1>3, <1>4
  <2>4. QED
    BY <1>2, <1>4, <2>1, <2>2, <2>3, Registered
<1>6. /\ Len(systems) \in Nat /\ systemCount \in 0..Len(systems)
      /\ 1..systemCount \subseteq Ids /\ systemCount \in Nat
  BY DEF SchedulerInv, Registry, OrderInv, Ids
<1>7. OrderInv'
  <2>1. /\ UNCHANGED <<systemCount, order>>
        /\ order \in Seq(1..systemCount) /\ IsInjective(order) /\ Respects /\ Stable
    BY <1>2 DEF scheduleVars, SchedulerInv, OrderInv
  <2>2. \A k \in DOMAIN order : order[k] \in 1..systemCount
    <3>1. DOMAIN order = 1..Len(order) /\ order \in [1..Len(order) -> 1..systemCount]
      BY <2>1, LenProperties
    <3>2. QED
      BY <3>1
  <2>3. Respects'
    BY <1>5, <1>6, <2>1, <2>2 DEF Respects
  <2>4. Topological(systemCount)' = Topological(systemCount)
    BY <1>5, <1>6, <2>1, SameTopological
  <2>5. Stable'
    BY <2>1, <2>4 DEF Stable
  <2>6. QED
    BY <1>5, <1>6, <2>1, <2>3, <2>5 DEF OrderInv
<1>8. PhaseInv' /\ PlaceInv' /\ WalkInv' /\ TickInv'
  BY <1>2 DEF scheduleVars, localVars, SchedulerInv, PhaseInv, PlaceInv, WalkInv, TickInv
<1>9. OutcomeInv'
  <2>1. UNCHANGED <<systemCount, order, status, warnings, cycle>> /\ OutcomeInv
    BY <1>2 DEF scheduleVars, SchedulerInv
  <2>2. status = "dependency_cycle" => CycleIsReal'
    <3> SUFFICES ASSUME status = "dependency_cycle", NEW k \in DOMAIN cycle
                 PROVE  MustFollow(cycle[k], cycle[(k % Len(cycle)) + 1])'
        BY <2>1 DEF OutcomeInv, CycleIsReal
    <3>1. /\ cycle \in Seq(1..systemCount) /\ k \in 1..Len(cycle) /\ Len(cycle) \in Nat
          /\ MustFollow(cycle[k], cycle[(k % Len(cycle)) + 1])
      BY <2>1 DEF OutcomeInv, CycleIsReal
    <3>2. (k % Len(cycle)) + 1 \in 1..Len(cycle)
      BY <3>1, NextPlace
    <3>3. cycle[k] \in 1..systemCount /\ cycle[(k % Len(cycle)) + 1] \in 1..systemCount
      BY <3>1, <3>2, ElementOfSeq
    <3>4. MustFollow(cycle[k], cycle[(k % Len(cycle)) + 1])'
            <=> MustFollow(cycle[k], cycle[(k % Len(cycle)) + 1])
      BY <1>5, <1>6, <2>1, <3>3 DEF MustFollow
    <3>5. QED
      BY <3>1, <3>4
  <2>3. QED
    BY <1>5, <1>6, <2>1, <2>2 DEF OutcomeInv, Before
<1>10. QED
  BY <1>5, <1>7, <1>8, <1>9 DEF SchedulerInv

LEMMA BeginScheduleStep == SchedulerInv /\ BeginSchedule => SchedulerInv'
<1> SUFFICES ASSUME SchedulerInv, BeginSchedule PROVE SchedulerInv'
    OBVIOUS
<1> USE DEF SchedulerInv
<1>1. /\ pc = "idle" /\ systemCount' = Len(systems) /\ order' = <<>> /\ status' = "none"
      /\ pc' = "resolve" /\ UNCHANGED <<systems, scheduled, path, ran>>
      /\ scheduled = {} /\ path = <<>> /\ ran = <<>>
  BY DEF BeginSchedule, PhaseInv
<1>2. Registry' /\ Len(systems) \in Nat
  BY <1>1 DEF Registry, Ids
<1>3. DOMAIN <<>> = {}
  OBVIOUS
<1>4. OrderInv'
  BY <1>1, <1>2, <1>3 DEF OrderInv, Respects, Stable, IsInjective
<1>5. PhaseInv' /\ PlaceInv' /\ WalkInv' /\ OutcomeInv'
  BY <1>1 DEF PhaseInv, PlaceInv, WalkInv, OutcomeInv, Statuses
<1>6. TickInv'
  BY <1>1, <1>3 DEF TickInv
<1>7. QED
  BY <1>2, <1>4, <1>5, <1>6

LEMMA ResolveMissingStep == SchedulerInv /\ ResolveMissing => SchedulerInv'
<1> SUFFICES ASSUME SchedulerInv, ResolveMissing PROVE SchedulerInv'
    OBVIOUS
<1> USE DEF SchedulerInv
<1>1. /\ pc = "resolve" /\ pc' = "idle" /\ status' = "dep_missing" /\ scheduled' = {}
      /\ path' = <<>> /\ UNCHANGED <<systems, systemCount, order, warnings, cycle, ran>>
  BY DEF ResolveMissing, Returns
<1>2. Registry' /\ OrderInv'
  BY <1>1, SameOrder
<1>3. PhaseInv' /\ PlaceInv' /\ WalkInv' /\ OutcomeInv' /\ TickInv'
  BY <1>1 DEF PhaseInv, PlaceInv, WalkInv, OutcomeInv, TickInv, Statuses
<1>4. QED
  BY <1>2, <1>3

LEMMA ResolveStep == SchedulerInv /\ Resolve => SchedulerInv'
<1> SUFFICES ASSUME SchedulerInv, Resolve PROVE SchedulerInv'
    OBVIOUS
<1> USE DEF SchedulerInv
<1>1. /\ pc = "resolve" /\ pc' = "place" /\ UNCHANGED <<systems, scheduleVars, scheduled, path, cur, ran>>
      /\ scheduled = {} /\ path = <<>> /\ order = <<>>
      /\ \A i \in Ids : \A d \in DOMAIN systems[i].dependsOn : Named(systems[i].dependsOn[d]) # {}
      /\ depIds' = [i \in Ids |-> [d \in DOMAIN systems[i].dependsOn |->
                                   Min(Named(systems[i].dependsOn[d]))]]
      /\ pending' = [i \in Ids |-> Len(systems[i].dependsOn)]
  BY DEF Resolve, PhaseInv
<1>2. Registry' /\ OrderInv'
  BY <1>1, SameOrder DEF scheduleVars
<1>3. PhaseInv' /\ WalkInv' /\ OutcomeInv' /\ TickInv'
  <2>1. OutcomeInv'
    BY <1>1, SameOutcome DEF scheduleVars
  <2>2. QED
    BY <1>1, <2>1 DEF scheduleVars, PhaseInv, WalkInv, TickInv
<1>4. PlaceInv'
  <2>1. scheduled' = {order'[k] : k \in DOMAIN order'}
    BY <1>1 DEF scheduleVars
  <2>2. ASSUME NEW i \in Ids
        PROVE  /\ DOMAIN depIds'[i] = DOMAIN systems[i].dependsOn
               /\ \A d \in DOMAIN depIds'[i] :
                    /\ depIds'[i][d] \in Ids
                    /\ systems[depIds'[i][d]].name = systems[i].dependsOn[d]
               /\ pending'[i] = Cardinality(Left(i)')
    <3>1. DOMAIN depIds'[i] = DOMAIN systems[i].dependsOn
      BY <1>1
    <3>2. ASSUME NEW d \in DOMAIN systems[i].dependsOn
          PROVE  /\ depIds'[i][d] \in Ids
                 /\ systems[depIds'[i][d]].name = systems[i].dependsOn[d]
      <4>1. depIds'[i][d] = Min(Named(systems[i].dependsOn[d]))
        BY <1>1
      <4>2. Named(systems[i].dependsOn[d]) # {} /\ Named(systems[i].dependsOn[d]) \in SUBSET Nat
        BY <1>1 DEF Named, Ids
      <4>3. depIds'[i][d] \in Named(systems[i].dependsOn[d])
        BY <4>1, <4>2, MinIsLeast
      <4>4. QED
        BY <4>3 DEF Named
    <3>3. Left(i)' = DOMAIN systems[i].dependsOn
      BY <1>1, <3>1 DEF Left
    <3>4. systems[i].dependsOn \in Seq(Names)
      BY SystemTypes
    <3>5. /\ DOMAIN systems[i].dependsOn = 1..Len(systems[i].dependsOn)
          /\ Len(systems[i].dependsOn) \in Nat
      BY <3>4
    <3>6. Cardinality(1..Len(systems[i].dependsOn)) = Len(systems[i].dependsOn)
      BY <3>5, FS_Interval
    <3>7. pending'[i] = Len(systems[i].dependsOn)
      BY <1>1
    <3>8. QED
      BY <3>1, <3>2, <3>3, <3>5, <3>6, <3>7
  <2>3. QED
    BY <1>1, <2>1, <2>2 DEF PlaceInv, Ids
<1>5. QED
  BY <1>2, <1>3, <1>4

\* Of a system in Kahn's loop: its dependencies are the systems it must follow, each once.
LEMMA DependenciesOf ==
    ASSUME Registry, PlaceInv, pc \in {"place", "walk"}, NEW i \in Ids
    PROVE  /\ IsFiniteSet(DOMAIN depIds[i]) /\ DOMAIN depIds[i] \in SUBSET Nat
           /\ \A d \in DOMAIN depIds[i] : depIds[i][d] \in Ids /\ MustFollow(i, depIds[i][d])
           /\ \A j \in Ids : MustFollow(i, j) => DependsOn(i, j)
           /\ \A d, e \in DOMAIN depIds[i] : depIds[i][d] = depIds[i][e] => d = e
<1>1. /\ DOMAIN depIds[i] = DOMAIN systems[i].dependsOn
      /\ \A d \in DOMAIN depIds[i] :
           depIds[i][d] \in Ids /\ systems[depIds[i][d]].name = systems[i].dependsOn[d]
  BY DEF PlaceInv
<1>2. systems[i].dependsOn \in Seq(Names) /\ IsInjective(systems[i].dependsOn)
  BY SystemTypes DEF Registry
<1>3. DOMAIN systems[i].dependsOn = 1..Len(systems[i].dependsOn) /\ Len(systems[i].dependsOn) \in Nat
  BY <1>2
<1>4. IsFiniteSet(DOMAIN depIds[i]) /\ DOMAIN depIds[i] \in SUBSET Nat
  BY <1>1, <1>3, UpTo
<1>5. \A d \in DOMAIN depIds[i] : depIds[i][d] \in Ids /\ MustFollow(i, depIds[i][d])
  BY <1>1 DEF MustFollow
<1>6. ASSUME NEW j \in Ids, MustFollow(i, j) PROVE DependsOn(i, j)
  <2>1. PICK d \in DOMAIN depIds[i] : systems[i].dependsOn[d] = systems[j].name
    BY <1>1, <1>6 DEF MustFollow
  <2>2. depIds[i][d] = j
    BY <1>1, <2>1 DEF Registry
  <2>3. QED
    BY <2>2 DEF DependsOn
<1>7. \A d, e \in DOMAIN depIds[i] : depIds[i][d] = depIds[i][e] => d = e
  BY <1>1, <1>2 DEF IsInjective
<1>8. QED
  BY <1>4, <1>5, <1>6, <1>7

LEMMA PlaceStep == SchedulerInv /\ Place => SchedulerInv'
<1> SUFFICES ASSUME SchedulerInv, Place PROVE SchedulerInv'
    OBVIOUS
<1> DEFINE x == Picked
           m == Len(order)
           n == systemCount
<1>1. /\ pc = "place" /\ Ready # {} /\ order' = Append(order, x)
      /\ scheduled' = scheduled \cup {x} /\ pending' = AfterPlacing(x)
      /\ UNCHANGED <<systems, systemCount, status, warnings, cycle, pc, depIds, path, cur, ran>>
  BY DEF Place
<1>2. /\ Registry /\ OrderInv /\ PhaseInv /\ PlaceInv /\ WalkInv /\ OutcomeInv /\ TickInv
      /\ n \in Nat /\ n = Len(systems) /\ Ids = 1..n /\ status = "none"
      /\ order \in Seq(1..n) /\ m \in Nat /\ DOMAIN order = 1..m
      /\ scheduled = {order[k] : k \in 1..m} /\ ran = <<>> /\ path = <<>>
  BY <1>1 DEF SchedulerInv, Registry, OrderInv, PhaseInv, PlaceInv, Ids
<1> HIDE DEF m, n
<1>3. /\ x \in Ids /\ x \notin scheduled /\ pending[x] = 0 /\ \A y \in Ready : x <= y
  <2>1. Ready \in SUBSET Nat
    BY <1>2 DEF Ready
  <2>2. Picked \in Ready /\ \A y \in Ready : Picked <= y
    BY <1>1, <2>1, MinIsLeast DEF Picked
  <2>3. QED
    BY <2>2 DEF Ready
<1> HIDE DEF x
<1>4. /\ order' \in Seq(1..n) /\ Len(order') = m + 1 /\ order'[m + 1] = x
      /\ DOMAIN order' = 1..(m + 1) /\ \A k \in 1..m : order'[k] = order[k]
  BY <1>1, <1>2, <1>3, AppendProperties DEF m
<1>5. \A k \in 1..m : order[k] \in scheduled
  BY <1>2
<1>6. IsInjective(order')
  <2>1. \A k, l \in 1..m : order[k] = order[l] => k = l
    BY <1>2 DEF OrderInv, IsInjective
  <2>2. \A k \in 1..(m + 1) : k \in 1..m \/ k = m + 1
    BY <1>2
  <2>3. QED
    BY <1>3, <1>4, <1>5, <2>1, <2>2 DEF IsInjective
<1>7. ASSUME NEW y \in Ids, y \notin scheduled
      PROVE  pending[y] = 0 <=> \A d \in DOMAIN depIds[y] : depIds[y][d] \in scheduled
  <2>1. pending[y] = Cardinality(Left(y))
    BY <1>1, <1>2, <1>7 DEF PlaceInv
  <2>2. IsFiniteSet(Left(y))
    <3>1. IsFiniteSet(DOMAIN depIds[y]) /\ Left(y) \in SUBSET DOMAIN depIds[y]
      BY <1>1, <1>2, DependenciesOf DEF Left
    <3>2. QED
      BY <3>1, FS_Subset
  <2>3. Cardinality(Left(y)) = 0 <=> Left(y) = {}
    BY <2>2, FS_EmptySet
  <2>4. QED
    BY <2>1, <2>3 DEF Left
<1>8. Respects'
  <2> SUFFICES ASSUME NEW k \in 1..(m + 1), NEW j \in 1..n, MustFollow(order'[k], j)
               PROVE  \E l \in 1..(k - 1) : order'[l] = j
      BY <1>1, <1>4 DEF Respects, MustFollow, n
  <2>1. CASE k \in 1..m
    <3>1. PICK l \in 1..(k - 1) : order[l] = j
      BY <1>2, <1>4, <2>1 DEF OrderInv, Respects, n
    <3>2. l \in 1..m
      BY <1>2, <2>1
    <3>3. QED
      BY <1>4, <3>1, <3>2
  <2>2. CASE k = m + 1
    <3>1. DependsOn(x, j)
      BY <1>1, <1>2, <1>3, <1>4, <2>2, DependenciesOf
    <3>2. j \in scheduled
      BY <1>3, <1>7, <3>1 DEF DependsOn
    <3>3. PICK l \in 1..m : order[l] = j
      BY <1>2, <3>2
    <3>4. l \in 1..(k - 1)
      BY <1>2, <2>2
    <3>5. QED
      BY <1>4, <3>3, <3>4
  <2>3. QED
    BY <1>2, <2>1, <2>2
<1>9. Stable'
  <2>1. Topological(systemCount)' = Topological(n)
    BY <1>1 DEF Topological, MustFollow, n
  <2> SUFFICES ASSUME NEW p \in Topological(n), NEW k \in 1..(m + 1),
                      \A l \in 1..(k - 1) : p[l] = order'[l]
               PROVE  order'[k] <= p[k]
      BY <1>4, <2>1 DEF Stable
  <2>2. CASE k \in 1..m
    <3>1. \A l \in 1..(k - 1) : l \in 1..m /\ p[l] = order[l]
      BY <1>2, <1>4, <2>2
    <3>2. QED
      BY <1>2, <1>4, <2>2, <3>1 DEF OrderInv, Stable, n
  <2>3. CASE k = m + 1
    <3>1. /\ p \in [1..n -> 1..n] /\ IsInjective(p)
          /\ \A a, b \in 1..n : MustFollow(p[a], p[b]) => b < a
      BY DEF Topological
    <3>2. k \in 1..n
      <4>1. order' \in [1..(m + 1) -> 1..n]
        BY <1>4, LenProperties
      <4>2. IsFiniteSet(1..n) /\ Cardinality(1..n) = n /\ m + 1 \in Nat
        BY <1>2, UpTo
      <4>3. m + 1 <= Cardinality(1..n)
        BY <1>6, <4>1, <4>2, InjectiveIsShort
      <4>4. QED
        BY <1>2, <2>3, <4>2, <4>3
    <3>3. ASSUME NEW l \in 1..m PROVE p[l] = order[l]
      <4>1. l \in 1..(k - 1)
        BY <1>2, <2>3
      <4>2. p[l] = order'[l]
        BY <4>1
      <4>3. QED
        BY <1>4, <4>2
    <3>4. p[k] \in Ids /\ p[k] \notin scheduled
      <4>1. ASSUME NEW l \in 1..m, order[l] = p[k] PROVE FALSE
        <5>1. l \in 1..n /\ l # k
          BY <1>2, <2>3, <3>2
        <5>2. QED
          BY <3>1, <3>2, <3>3, <4>1, <5>1 DEF IsInjective
      <4>2. QED
        BY <1>2, <3>1, <3>2, <4>1
    <3>5. ASSUME NEW d \in DOMAIN depIds[p[k]] PROVE depIds[p[k]][d] \in scheduled
      <4>1. depIds[p[k]][d] \in 1..n /\ MustFollow(p[k], depIds[p[k]][d])
        BY <1>1, <1>2, <3>4, <3>5, DependenciesOf
      <4>2. PICK l \in 1..n : p[l] = depIds[p[k]][d]
        BY <1>2, <3>1, <4>1, InjectiveIsOnto
      <4>3. l < k
        BY <3>1, <3>2, <4>1, <4>2
      <4>4. l \in 1..m
        BY <1>2, <2>3, <4>3
      <4>5. QED
        BY <1>5, <3>3, <4>2, <4>4
    <3>6. p[k] \in Ready
      BY <1>7, <3>4, <3>5 DEF Ready
    <3>7. QED
      BY <1>3, <1>4, <2>3, <3>6
  <2>4. QED
    BY <1>2, <2>2, <2>3
<1>10. PlaceInv'
  <2>1. scheduled' = {order'[k] : k \in DOMAIN order'}
    <3>1. \A k \in 1..(m + 1) : k \in 1..m \/ k = m + 1
      BY <1>2
    <3>2. 1..m \subseteq 1..(m + 1) /\ m + 1 \in 1..(m + 1)
      BY <1>2
    <3>3. QED
      BY <1>1, <1>2, <1>4, <3>1, <3>2
  <2>2. ASSUME NEW i \in Ids, i \notin scheduled, i # x PROVE pending'[i] = Cardinality(Left(i)')
    <3>1. /\ pending[i] = Cardinality(Left(i))
          /\ pending'[i] = IF DependsOn(i, x) THEN pending[i] - 1 ELSE pending[i]
      BY <1>1, <1>2, <2>2 DEF PlaceInv, AfterPlacing
    <3>2. IsFiniteSet(Left(i))
      <4>1. IsFiniteSet(DOMAIN depIds[i]) /\ Left(i) \in SUBSET DOMAIN depIds[i]
        BY <1>1, <1>2, DependenciesOf DEF Left
      <4>2. QED
        BY <4>1, FS_Subset
    <3>3. CASE DependsOn(i, x)
      <4>1. PICK d \in DOMAIN depIds[i] : depIds[i][d] = x
        BY <3>3 DEF DependsOn
      <4>2. d \in Left(i)
        BY <1>3, <4>1 DEF Left
      <4>3. \A e \in DOMAIN depIds[i] : depIds[i][e] = x => e = d
        BY <1>1, <1>2, <4>1, DependenciesOf
      <4>4. Left(i)' = Left(i) \ {d}
        BY <1>1, <4>1, <4>3 DEF Left
      <4>5. QED
        BY <3>1, <3>2, <3>3, <4>2, <4>4, FS_RemoveElement
    <3>4. CASE ~DependsOn(i, x)
      <4>1. Left(i)' = Left(i)
        BY <1>1, <3>4 DEF Left, DependsOn
      <4>2. QED
        BY <3>1, <3>4, <4>1
    <3>5. QED
      BY <3>3, <3>4
  <2>3. QED
    BY <1>1, <1>2, <2>1, <2>2 DEF PlaceInv, Ids
<1>11. Registry' /\ PhaseInv' /\ WalkInv' /\ OutcomeInv'
  BY <1>1, <1>2 DEF Registry, Ids, PhaseInv, WalkInv, OutcomeInv
<1>12. OrderInv'
  BY <1>1, <1>2, <1>4, <1>6, <1>8, <1>9 DEF OrderInv, n
<1>13. TickInv'
  BY <1>1, <1>2, <1>4 DEF TickInv, n
<1>14. QED
  BY <1>10, <1>11, <1>12, <1>13 DEF SchedulerInv

LEMMA BeginWalkStep == SchedulerInv /\ BeginWalk => SchedulerInv'
<1> SUFFICES ASSUME SchedulerInv, BeginWalk PROVE SchedulerInv'
    OBVIOUS
<1> DEFINE n == systemCount
           m == Len(order)
<1>1. /\ pc = "place" /\ Ready = {} /\ m < n
      /\ cur' = Min(Ids \ scheduled) /\ pc' = "walk"
      /\ UNCHANGED <<systems, scheduleVars, depIds, pending, scheduled, path, ran>>
  BY DEF BeginWalk
<1>2. /\ Registry /\ OrderInv /\ PhaseInv /\ PlaceInv /\ OutcomeInv /\ TickInv
      /\ n \in Nat /\ Ids = 1..n /\ path = <<>>
      /\ order \in Seq(1..n) /\ scheduled = {order[k] : k \in DOMAIN order}
  <2>1. /\ Registry /\ OrderInv /\ PhaseInv /\ PlaceInv /\ OutcomeInv /\ TickInv
        /\ n = Len(systems) /\ path = <<>>
    BY <1>1 DEF SchedulerInv, PhaseInv
  <2>2. Len(systems) \in Nat
    BY <2>1 DEF Registry
  <2>3. QED
    BY <1>1, <2>1, <2>2 DEF OrderInv, PlaceInv, Ids
<1>3. m \in Nat /\ order \in [1..m -> 1..n] /\ DOMAIN order = 1..m
  BY <1>2, LenProperties
<1> HIDE DEF m, n
<1>4. cur' \in Ids \ scheduled
  <2>1. PICK j \in 1..n : \A k \in 1..m : order[k] # j
    BY <1>1, <1>2, <1>3, SomeIsLeft
  <2>2. j \in Ids \ scheduled
    <3>1. scheduled = {order[k] : k \in 1..m}
      BY <1>2, <1>3
    <3>2. QED
      BY <1>2, <2>1, <3>1
  <2>3. Ids \ scheduled \in SUBSET Nat
    BY <1>2
  <2>4. QED
    BY <1>1, <2>2, <2>3, MinIsLeast
<1>5. Registry' /\ OrderInv'
  BY <1>1, <1>2, SameOrder DEF scheduleVars
<1>6. OutcomeInv'
  BY <1>1, <1>2, SameOutcome DEF scheduleVars
<1>7. PhaseInv' /\ TickInv'
  BY <1>1, <1>2 DEF PhaseInv, TickInv, scheduleVars
<1>8. PlaceInv'
  BY <1>1, <1>2 DEF PlaceInv, Left, Ids, scheduleVars
<1>9. WalkInv'
  <2>1. Ready' = {} /\ Ids' = Ids
    BY <1>1 DEF Ready, Ids
  <2>2. path' = <<>> /\ path' \in Seq((Ids \ scheduled)') /\ Len(path') = 0 /\ DOMAIN path' = {}
    BY <1>1, <1>2
  <2>3. QED
    BY <1>1, <1>4, <2>1, <2>2 DEF WalkInv, IsInjective
<1>10. QED
  BY <1>5, <1>6, <1>7, <1>8, <1>9 DEF SchedulerInv

\* An unplaced system that is not ready must follow an unplaced one.
LEMMA WalkFindsNext ==
    ASSUME SchedulerInv, pc = "walk"
    PROVE  FirstRemaining(cur) \in Ids \ scheduled /\ MustFollow(cur, FirstRemaining(cur))
<1>1. /\ Registry /\ PlaceInv /\ cur \in Ids /\ cur \notin scheduled /\ Ready = {}
  BY DEF SchedulerInv, WalkInv
<1>2. pending[cur] # 0 /\ pending[cur] = Cardinality(Left(cur))
  BY <1>1 DEF Ready, PlaceInv
<1>3. Left(cur) # {}
  BY <1>2, FS_EmptySet
<1>4. Left(cur) \in SUBSET Nat /\ Left(cur) \subseteq DOMAIN depIds[cur]
  BY <1>1, DependenciesOf DEF Left
<1>5. Min(Left(cur)) \in Left(cur)
  BY <1>3, <1>4, MinIsLeast
<1>6. FirstRemaining(cur) = depIds[cur][Min(Left(cur))]
  BY <1>3 DEF FirstRemaining, Left
<1>7. FirstRemaining(cur) \notin scheduled
  BY <1>5, <1>6 DEF Left
<1>8. QED
  BY <1>1, <1>4, <1>5, <1>6, <1>7, DependenciesOf

LEMMA WalkOnStep == SchedulerInv /\ WalkOn => SchedulerInv'
<1> SUFFICES ASSUME SchedulerInv, WalkOn PROVE SchedulerInv'
    OBVIOUS
<1> DEFINE R == Ids \ scheduled
           m == Len(path)
<1>1. /\ pc = "walk" /\ \A k \in DOMAIN path : path[k] # cur
      /\ path' = Append(path, cur) /\ cur' = FirstRemaining(cur)
      /\ UNCHANGED <<systems, scheduleVars, pc, depIds, pending, scheduled, ran>>
  BY DEF WalkOn
<1>2. /\ Registry /\ OrderInv /\ PhaseInv /\ PlaceInv /\ OutcomeInv /\ TickInv
      /\ Ready = {} /\ cur \in R /\ path \in Seq(R) /\ IsInjective(path)
      /\ \A k \in 1..(m - 1) : MustFollow(path[k], path[k + 1])
      /\ path # <<>> => MustFollow(path[m], cur)
  BY <1>1 DEF SchedulerInv, WalkInv
<1>3. cur' \in R /\ MustFollow(cur, cur')
  BY <1>1, WalkFindsNext
<1> HIDE DEF R
<1>4. m \in Nat /\ DOMAIN path = 1..m
  BY <1>2, LenProperties
<1> HIDE DEF m
<1>5. /\ path' \in Seq(R) /\ Len(path') = m + 1 /\ path'[m + 1] = cur
      /\ \A k \in 1..m : path'[k] = path[k]
  BY <1>1, <1>2, AppendProperties DEF m
<1>6. DOMAIN path' = 1..(m + 1)
  BY <1>5, LenProperties
<1>7. IsInjective(path')
  <2>1. \A k \in 1..(m + 1) : k \in 1..m \/ k = m + 1
    BY <1>4
  <2>2. \A k, l \in 1..m : path[k] = path[l] => k = l
    BY <1>2, <1>4 DEF IsInjective
  <2>3. QED
    BY <1>1, <1>4, <1>5, <1>6, <2>1, <2>2 DEF IsInjective
<1>8. ASSUME NEW k \in 1..m PROVE MustFollow(path'[k], path'[k + 1])
  <2>1. CASE k \in 1..(m - 1)
    <3>1. k + 1 \in 1..m
      BY <1>4, <2>1
    <3>2. QED
      BY <1>2, <1>5, <2>1, <3>1 DEF m
  <2>2. CASE k = m
    <3>1. path # <<>>
      BY <1>4
    <3>2. QED
      BY <1>2, <1>5, <2>2, <3>1 DEF m
  <2>3. QED
    BY <1>4, <2>1, <2>2
<1>9. WalkInv'
  <2>1. /\ Ready' = {} /\ (Ids \ scheduled)' = R
        /\ \A i, j : MustFollow(i, j)' <=> MustFollow(i, j)
    BY <1>1, <1>2 DEF Ready, Ids, MustFollow, R
  <2>2. Len(path') - 1 = m
    BY <1>4, <1>5
  <2>3. \A k \in 1..(Len(path') - 1) : MustFollow(path'[k], path'[k + 1])
    BY <1>8, <2>2
  <2>4. MustFollow(path'[Len(path')], cur')
    BY <1>3, <1>5
  <2>5. QED
    BY <1>1, <1>3, <1>5, <1>7, <2>1, <2>3, <2>4 DEF WalkInv
<1>10. Registry' /\ OrderInv'
  BY <1>1, <1>2, SameOrder DEF scheduleVars
<1>11. OutcomeInv'
  BY <1>1, <1>2, SameOutcome DEF scheduleVars
<1>12. PhaseInv' /\ TickInv'
  BY <1>1, <1>2 DEF PhaseInv, TickInv, scheduleVars
<1>13. PlaceInv'
  BY <1>1, <1>2 DEF PlaceInv, Left, Ids, scheduleVars
<1>14. QED
  BY <1>9, <1>10, <1>11, <1>12, <1>13 DEF SchedulerInv

LEMMA WalkClosedStep == SchedulerInv /\ WalkClosed => SchedulerInv'
<1> SUFFICES ASSUME SchedulerInv, WalkClosed PROVE SchedulerInv'
    OBVIOUS
<1> DEFINE R == Ids \ scheduled
           m == Len(path)
<1>1. /\ pc = "walk" /\ pc' = "idle" /\ status' = "dependency_cycle" /\ scheduled' = {}
      /\ path' = <<>> /\ UNCHANGED <<systems, systemCount, order, warnings, ran>>
  BY DEF WalkClosed, Returns
<1>2. PICK k \in DOMAIN path : path[k] = cur /\ cycle' = SubSeq(path, k, m)
  BY DEF WalkClosed, CycleFrom
<1>3. /\ Registry /\ OrderInv /\ PhaseInv /\ OutcomeInv /\ TickInv /\ systemCount = Len(systems)
      /\ path \in Seq(R) /\ IsInjective(path)
      /\ \A i \in 1..(m - 1) : MustFollow(path[i], path[i + 1])
      /\ path # <<>> => MustFollow(path[m], cur)
  BY <1>1 DEF SchedulerInv, WalkInv, PhaseInv
<1> HIDE DEF R
<1>4. m \in Nat /\ DOMAIN path = 1..m
  BY <1>3, LenProperties
<1>5. \A i \in 1..m : path[i] \in R
  BY <1>3, ElementOfSeq
<1>6. R \subseteq 1..systemCount
  BY <1>3 DEF R, Ids
<1> HIDE DEF m
<1> DEFINE L == m - k + 1
<1>7. k \in 1..m /\ L \in Nat /\ L \in 1..m
  BY <1>2, <1>4
<1>8. /\ cycle' \in Seq(1..systemCount) /\ Len(cycle') = L
      /\ \A i \in 1..L : cycle'[i] = path[k + i - 1]
  <2>1. \A i \in k..m : path[i] \in 1..systemCount
    <3>1. \A i \in k..m : i \in 1..m
      BY <1>4, <1>7
    <3>2. QED
      BY <1>5, <1>6, <3>1
  <2>2. k \in Int /\ m \in Int /\ k <= m
    BY <1>4, <1>7
  <2>3. QED
    BY <1>2, <2>1, <2>2, SubSeqProperties
<1>9. DOMAIN cycle' = 1..L /\ cycle' # <<>>
  <2>1. Len(cycle') # 0
    BY <1>7, <1>8
  <2>2. DOMAIN cycle' = 1..Len(cycle') /\ cycle' # <<>>
    BY <1>8, <2>1, LenProperties, EmptySeq
  <2>3. QED
    BY <1>8, <2>2
<1>10. IsInjective(cycle')
  <2>1. \A i \in 1..L : k + i - 1 \in 1..m
    BY <1>4, <1>7
  <2>2. \A i, j \in 1..L : k + i - 1 = k + j - 1 => i = j
    BY <1>4, <1>7
  <2>3. QED
    BY <1>3, <1>4, <1>8, <1>9, <2>1, <2>2 DEF IsInjective
<1>11. ASSUME NEW i \in 1..L PROVE MustFollow(cycle'[i], cycle'[(i % L) + 1])
  <2>1. CASE i < L
    <3>1. k + i - 1 \in 1..(m - 1) /\ i + 1 \in 1..L /\ k + (i + 1) - 1 = (k + i - 1) + 1
      BY <1>4, <1>7, <2>1
    <3>2. (i % L) + 1 = i + 1
      BY <1>7, <2>1, NextPlace
    <3>3. cycle'[i] = path[k + i - 1] /\ cycle'[i + 1] = path[(k + i - 1) + 1]
      BY <1>8, <3>1
    <3>4. QED
      BY <1>3, <3>1, <3>2, <3>3
  <2>2. CASE i = L
    <3>1. k + i - 1 = m /\ k + 1 - 1 = k /\ 1 \in 1..L /\ path # <<>>
      BY <1>4, <1>7, <2>2
    <3>2. (i % L) + 1 = 1
      BY <1>7, <2>2, NextPlace
    <3>3. cycle'[i] = path[m] /\ cycle'[1] = cur
      BY <1>2, <1>8, <3>1
    <3>4. QED
      BY <1>3, <3>1, <3>2, <3>3
  <2>3. QED
    BY <1>7, <2>1, <2>2
<1>12. CycleIsReal'
  BY <1>1, <1>8, <1>9, <1>10, <1>11 DEF CycleIsReal, MustFollow
<1>13. Registry' /\ OrderInv'
  BY <1>1, <1>3, SameOrder
<1>14. OutcomeInv'
  BY <1>1, <1>8, <1>12 DEF OutcomeInv
<1>15. PhaseInv' /\ PlaceInv' /\ WalkInv' /\ TickInv'
  BY <1>1, <1>3 DEF PhaseInv, PlaceInv, WalkInv, TickInv, Statuses
<1>16. QED
  BY <1>13, <1>14, <1>15 DEF SchedulerInv

LEMMA ValidateFailsStep == SchedulerInv /\ ValidateFails => SchedulerInv'
<1> SUFFICES ASSUME SchedulerInv, ValidateFails PROVE SchedulerInv'
    OBVIOUS
<1> USE DEF SchedulerInv
<1>1. /\ pc = "place" /\ pc' = "idle" /\ status' = "double_writer" /\ scheduled' = {}
      /\ path' = <<>> /\ UNCHANGED <<systems, systemCount, order, warnings, cycle, ran>>
  BY DEF ValidateFails, Returns
<1>2. Registry' /\ OrderInv'
  BY <1>1, SameOrder
<1>3. PhaseInv' /\ PlaceInv' /\ WalkInv' /\ OutcomeInv' /\ TickInv'
  BY <1>1 DEF PhaseInv, PlaceInv, WalkInv, OutcomeInv, TickInv, Statuses
<1>4. QED
  BY <1>2, <1>3

LEMMA ValidateStep == SchedulerInv /\ Validate => SchedulerInv'
<1> SUFFICES ASSUME SchedulerInv, Validate PROVE SchedulerInv'
    OBVIOUS
<1> USE DEF SchedulerInv
<1>1. /\ pc = "place" /\ pc' = "idle" /\ status' = "ok" /\ scheduled' = {}
      /\ Len(order) = systemCount /\ path' = <<>>
      /\ UNCHANGED <<systems, systemCount, order, cycle, ran>>
      /\ \A c \in Components : ~DoubleWriter(c)
  BY DEF Validate, Returns
<1>2. Registry' /\ OrderInv' /\ systemCount = Len(systems) /\ Ids = 1..systemCount
  BY <1>1, SameOrder DEF PhaseInv, Ids
<1>3. PhaseInv' /\ PlaceInv' /\ WalkInv' /\ TickInv'
  BY <1>1 DEF PhaseInv, PlaceInv, WalkInv, TickInv, Statuses
<1>4. ASSUME NEW i \in 1..systemCount, NEW j \in 1..systemCount,
             systems[i].writes \cap systems[j].writes # {}
      PROVE  i = j
  <2>1. PICK c \in systems[i].writes : c \in systems[j].writes
    BY <1>4
  <2>2. c \in Components
    BY <1>2, <2>1, SystemTypes
  <2>3. i \in Writers(c) /\ j \in Writers(c)
    BY <1>2, <2>1 DEF Writers
  <2>4. QED
    BY <1>1, <2>2, <2>3 DEF DoubleWriter
<1>5. ASSUME NEW c \in Components, NEW r \in 1..systemCount, NEW w \in 1..systemCount,
             r # w, c \in systems[r].reads, c \in systems[w].writes, Before(r, w)
      PROVE  <<c, r, w>> \in warnings'
  <2>1. /\ r \in Readers(c) /\ w \in Writers(c)
        /\ <<c, r, w>> \in Components \X Ids \X Ids
    BY <1>2, <1>5 DEF Readers, Writers
  <2>2. warnings' = {x \in Components \X Ids \X Ids :
                      /\ x[2] # x[3] /\ x[2] \in Readers(x[1]) /\ x[3] \in Writers(x[1])
                      /\ ReadsTooEarly(x[2], x[3])}
    BY DEF Validate
  <2>3. QED
    BY <1>5, <2>1, <2>2 DEF ReadsTooEarly
<1>6. OutcomeInv'
  BY <1>1, <1>4, <1>5 DEF OutcomeInv, Before
<1>7. QED
  BY <1>2, <1>3, <1>6

LEMMA TickStep == SchedulerInv /\ (BeginTick \/ RunSystem \/ EndTick) => SchedulerInv'
<1> SUFFICES ASSUME SchedulerInv, BeginTick \/ RunSystem \/ EndTick PROVE SchedulerInv'
    OBVIOUS
<1> USE DEF SchedulerInv
<1>1. /\ UNCHANGED <<systems, scheduleVars, depIds, pending, scheduled, path, cur>>
      /\ pc \in {"idle", "running"} /\ pc' \in {"idle", "running"}
  BY DEF BeginTick, RunSystem, EndTick, localVars
<1>2. Registry' /\ OrderInv'
  BY <1>1, SameOrder DEF scheduleVars
<1>3. OutcomeInv'
  BY <1>1, SameOutcome DEF scheduleVars
<1>4. PlaceInv' /\ WalkInv'
  BY <1>1 DEF PlaceInv, WalkInv
<1>5. CASE BeginTick
  BY <1>1, <1>2, <1>3, <1>4, <1>5 DEF BeginTick, PhaseInv, TickInv, OrderInv, scheduleVars
<1>6. CASE RunSystem
  <2> DEFINE n == systemCount
             m == Len(ran)
  <2>1. /\ pc = "running" /\ m < n /\ ran' = Append(ran, order[m + 1])
        /\ UNCHANGED <<systems, scheduleVars, localVars>>
    BY <1>6 DEF RunSystem
  <2>2. /\ Len(order) = n /\ order \in Seq(1..n) /\ ran \in Seq(1..n) /\ n \in Nat
        /\ \A k \in DOMAIN ran : ran[k] = order[k]
    BY <2>1 DEF PhaseInv, OutcomeInv, TickInv, OrderInv
  <2> HIDE DEF n
  <2>3. m \in Nat /\ DOMAIN ran = 1..m
    BY <2>2, LenProperties
  <2>4. order[m + 1] \in 1..n
    <3>1. m + 1 \in 1..Len(order)
      BY <2>1, <2>2, <2>3
    <3>2. QED
      BY <2>2, <3>1, ElementOfSeq
  <2>5. /\ ran' \in Seq(1..n) /\ Len(ran') = m + 1 /\ ran'[m + 1] = order[m + 1]
        /\ \A k \in 1..m : ran'[k] = ran[k]
    BY <2>1, <2>2, <2>4, AppendProperties
  <2> HIDE DEF m
  <2>6. DOMAIN ran' = 1..(m + 1) /\ \A k \in 1..(m + 1) : k \in 1..m \/ k = m + 1
    BY <2>3, <2>5, LenProperties
  <2>7. m + 1 <= n
    BY <2>1, <2>2, <2>3
  <2>8. TickInv'
    BY <2>1, <2>2, <2>3, <2>5, <2>6, <2>7 DEF TickInv, scheduleVars, n
  <2>9. PhaseInv'
    BY <2>1 DEF PhaseInv, scheduleVars, localVars
  <2>10. QED
    BY <1>2, <1>3, <1>4, <2>8, <2>9
<1>7. CASE EndTick
  BY <1>1, <1>2, <1>3, <1>4, <1>7 DEF EndTick, PhaseInv, TickInv, OrderInv, scheduleVars
<1>8. QED
  BY <1>5, <1>6, <1>7

-----------------------------------------------------------------------------
(* The invariant, and what it implies *)

LEMMA InvHolds == Spec => []SchedulerInv
<1>1. Init => SchedulerInv
  <2> SUFFICES ASSUME Init PROVE SchedulerInv
      OBVIOUS
  <2> USE DEF Init
  <2>1. DOMAIN <<>> = {} /\ Ids = {}
    BY DEF Ids
  <2>2. Registry
    BY <2>1, BoundsAssumption DEF Registry
  <2>3. OrderInv
    BY <2>1 DEF OrderInv, Respects, Stable, IsInjective
  <2>4. PhaseInv /\ PlaceInv /\ WalkInv /\ OutcomeInv /\ TickInv
    BY <2>1 DEF PhaseInv, PlaceInv, WalkInv, OutcomeInv, TickInv, Statuses
  <2>5. QED
    BY <2>2, <2>3, <2>4 DEF SchedulerInv
<1>2. SchedulerInv /\ [Next]_vars => SchedulerInv'
  <2> SUFFICES ASSUME SchedulerInv, [Next]_vars PROVE SchedulerInv'
      OBVIOUS
  <2>1. CASE UNCHANGED vars
    <3> USE DEF SchedulerInv
    <3>1. UNCHANGED <<systems, systemCount, order, status, warnings, cycle, pc, depIds,
                      pending, scheduled, path, cur, ran>>
      BY <2>1 DEF vars, scheduleVars, localVars
    <3>2. Registry' /\ OrderInv' /\ OutcomeInv'
      BY <3>1, SameOrder, SameOutcome
    <3>3. PhaseInv' /\ TickInv'
      BY <3>1 DEF PhaseInv, TickInv
    <3>4. /\ Ids' = Ids /\ Ready' = Ready
          /\ \A i : Left(i)' = Left(i)
          /\ \A i, j : MustFollow(i, j)' <=> MustFollow(i, j)
      BY <3>1 DEF Left, Ids, Ready, MustFollow
    <3>5. PlaceInv' /\ WalkInv'
      BY <3>1, <3>4 DEF PlaceInv, WalkInv
    <3>6. QED
      BY <3>2, <3>3, <3>5
  <2>2. QED
    BY <2>1, RegisterStep, BeginScheduleStep, ResolveMissingStep, ResolveStep, PlaceStep,
       BeginWalkStep, WalkOnStep, WalkClosedStep, ValidateFailsStep, ValidateStep, TickStep
       DEF Next
<1>3. QED
  BY <1>1, <1>2, PTL DEF Spec

LEMMA InvImpliesTypeOK == SchedulerInv => TypeOK
<1> SUFFICES ASSUME SchedulerInv PROVE TypeOK
    OBVIOUS
<1>1. scheduled \subseteq 1..systemCount
  <2>1. CASE pc \in {"place", "walk"}
    <3>1. scheduled = {order[k] : k \in DOMAIN order} /\ order \in Seq(1..systemCount)
      BY <2>1 DEF SchedulerInv, PlaceInv, OrderInv
    <3>2. DOMAIN order = 1..Len(order)
      BY <3>1, LenProperties
    <3>3. QED
      BY <3>1, <3>2, ElementOfSeq
  <2>2. CASE pc \notin {"place", "walk"}
    BY <2>2 DEF SchedulerInv, PhaseInv
  <2>3. QED
    BY <2>1, <2>2
<1>2. QED
  BY <1>1 DEF SchedulerInv, Registry, OrderInv, PhaseInv, TickInv, TypeOK

\* The walk visits unplaced systems only, and none twice.
LEMMA InvImpliesWalk == SchedulerInv => WalkStaysInside
<1> SUFFICES ASSUME SchedulerInv, pc = "walk"
             PROVE  cur \in Ids \ scheduled /\ Len(path) <= systemCount
    BY DEF WalkStaysInside
<1>1. /\ cur \in Ids \ scheduled /\ path \in Seq(Ids \ scheduled) /\ IsInjective(path)
      /\ systemCount = Len(systems) /\ Registry
  BY DEF SchedulerInv, WalkInv, PhaseInv
<1>2. systemCount \in Nat /\ Ids = 1..systemCount
  BY <1>1 DEF Registry, Ids
<1>3. Len(path) \in Nat /\ path \in [1..Len(path) -> 1..systemCount]
  BY <1>1, <1>2, LenProperties
<1>4. QED
  BY <1>1, <1>2, <1>3, UpTo, InjectiveIsShort

\* Two different orders differ at a least place, where the schedule is the lower.
LEMMA ScheduleIsLeast ==
    ASSUME SchedulerInv, status = "ok", NEW p \in Topological(systemCount)
    PROVE  LexLeq(order, p)
<1> DEFINE n == systemCount
           T == {k \in 1..n : p[k] # order[k]}
<1>1. /\ n \in Nat /\ order \in [1..n -> 1..n] /\ DOMAIN order = 1..n /\ Stable
  <2>1. order \in Seq(1..n) /\ Len(order) = n /\ Stable
    BY DEF SchedulerInv, OrderInv, OutcomeInv
  <2>2. QED
    BY <2>1, LenProperties
<1>2. p \in [1..n -> 1..n]
  BY DEF Topological
<1>3. CASE T = {}
  <2>1. \A k \in 1..n : p[k] = order[k]
    BY <1>3
  <2> HIDE DEF n, T
  <2>2. p = order
    BY <1>1, <1>2, <2>1
  <2>3. QED
    BY <2>2 DEF LexLeq
<1>4. CASE T # {}
  <2>1. PICK k \in T : \A l \in T : k <= l
    <3>1. T \in SUBSET Nat
      OBVIOUS
    <3> HIDE DEF T
    <3>2. QED
      BY <1>4, <3>1, LeastExists
  <2> HIDE DEF n
  <2>2. k \in 1..n /\ p[k] # order[k]
    BY <2>1
  <2>3. ASSUME NEW l \in 1..(k - 1) PROVE p[l] = order[l]
    <3>1. l \in 1..n /\ ~(k <= l)
      BY <1>1, <2>2
    <3>2. QED
      BY <2>1, <3>1
  <2>4. order[k] <= p[k]
    BY <1>1, <2>2, <2>3 DEF Stable, n
  <2>5. order[k] \in 1..n /\ p[k] \in 1..n
    BY <1>1, <1>2, <2>2
  <2>6. order[k] < p[k]
    BY <1>1, <2>2, <2>4, <2>5
  <2>7. QED
    BY <1>1, <2>2, <2>3, <2>6 DEF LexLeq
<1>5. QED
  BY <1>3, <1>4

\* Of the systems on a cycle one would have to come first.
LEMMA CycleLeavesNoOrder ==
    ASSUME SchedulerInv, status = "dependency_cycle"
    PROVE  Topological(systemCount) = {}
<1> DEFINE n == systemCount
           L == Len(cycle)
<1> SUFFICES ASSUME NEW p \in Topological(n) PROVE FALSE
    OBVIOUS
<1>1. /\ n \in Nat /\ cycle \in Seq(1..n) /\ cycle # <<>>
      /\ \A k \in DOMAIN cycle : MustFollow(cycle[k], cycle[(k % L) + 1])
  BY DEF SchedulerInv, OrderInv, OutcomeInv, CycleIsReal
<1>2. /\ p \in [1..n -> 1..n] /\ IsInjective(p)
      /\ \A k, l \in 1..n : MustFollow(p[k], p[l]) => l < k
  BY DEF Topological
<1>3. DOMAIN cycle = 1..L /\ L \in Nat \ {0}
  BY <1>1, LenProperties, EmptySeq
<1>4. \A k \in 1..L : cycle[k] \in 1..n
  BY <1>1, ElementOfSeq
<1> HIDE DEF n, L
<1> DEFINE T == {a \in 1..n : \E k \in 1..L : p[a] = cycle[k]}
<1>5. T # {}
  <2>1. 1 \in 1..L
    BY <1>3
  <2>2. PICK a \in 1..n : p[a] = cycle[1]
    BY <1>1, <1>2, <1>4, <2>1, InjectiveIsOnto
  <2>3. QED
    BY <2>1, <2>2
<1>6. PICK a \in T : \A b \in T : a <= b
  <2>1. T \in SUBSET Nat
    OBVIOUS
  <2>2. QED
    BY <1>5, <2>1, LeastExists
<1>7. PICK k \in 1..L : p[a] = cycle[k]
  BY <1>6
<1>8. (k % L) + 1 \in 1..L
  BY <1>3, <1>7, NextPlace
<1>9. PICK b \in 1..n : p[b] = cycle[(k % L) + 1]
  BY <1>1, <1>2, <1>4, <1>8, InjectiveIsOnto
<1>10. b < a
  BY <1>1, <1>2, <1>3, <1>6, <1>7, <1>9
<1>11. b \in T /\ a \in 1..n
  BY <1>6, <1>8, <1>9
<1>12. QED
  BY <1>6, <1>10, <1>11

LEMMA InvImpliesStableSort == SchedulerInv => OrderIsStableSort
<1> SUFFICES ASSUME SchedulerInv PROVE OrderIsStableSort
    OBVIOUS
<1>1. ASSUME status = "ok" PROVE order \in Topological(systemCount)
  <2> DEFINE n == systemCount
  <2>1. /\ n \in Nat /\ order \in Seq(1..n) /\ Len(order) = n /\ IsInjective(order) /\ Respects
    BY <1>1 DEF SchedulerInv, OrderInv, OutcomeInv
  <2>2. order \in [1..n -> 1..n] /\ DOMAIN order = 1..n
    BY <2>1, LenProperties
  <2>3. ASSUME NEW k \in 1..n, NEW l \in 1..n, MustFollow(order[k], order[l]) PROVE l < k
    <3>1. order[l] \in 1..systemCount
      BY <2>2
    <3>2. PICK i \in 1..(k - 1) : order[i] = order[l]
      BY <2>1, <2>2, <2>3, <3>1 DEF Respects
    <3>3. i \in 1..n /\ i < k
      BY <2>1
    <3>4. i = l
      BY <2>1, <2>2, <3>2, <3>3 DEF IsInjective
    <3>5. QED
      BY <3>3, <3>4
  <2>4. QED
    BY <2>1, <2>2, <2>3 DEF Topological
<1>2. QED
  BY <1>1, ScheduleIsLeast, CycleLeavesNoOrder DEF OrderIsStableSort

LEMMA InvImpliesTick == SchedulerInv => TickReadsWhatItWrote
<1> SUFFICES ASSUME SchedulerInv PROVE TickReadsWhatItWrote
    OBVIOUS
<1> DEFINE n == systemCount
<1>1. /\ n \in Nat /\ order \in Seq(1..n) /\ IsInjective(order) /\ n \in 0..Len(systems)
      /\ ran \in Seq(1..n) /\ Len(ran) <= Len(order) /\ \A k \in DOMAIN ran : ran[k] = order[k]
      /\ Registry
  BY DEF SchedulerInv, OrderInv, TickInv
<1>2. /\ DOMAIN ran = 1..Len(ran) /\ Len(ran) \in Nat
      /\ DOMAIN order = 1..Len(order) /\ Len(order) \in Nat
  BY <1>1, LenProperties
<1>3. \A k \in DOMAIN ran : k \in DOMAIN order /\ order[k] \in 1..n
  <2>1. \A k \in DOMAIN ran : k \in 1..Len(order)
    BY <1>1, <1>2
  <2>2. QED
    BY <1>1, <1>2, <2>1, ElementOfSeq
<1>4. ASSUME NEW k \in DOMAIN ran PROVE status = "ok"
  BY <1>4 DEF SchedulerInv, PhaseInv
<1>5. OneWriterPerTick
  <2> SUFFICES ASSUME NEW k \in DOMAIN ran, NEW l \in DOMAIN ran,
                      systems[ran[k]].writes \cap systems[ran[l]].writes # {}
               PROVE  k = l
      BY DEF OneWriterPerTick
  <2>1. ran[k] = order[k] /\ ran[l] = order[l]
    BY <1>1
  <2>2. order[k] = order[l]
    BY <1>3, <1>4, <2>1 DEF SchedulerInv, OutcomeInv
  <2>3. QED
    BY <1>1, <1>3, <2>2 DEF IsInjective
<1>6. ReadsAreFreshOrWarned
  <2> SUFFICES ASSUME NEW k \in DOMAIN ran, NEW c \in systems[ran[k]].reads, NEW w \in 1..n,
                      c \in systems[w].writes, <<c, ran[k], w>> \notin warnings
               PROVE  \E l \in 1..k : ran[l] = w
      BY DEF ReadsAreFreshOrWarned
  <2>1. /\ status = "ok" /\ ran[k] = order[k] /\ k \in DOMAIN order /\ order[k] \in 1..n
        /\ Len(order) = n
    BY <1>1, <1>3, <1>4 DEF SchedulerInv, OutcomeInv
  <2>2. order \in [1..n -> 1..n]
    BY <1>1, <2>1, LenProperties
  <2> HIDE DEF n
  <2>3. PICK l \in 1..n : order[l] = w
    BY <1>1, <2>2, InjectiveIsOnto
  <2>4. CASE l <= k
    <3>1. l \in 1..k /\ l \in DOMAIN ran
      BY <1>1, <1>2, <2>3, <2>4
    <3>2. QED
      BY <1>1, <2>3, <3>1
  <2>5. CASE ~(l <= k)
    <3>1. k \in Nat /\ l \in Nat /\ k < l /\ l \in DOMAIN order
      BY <1>1, <1>2, <2>1, <2>3, <2>5
    <3>2. ran[k] # w
      <4>1. order[k] = order[l] => k = l
        BY <1>1, <2>1, <3>1 DEF IsInjective
      <4>2. QED
        BY <2>1, <2>3, <3>1, <4>1
    <3>3. Before(ran[k], w)
      BY <2>1, <2>3, <3>1 DEF Before
    <3>4. c \in Components
      <4>1. ran[k] \in Ids
        BY <1>1, <2>1 DEF Ids, n
      <4>2. QED
        BY <1>1, <4>1, SystemTypes
    <3>5. <<c, ran[k], w>> \in warnings
      BY <2>1, <3>2, <3>3, <3>4 DEF SchedulerInv, OutcomeInv, n
    <3>6. QED
      BY <3>5
  <2>6. QED
    BY <2>4, <2>5
<1>7. QED
  BY <1>5, <1>6 DEF TickReadsWhatItWrote

-----------------------------------------------------------------------------
(* Theorems *)

\* scheduleSystems: the schedule is the lexicographically least order that respects the
\* declared dependencies; a cycle that is reported is one, and no order exists beside it;
\* the search for a cycle stays among the systems that are left and in its array.
THEOREM ScheduleIsStable == Spec => []ScheduleIsTheStableSort
<1>1. SchedulerInv => ScheduleIsTheStableSort
  BY InvImpliesTypeOK, InvImpliesStableSort, InvImpliesWalk
     DEF ScheduleIsTheStableSort, SchedulerInv, OutcomeInv, CycleIsReal
<1>2. QED
  BY <1>1, InvHolds, PTL

\* runSystems: in a tick at most one system writes a component, and a system reads what
\* this tick's writer wrote unless scheduling warned of that very read.
THEOREM TicksReadFresh == Spec => []TickReadsWhatItWrote
  BY InvHolds, InvImpliesTick, PTL
=============================================================================
