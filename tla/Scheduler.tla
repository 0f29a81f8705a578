----------------------------- MODULE Scheduler -----------------------------
(***************************************************************************)
(* The system registry and scheduler of laige::World (laige-sim/            *)
(* systems.cpp, entity.h): systems are registered one by one with the names *)
(* they must run after and the components they read and write;              *)
(* scheduleSystems computes the execution order of a tick (Kahn's           *)
(* algorithm, lowest id first) or the reason there is none; runSystems runs *)
(* a tick in that order.                                                    *)
(*                                                                          *)
(* scheduleSystems is one call of one thread.  It is modelled loop turn by  *)
(* loop turn, because what has to be right is what its loops keep.          *)
(*                                                                          *)
(* A name is a model value and a depends_on string the sequence of its      *)
(* tokens.  A rejected registration changes nothing and is no step.         *)
(***************************************************************************)
EXTENDS Integers, Sequences, FiniteSets, FiniteSetsExt, TLC

CONSTANTS
    Names,       \* registration names
    NoName,      \* what an empty token reads as
    Components,  \* component type ids
    MaxSystems,  \* kMaxSystems
    MaxDeps      \* kMaxSystemDependencies

ASSUME NamesAssumption == NoName \notin Names
ASSUME ComponentsAssumption == Components \subseteq Nat /\ IsFiniteSet(Components)
ASSUME BoundsAssumption == MaxSystems \in Nat /\ MaxDeps \in Nat

VARIABLES
    systems,     \* systems_, in id order
    \* the caller's SystemSchedule and the status it came with
    systemCount, order, status,
    warnings,    \* read_before_write events: <<component, reader, writer>>
    cycle,       \* the cycle of the dependency_cycle event
    \* the locals of scheduleSystems
    pc, depIds, pending, scheduled, path, cur,
    \* the running tick
    ran          \* the systems it has run, in order

scheduleVars == <<systemCount, order, status, warnings, cycle>>
localVars == <<pc, depIds, pending, scheduled, path, cur>>
vars == <<systems, scheduleVars, localVars, ran>>

Statuses == {"none", "ok", "dep_missing", "dependency_cycle", "double_writer"}

Ids == 1..Len(systems)

Specs == UNION {[1..n -> Names \cup {NoName}] : n \in 0..(MaxDeps + 1)}

\* parseDepSpec: no empty token, no token twice, at most MaxDeps of them.
DepSpecOk(spec) ==
    /\ \A d \in DOMAIN spec : spec[d] # NoName
    /\ IsInjective(spec)
    /\ Len(spec) <= MaxDeps

Init ==
    /\ systems = <<>>
    /\ systemCount = 0
    /\ order = <<>>
    /\ status = "none"
    /\ warnings = {}
    /\ cycle = <<>>
    /\ pc = "idle"
    /\ depIds = <<>>
    /\ pending = <<>>
    /\ scheduled = {}
    /\ path = <<>>
    /\ cur = 0
    /\ ran = <<>>

\* registerSystem, between ticks or by a system that is running.
RegisterSystem ==
    /\ pc \in {"idle", "running"}
    /\ Len(systems) < MaxSystems
    /\ \E name \in Names \ {systems[i].name : i \in Ids},
          spec \in {s \in Specs : DepSpecOk(s)},
          reads \in SUBSET Components :
         \E writes \in SUBSET (Components \ reads) :
            systems' = Append(systems, [name |-> name, dependsOn |-> spec,
                                        reads |-> reads, writes |-> writes])
    /\ UNCHANGED <<scheduleVars, localVars, ran>>

-----------------------------------------------------------------------------
(* scheduleSystems *)

\* The outcome s is returned and the locals are gone.
Returns(s) ==
    /\ status' = s
    /\ pc' = "idle"
    /\ depIds' = <<>>
    /\ pending' = <<>>
    /\ scheduled' = {}
    /\ path' = <<>>
    /\ cur' = 0

\* The result is reset before anything else.
BeginSchedule ==
    /\ pc = "idle"
    /\ systemCount' = Len(systems)
    /\ order' = <<>>
    /\ warnings' = {}
    /\ cycle' = <<>>
    /\ status' = "none"
    /\ pc' = "resolve"
    /\ UNCHANGED <<systems, depIds, pending, scheduled, path, cur, ran>>

Named(name) == {j \in Ids : systems[j].name = name}

ResolveMissing ==
    /\ pc = "resolve"
    /\ \E i \in Ids : \E d \in DOMAIN systems[i].dependsOn :
         Named(systems[i].dependsOn[d]) = {}
    /\ Returns("dep_missing")
    /\ UNCHANGED <<systems, systemCount, order, warnings, cycle, ran>>

\* Every name resolves to an id; each system waits for all of its own.
Resolve ==
    /\ pc = "resolve"
    /\ \A i \in Ids : \A d \in DOMAIN systems[i].dependsOn :
         Named(systems[i].dependsOn[d]) # {}
    /\ depIds' = [i \in Ids |-> [d \in DOMAIN systems[i].dependsOn |->
                                   Min(Named(systems[i].dependsOn[d]))]]
    /\ pending' = [i \in Ids |-> Len(systems[i].dependsOn)]
    /\ pc' = "place"
    /\ UNCHANGED <<systems, scheduleVars, scheduled, path, cur, ran>>

DependsOn(i, j) == \E d \in DOMAIN depIds[i] : depIds[i][d] = j

Ready == {i \in Ids \ scheduled : pending[i] = 0}

\* Faulty variant: the last ready system instead of the first.
PickedLast == Max(Ready)
Picked == Min(Ready)

\* Who waits for i, now placed, waits for one less.
AfterPlacing(i) ==
    [j \in Ids |-> IF j \notin scheduled \cup {i} /\ DependsOn(j, i)
                   THEN pending[j] - 1 ELSE pending[j]]

\* One turn of Kahn's loop: the lowest ready id is placed.
Place ==
    /\ pc = "place"
    /\ Ready # {}
    /\ order' = Append(order, Picked)
    /\ scheduled' = scheduled \cup {Picked}
    /\ pending' = AfterPlacing(Picked)
    /\ UNCHANGED <<systems, systemCount, status, warnings, cycle,
                   pc, depIds, path, cur, ran>>

\* Some systems are left and none is ready: find one cycle to report.
BeginWalk ==
    /\ pc = "place"
    /\ Ready = {}
    /\ Len(order) < systemCount
    /\ cur' = Min(Ids \ scheduled)
    /\ pc' = "walk"
    /\ UNCHANGED <<systems, scheduleVars, depIds, pending, scheduled, path, ran>>

\* The first dependency in i's spec that is not placed, 0 if all are.
FirstRemaining(i) ==
    LET left == {d \in DOMAIN depIds[i] : depIds[i][d] \notin scheduled}
    IN  IF left = {} THEN 0 ELSE depIds[i][Min(left)]

WalkOn ==
    /\ pc = "walk"
    /\ \A k \in DOMAIN path : path[k] # cur
    /\ path' = Append(path, cur)
    /\ cur' = FirstRemaining(cur)
    /\ UNCHANGED <<systems, scheduleVars, pc, depIds, pending, scheduled, ran>>

CycleFrom(k) == SubSeq(path, k, Len(path))

WalkClosed ==
    /\ pc = "walk"
    /\ \E k \in DOMAIN path : path[k] = cur /\ cycle' = CycleFrom(k)
    /\ Returns("dependency_cycle")
    /\ UNCHANGED <<systems, systemCount, order, warnings, ran>>

Writers(c) == {i \in Ids : c \in systems[i].writes}
Readers(c) == {i \in Ids : c \in systems[i].reads}

\* Faulty variant: only neighbours in id order compared.
DoubleWriterNext(c) == \E i \in Writers(c) : i + 1 \in Writers(c)
DoubleWriter(c) == \E i, j \in Writers(c) : i # j

Before(i, j) ==
    \E k, l \in DOMAIN order : order[k] = i /\ order[l] = j /\ k < l

ReadsTooEarly(r, w) == Before(r, w)

ValidateFails ==
    /\ pc = "place"
    /\ Len(order) = systemCount
    /\ \E c \in Components : DoubleWriter(c)
    /\ Returns("double_writer")
    /\ UNCHANGED <<systems, systemCount, order, warnings, cycle, ran>>

Validate ==
    /\ pc = "place"
    /\ Len(order) = systemCount
    /\ ~\E c \in Components : DoubleWriter(c)
    /\ warnings' = {x \in Components \X Ids \X Ids :
                      LET c == x[1]  r == x[2]  w == x[3] IN
                      /\ r # w
                      /\ r \in Readers(c)
                      /\ w \in Writers(c)
                      /\ ReadsTooEarly(r, w)}
    /\ Returns("ok")
    /\ UNCHANGED <<systems, systemCount, order, cycle, ran>>

-----------------------------------------------------------------------------
(* runSystems, by a caller that checked the schedule's status *)

Accepted ==
    /\ systemCount = Len(systems)
    /\ Len(order) = systemCount
    /\ \A k \in DOMAIN order : order[k] \in Ids
    /\ IsInjective(order)

BeginTick ==
    /\ pc = "idle"
    /\ status = "ok"
    /\ systemCount > 0
    /\ Accepted
    /\ ran' = <<>>
    /\ pc' = "running"
    /\ UNCHANGED <<systems, scheduleVars, depIds, pending, scheduled, path, cur>>

RunSystem ==
    /\ pc = "running"
    /\ Len(ran) < systemCount
    /\ ran' = Append(ran, order[Len(ran) + 1])
    /\ UNCHANGED <<systems, scheduleVars, localVars>>

EndTick ==
    /\ pc = "running"
    /\ Len(ran) = systemCount
    /\ pc' = "idle"
    /\ ran' = <<>>
    /\ UNCHANGED <<systems, scheduleVars, depIds, pending, scheduled, path, cur>>

Next ==
    \/ RegisterSystem
    \/ BeginSchedule
    \/ ResolveMissing \/ Resolve
    \/ Place
    \/ BeginWalk \/ WalkOn \/ WalkClosed
    \/ ValidateFails \/ Validate
    \/ BeginTick \/ RunSystem \/ EndTick

Spec == Init /\ [][Next]_vars

-----------------------------------------------------------------------------
(* Properties *)

TypeOK ==
    /\ systems \in Seq([name : Names, dependsOn : Seq(Names),
                        reads : SUBSET Components, writes : SUBSET Components])
    /\ Len(systems) <= MaxSystems
    /\ systemCount \in 0..Len(systems)
    /\ order \in Seq(1..systemCount)
    /\ status \in Statuses
    /\ pc \in {"idle", "resolve", "place", "walk", "running"}
    /\ scheduled \subseteq 1..systemCount
    /\ ran \in Seq(1..systemCount)

\* What the declarations ask for, without the scheduler: system i must run
\* after system j.
MustFollow(i, j) ==
    \E d \in DOMAIN systems[i].dependsOn : systems[i].dependsOn[d] = systems[j].name

\* The orders of 1..n that respect every dependency.
Topological(n) ==
    {p \in [1..n -> 1..n] :
       /\ IsInjective(p)
       /\ \A k, l \in 1..n : MustFollow(p[k], p[l]) => l < k}

\* p comes before q in the order of their first differing entries.
LexLeq(p, q) ==
    p = q \/ \E k \in DOMAIN p :
               p[k] < q[k] /\ \A l \in 1..(k - 1) : p[l] = q[l]

\* The stable topological sort: a schedule is the lexicographically least of
\* all orders that respect the dependencies, so registration order yields
\* nowhere more than a dependency makes it; and when scheduling reports a
\* cycle, no order exists at all.
OrderIsStableSort ==
    pc = "idle" =>
        /\ status = "ok" =>
             /\ order \in Topological(systemCount)
             /\ \A p \in Topological(systemCount) : LexLeq(order, p)
        /\ status = "dependency_cycle" => Topological(systemCount) = {}

\* The cycle named in the dependency_cycle event is one: each system listed
\* must follow the next, and the last the first.
CycleIsReal ==
    status = "dependency_cycle" =>
        /\ cycle # <<>>
        /\ IsInjective(cycle)
        /\ \A k \in DOMAIN cycle :
             MustFollow(cycle[k], cycle[(k % Len(cycle)) + 1])

\* The walk for a cycle never leaves the systems that are left: it always
\* finds a next one, and the fixed path array is long enough.
WalkStaysInside ==
    pc = "walk" => cur \in Ids \ scheduled /\ Len(path) <= systemCount

\* In a running tick at most one system writes a component, whatever was
\* registered after the schedule was computed.
OneWriterPerTick ==
    \A k, l \in DOMAIN ran :
        systems[ran[k]].writes \cap systems[ran[l]].writes # {} => k = l

\* A system that runs reads what this tick's writer wrote, unless scheduling
\* warned of that very reader, writer and component.
ReadsAreFreshOrWarned ==
    \A k \in DOMAIN ran :
        \A c \in systems[ran[k]].reads, w \in 1..systemCount :
            (c \in systems[w].writes /\ <<c, ran[k], w>> \notin warnings) =>
                \E l \in 1..k : ran[l] = w

\* A schedule is the stable topological sort, there is none only when the
\* cycle that is reported is one, and the search for it stays in its array
\* (systems.cpp, scheduleSystems).
ScheduleIsTheStableSort ==
    TypeOK /\ OrderIsStableSort /\ CycleIsReal /\ WalkStaysInside

\* In a tick at most one system writes a component, and a reader sees what
\* this tick's writer wrote unless that was warned of (systems.cpp,
\* runSystems).
TickReadsWhatItWrote == OneWriterPerTick /\ ReadsAreFreshOrWarned

\* Names are compared for equality only.
Symmetry == Permutations(Names)
=============================================================================
