------------------------------ MODULE Particles ------------------------------
(***************************************************************************)
(* laige::ParticleSystem (particles.h): a fixed pool whose live particles   *)
(* are its first slots, a death moving the last one into the dead slot.     *)
(*                                                                          *)
(* A particle is its remaining bookkeeping: when it was born (history), its *)
(* age and its life.  Positions, sizes and tints follow the age and are     *)
(* left out; a life drawn from the random stream is any of its range.       *)
(***************************************************************************)
EXTENDS Integers, FiniteSets, FiniteSetsExt, SequencesExt

CONSTANTS
    MaxParticles,  \* Options::maxParticles
    MaxEmitters,   \* Options::maxEmitters
    MaxLife,       \* the longest life an emitter of the instance gives
    MaxBurst,      \* bound: spawns by one burst, and continuous rates
    MaxSpawns,     \* bound: spawns asked for by bursts
    MaxUpdates     \* bound: updates

ASSUME ParticlesAssumption ==
    /\ MaxParticles \in Nat /\ MaxEmitters \in Nat
    /\ MaxLife \in Nat /\ MaxBurst \in Nat /\ MaxSpawns \in Nat /\ MaxUpdates \in Nat

VARIABLES
    particles, \* the live particles, in slot order
    emitters,  \* the registered definitions
    spawnedTotal, droppedTotal,
    droppedSinceUpdate, overflowWarned,
    particlesValid, \* FALSE: stopped, as moved from
    \* the running update(): the slot it is at (0 outside), and whether it is
    \* past the aging of the live particles
    at,
    \* history
    tick,      \* updates begun
    died       \* particles whose life ended
particlesVars == <<particles, emitters, spawnedTotal, droppedTotal, droppedSinceUpdate,
                   overflowWarned, particlesValid, at, tick, died>>

\* The definitions an emitter can be registered with: those that pass.
EmitterDefs ==
    {d \in [lifeMin : 1..MaxLife, lifeMax : 1..MaxLife, rate : 0..MaxBurst] :
        d.lifeMin <= d.lifeMax}

ParticlesInit ==
    /\ particles = <<>>
    /\ emitters = <<>>
    /\ spawnedTotal = 0
    /\ droppedTotal = 0
    /\ droppedSinceUpdate = 0
    /\ overflowWarned = FALSE
    /\ particlesValid = TRUE
    /\ at = 0
    /\ tick = 0
    /\ died = 0

Fewer(m, n) == IF m < n THEN m ELSE n

\* emitFrom: spawnOne count times.  A full pool drops the spawn before it
\* draws, and a drop reports at most once until the next update.
Emit(base, lives) ==
    LET room == MaxParticles - Len(base)
        born == Fewer(room, Len(lives))
    IN  /\ particles' = base \o [i \in 1..born |->
                       [born |-> tick, age |-> 0, life |-> lives[i]]]
        /\ spawnedTotal' = spawnedTotal + born
        /\ droppedTotal' = droppedTotal + Len(lives) - born

\* The lives an emitter may draw for n spawns.
Lives(emitter, n) == [1..n -> emitter.lifeMin..emitter.lifeMax]

-----------------------------------------------------------------------------
AddEmitter(def) ==
    /\ particlesValid /\ at = 0
    /\ Len(emitters) < MaxEmitters   \* else BudgetExhausted
    /\ emitters' = Append(emitters, def)
    /\ UNCHANGED <<particles, spawnedTotal, droppedTotal, droppedSinceUpdate,
                   overflowWarned, particlesValid, at, tick, died>>

\* burst(): spawn now, and report the first overflow since the last update.
Burst(id, n) ==
    /\ particlesValid /\ at = 0
    /\ spawnedTotal + droppedTotal + n <= MaxSpawns
    /\ \E lives \in Lives(emitters[id], n) : Emit(particles, lives)
    /\ droppedSinceUpdate' =
           droppedSinceUpdate + (droppedTotal' - droppedTotal)
    /\ overflowWarned' = (overflowWarned \/ droppedSinceUpdate' > 0)
    /\ UNCHANGED <<emitters, particlesValid, at, tick, died>>

UpdateBegin ==
    /\ particlesValid /\ at = 0
    /\ tick < MaxUpdates
    /\ tick' = tick + 1
    /\ at' = 1
    /\ UNCHANGED <<particles, emitters, spawnedTotal, droppedTotal,
                   droppedSinceUpdate, overflowWarned, particlesValid, died>>

\* Faulty variant: the slot is passed over after a death as after any other.
NextAtAlways(dead) == at + 1

\* A slot that received the last particle is looked at again.
NextAt(dead) == IF dead THEN at ELSE at + 1

\* One turn of update()'s loop over the live particles.
Age ==
    /\ at \in DOMAIN particles
    /\ LET aged == [particles EXCEPT ![at].age = @ + 1]
           dead == aged[at].age >= aged[at].life
       IN  /\ particles' = IF dead THEN Front([aged EXCEPT ![at] = Last(aged)])
                           ELSE aged
           /\ died' = IF dead THEN died + 1 ELSE died
           /\ at' = NextAt(dead)
    /\ UNCHANGED <<emitters, spawnedTotal, droppedTotal, droppedSinceUpdate,
                   overflowWarned, particlesValid, tick>>

\* The continuous spawns of all emitters, in registration order.
Continuous ==
    LET rates == [e \in DOMAIN emitters |-> emitters[e].rate] IN
    IF emitters = <<>> THEN {<<>>}
    ELSE {FlattenSeq(parts) : parts \in
             {f \in [DOMAIN emitters -> UNION {[1..n -> 1..MaxLife] : n \in 0..MaxBurst}] :
                 \A e \in DOMAIN emitters : f[e] \in Lives(emitters[e], rates[e])}}

\* update()'s end: emit, report if something was dropped since the last
\* update and nothing was reported, and open the next window.
UpdateEnd ==
    /\ at > Len(particles)
    /\ \E lives \in Continuous : Emit(particles, lives)
    /\ droppedSinceUpdate' = 0
    /\ overflowWarned' = FALSE
    /\ at' = 0
    /\ UNCHANGED <<emitters, particlesValid, tick, died>>

\* Moved from: the new owner goes on with everything, the old one is stopped.
MoveParticles ==
    /\ particlesValid /\ at = 0
    /\ particlesValid' = FALSE
    /\ particles' = <<>>
    /\ emitters' = <<>>
    /\ spawnedTotal' = 0
    /\ droppedTotal' = 0
    /\ droppedSinceUpdate' = 0
    /\ overflowWarned' = FALSE
    /\ died' = 0
    /\ UNCHANGED <<at, tick>>

ParticlesNext ==
    \/ \E def \in EmitterDefs : AddEmitter(def)
    \/ \E id \in DOMAIN emitters, n \in 1..MaxBurst : Burst(id, n)
    \/ UpdateBegin \/ Age \/ UpdateEnd
    \/ MoveParticles

ParticlesSpec == ParticlesInit /\ [][ParticlesNext]_particlesVars

-----------------------------------------------------------------------------
(* Properties *)

ParticleRecords == [born : 0..MaxUpdates, age : 0..MaxLife, life : 1..MaxLife]
FlagTypes == overflowWarned \in BOOLEAN /\ particlesValid \in BOOLEAN
SlotTypes ==
    /\ particles \in Seq(ParticleRecords) /\ Len(particles) <= MaxParticles
    /\ emitters \in Seq(EmitterDefs) /\ Len(emitters) <= MaxEmitters
    /\ spawnedTotal \in Nat /\ droppedTotal \in Nat /\ droppedSinceUpdate \in Nat /\ died \in Nat
    /\ tick \in 0..MaxUpdates /\ at \in 0..(Len(particles) + 1)
    /\ at # 0 => particlesValid
ParticlesTypeOK == SlotTypes /\ FlagTypes

\* Every particle is aged exactly once per update, wherever the swaps put it:
\* its age is the number of updates since it was born, and the live ones
\* have life left (fadeAlpha subtracts the age from the life).
AgedOncePerTick ==
    \A i \in DOMAIN particles :
        /\ particles[i].age = tick - particles[i].born
                           - (IF at # 0 /\ i >= at THEN 1 ELSE 0)
        /\ particles[i].age < particles[i].life

\* The books: every spawn is live or died, and none was dropped while there was
\* room; a window with drops is reported once it has any.
SpawnsAddUp ==
    particlesValid =>
        /\ spawnedTotal = Len(particles) + died
        /\ droppedTotal > 0 => spawnedTotal >= MaxParticles
DropsAreReported == particlesValid => (overflowWarned <=> droppedSinceUpdate > 0)
SpawnBooks == SpawnsAddUp /\ DropsAreReported

\* Each live particle was aged once per update since its birth, wherever the
\* swaps of the dead ones put it, and spawns and drops add up (particles.h).
ParticlesAgeOnce == ParticlesTypeOK /\ AgedOncePerTick /\ SpawnBooks
=============================================================================
