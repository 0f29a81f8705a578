----------------------------- MODULE MCServices -----------------------------
(***************************************************************************)
(* The services beside the simulation loop, each on a small instance: the   *)
(* presentation of a world, the logger, pools, particles, the allocation    *)
(* watch, the frame budget report and the configuration.  A behaviour is    *)
(* one of one service; they share no state in the code either.  The         *)
(* properties are in the services' modules.                                 *)
(***************************************************************************)
EXTENDS Presentation, AllocWatch, Pools, Particles, Config, Logger, FrameBudget, TLC

Num(n) == [kind |-> "number", value |-> <<n, "int">>]
Fraction(n) == [kind |-> "number", value |-> <<n, "fraction">>]
Infinite == [kind |-> "number", value |-> <<0, "inf">>]
Obj(members) == [kind |-> "object", value |-> members]
Str(s) == [kind |-> "string", value |-> s]
Arr(es) == [kind |-> "array", value |-> es]

TestDefaults ==
    [tick_rate_hz |-> Num(60), entity_budget |-> Num(0), churn_per_frame_budget |-> Num(256),
     seed |-> Num(0), enabled |-> [kind |-> "bool", value |-> TRUE], math |-> Str("fixed_point_16_16"),
     system_time_default_ms |-> Fraction(1), draw_calls_per_frame |-> Num(30),
     particles_per_frame |-> Num(4096), fov_degrees |-> Num(45), zoom |-> Num(1),
     follow_lerp_per_sec |-> Num(8), asset_roots |-> Arr(<<>>)]

\* Good files, files with one bad key behind a good one, and no file at all.
Version == <<"version", Num(1)>>
Camera(key, v) == <<"camera", Obj(<<<<key, v>>>>)>>
TestDocuments ==
    {[kind |-> "garbage"], [kind |-> "unreadable"], Arr(<<>>), Obj(<<Version>>), Obj(<<<<"seed", Num(1)>>>>),
     Obj(<<<<"seed", Num(1)>>, Version, Camera("zoom", Num(2))>>),
     Obj(<<Version, Camera("zoom", Num(2)), <<"sprites", Num(1)>>>>),
     Obj(<<Version, Camera("zoom", Num(0))>>),
     Obj(<<Version, <<"asset_roots", Arr(<<Str("a")>>)>>, Camera("fov_degrees", Fraction(180))>>),
     Obj(<<Version, <<"budgets", Obj(<<<<"draw_calls_per_frame", Num(5)>>>>)>>>>)}

TestBudgets == [a |-> 1, b |-> 0]
TestEntries ==
    [sim_tick_avg |-> [metric |-> "mean", target |-> 1],
     sim_tick_p99 |-> [metric |-> "p99", target |-> 2],
     sim_heap_allocs |-> [metric |-> "max", target |-> 0]]

TestOverrides == {[zoom |-> Num(3)], [seed |-> Num(9)], [zoom |-> Infinite]}

VARIABLE part  \* the service of this behaviour

servicesVars == <<part, allVars, loggerVars, poolsVars, particlesVars, watchVars, measuringVars, configVars>>

\* A service that is not run stays in one of its initial states.
ServicesInit ==
    /\ part \in {"presentation", "logger", "pools", "particles", "watch", "budget", "config"}
    /\ PresentationInit /\ LoggerInit /\ PoolsInit /\ ParticlesInit /\ WatchInit
    /\ MeasuringInit /\ ConfigInit
    /\ part # "presentation" => records = [s \in Slots |-> Unseen(CHOOSE v \in Values : TRUE)]
    /\ part # "budget" => profilers[1].enabled
    /\ part # "config" => file = [kind |-> "unreadable"]

ServicesNext ==
    \/ part = "presentation" /\ PresentationNext
       /\ UNCHANGED <<part, loggerVars, poolsVars, particlesVars, watchVars, measuringVars, configVars>>
    \/ part = "logger" /\ LoggerNext
       /\ UNCHANGED <<part, allVars, poolsVars, particlesVars, watchVars, measuringVars, configVars>>
    \/ part = "pools" /\ PoolsNext
       /\ UNCHANGED <<part, allVars, loggerVars, particlesVars, watchVars, measuringVars, configVars>>
    \/ part = "particles" /\ ParticlesNext
       /\ UNCHANGED <<part, allVars, loggerVars, poolsVars, watchVars, measuringVars, configVars>>
    \/ part = "watch" /\ WatchNext
       /\ UNCHANGED <<part, allVars, loggerVars, poolsVars, particlesVars, measuringVars, configVars>>
    \/ part = "budget" /\ MeasuringNext
       /\ UNCHANGED <<part, allVars, loggerVars, poolsVars, particlesVars, watchVars, configVars>>
    \/ part = "config" /\ ConfigNext
       /\ UNCHANGED <<part, allVars, loggerVars, poolsVars, particlesVars, watchVars, measuringVars>>
ServicesSpec == ServicesInit /\ [][ServicesNext]_servicesVars

\* The logger compares threads for equality only.
Symmetry == Permutations(LogThreads)

=============================================================================
