---------------------------- MODULE MCSimulation ----------------------------
(***************************************************************************)
(* The game loop frame by frame, and the engine's life around it: a          *)
(* behaviour is one or the other, each under its own fairness.  Their        *)
(* properties are in their modules.                                          *)
(***************************************************************************)
EXTENDS GameLoop, Engine

VARIABLE part  \* "loop" or "engine"

simulationVars == <<part, vars, engineVars>>

SimulationInit ==
    /\ part \in {"loop", "engine"}
    /\ Init /\ (part = "engine" => now = 0)
    /\ EngineInit
SimulationNext ==
    \/ part = "loop" /\ Next /\ UNCHANGED <<part, engineVars>>
    \/ part = "engine" /\ EngineNext /\ UNCHANGED <<part, vars>>

\* The driver of the loop calls frame() again and again; the engine's thread keeps
\* running, and some frame after the sleep finds its tick due.
SimulationSpec ==
    /\ SimulationInit /\ [][SimulationNext]_simulationVars
    /\ WF_simulationVars(part = "loop" /\ LoopStep /\ UNCHANGED <<part, engineVars>>)
    /\ WF_simulationVars(part = "engine" /\ EngineStep /\ UNCHANGED <<part, vars>>)
    /\ SF_simulationVars(part = "engine" /\ TickIsDue /\ UNCHANGED <<part, vars>>)

-----------------------------------------------------------------------------
(* Properties *)

\* Once the clock rests and frame() keeps being called, the tick count reaches the
\* clock, ticks that were dropped included (game_loop.cpp, frame).
LoopCatchesUp == part = "loop" => CatchesUp
=============================================================================
