------------------------------ MODULE GameLoop ------------------------------
(***************************************************************************)
(* laige::GameLoop (laige-sim/game_loop.cpp): the fixed-tick loop, with the *)
(* system phase of each tick (World::runSystems, systems.cpp) and the       *)
(* component-churn guardrail whose window World::beginFrame opens           *)
(* (guardrails.cpp).                                                        *)
(*                                                                          *)
(* frame() derives from one clock reading how many ticks should have        *)
(* completed, runs the missing ones up to MaxCatchUp, and counts the rest   *)
(* as dropped.  It is one call, but its systems run user code between its   *)
(* steps: they change components and may register further systems, so the   *)
(* frame is modelled tick by tick and the tick system by system.            *)
(*                                                                          *)
(* Time is in clock units, NsPerSecond of them to a second.  Release-build  *)
(* behaviour: a backward clock is clamped, not asserted.  The stat frames_  *)
(* only counts calls and is left out.                                       *)
(***************************************************************************)
EXTENDS Integers

CONSTANTS
    NsPerSecond,   \* kNanosecondsPerSecond
    TickRate,      \* Options::tickRateHz
    MaxCatchUp,    \* Options::maxCatchUpTicks
    ChurnBudget,   \* World::Options::churnPerFrameBudget, 0 disables
    MaxSystems,    \* kMaxSystems
    MaxTime,       \* bound: clock readings explored
    MaxOps         \* bound: component adds and removes by one system run

ASSUME ClockAssumption == NsPerSecond \in Nat \ {0} /\ MaxTime \in Nat
ASSUME OptionsAssumption ==
    /\ TickRate \in Nat \ {0}
    /\ MaxCatchUp \in Nat \ {0}
    /\ ChurnBudget \in Nat
ASSUME SystemsAssumption == MaxSystems \in Nat \ {0} /\ MaxOps \in Nat

Times == 0..MaxTime
SystemIds == 1..MaxSystems

VARIABLES
    now,           \* what the clock source would return
    valid,         \* valid_: FALSE once the loop was moved from
    started, startNs, ticks, droppedTicks, droppedFrames,
    \* the running frame() and, inside it, the running tick
    pc,            \* "idle", "tick" (between ticks) or "systems" (inside one)
    due,           \* the ticks that should have completed by now
    want,          \* due - ticks_ when the frame began
    left,          \* ticks of toRun still to run
    count, place,  \* runSystems: its system count, and the next place
    \* the world
    systemCount, scheduledCount,
    frameChurn, churnWarned, churnWarns,
    \* history
    latest,        \* the highest elapsed time a frame has seen
    runs,          \* per system, its completed runs
    since,         \* per system, the ticks that began before it registered
    frameOps,      \* component operations since the frame began
    warnsBefore,   \* churnWarns_ when the frame began
    dropAt         \* the latest elapsed time when a frame last dropped

loopVars == <<valid, started, startNs, ticks, droppedTicks, droppedFrames>>
frameVars == <<pc, due, want, left, count, place>>
worldVars == <<systemCount, scheduledCount, frameChurn, churnWarned, churnWarns>>
historyVars == <<latest, runs, since, frameOps, warnsBefore, dropAt>>
vars == <<now, loopVars, frameVars, worldVars, historyVars>>

\* ticksDue: whole seconds and remainder apart, so that the product of a long
\* run's nanoseconds and the tick rate never overflows.
TicksDue(elapsed) ==
    (elapsed \div NsPerSecond) * TickRate
        + ((elapsed % NsPerSecond) * TickRate) \div NsPerSecond

Init ==
    /\ now \in Times
    /\ valid = TRUE
    /\ started = FALSE
    /\ startNs = 0
    /\ ticks = 0
    /\ droppedTicks = 0
    /\ droppedFrames = 0
    /\ pc = "idle"
    /\ due = 0
    /\ want = 0
    /\ left = 0
    /\ count = 0
    /\ place = 1
    /\ systemCount = 1
    /\ scheduledCount = 1
    /\ frameChurn = 0
    /\ churnWarned = FALSE
    /\ churnWarns = 0
    /\ latest = 0
    /\ runs = [s \in SystemIds |-> 0]
    /\ since = [s \in SystemIds |-> 0]
    /\ frameOps = 0
    /\ warnsBefore = 0
    /\ dropAt = 0

-----------------------------------------------------------------------------
(* The loop's surroundings *)

\* The clock source, read once per frame: steady, or a misbehaving one that
\* steps back.
ClockMoves ==
    /\ pc = "idle"
    /\ now' \in Times
    /\ UNCHANGED <<loopVars, frameVars, worldVars, historyVars>>

\* registerSystem between frames: the loop's schedule is now stale.
RegisterSystem ==
    /\ pc = "idle"
    /\ systemCount < MaxSystems
    /\ systemCount' = systemCount + 1
    /\ since' = [since EXCEPT ![systemCount + 1] = ticks]
    /\ UNCHANGED <<now, loopVars, frameVars, scheduledCount, frameChurn,
                   churnWarned, churnWarns,
                   latest, runs, frameOps, warnsBefore, dropAt>>

\* scheduleSystems into the schedule the loop refers to.
Reschedule ==
    /\ pc = "idle"
    /\ scheduledCount # systemCount
    /\ scheduledCount' = systemCount
    /\ UNCHANGED <<now, loopVars, frameVars, systemCount, frameChurn,
                   churnWarned, churnWarns, historyVars>>

\* The loop is moved from.  The target takes over every field; what stays
\* behind is stopped.
MoveFrom ==
    /\ pc = "idle"
    /\ valid
    /\ valid' = FALSE
    /\ UNCHANGED <<now, started, startNs, ticks, droppedTicks, droppedFrames,
                   frameVars, worldVars, historyVars>>

-----------------------------------------------------------------------------
(* frame() *)

Higher(m, n) == IF m < n THEN n ELSE m
Lower(m, n) == IF m < n THEN m ELSE n

\* The first call takes the start reference and returns.
FirstFrame ==
    /\ pc = "idle"
    /\ valid
    /\ ~started
    /\ started' = TRUE
    /\ startNs' = now
    /\ UNCHANGED <<now, valid, ticks, droppedTicks, droppedFrames,
                   frameVars, worldVars, historyVars>>

\* Faulty variants: the limit forgotten, or used as the count.
TicksToRunUnbounded(w) == w
TicksToRunFixed(w) == MaxCatchUp

\* toRun, and what is dropped when the demand w exceeds the limit.
TicksToRun(w) == Lower(w, MaxCatchUp)
TicksToDrop(w) == w - MaxCatchUp

\* A later call: no time passed (or the reading is clamped to the start), or
\* no tick is due, and the call returns; else the demand is split.
Elapsed == Higher(now, startNs) - startNs
\* Faulty variant: dropped ticks taken for completed ones.
NothingDueCountingDrops == TicksDue(Elapsed) <= ticks + droppedTicks
NothingDue == TicksDue(Elapsed) <= ticks

Frame ==
    /\ pc = "idle"
    /\ valid
    /\ started
    /\ Elapsed # 0
    /\ latest' = Higher(latest, Elapsed)
    /\ frameOps' = 0
    /\ warnsBefore' = churnWarns
    /\ IF NothingDue
         THEN UNCHANGED <<pc, due, want, left>>
         ELSE /\ due' = TicksDue(Elapsed)
              /\ want' = TicksDue(Elapsed) - ticks
              /\ left' = TicksToRun(TicksDue(Elapsed) - ticks)
              /\ pc' = "tick"
    /\ UNCHANGED <<now, loopVars, count, place, worldVars,
                   runs, since, dropAt>>

FrameReturns ==
    /\ pc' = "idle"
    /\ due' = 0
    /\ want' = 0
    /\ left' = 0

\* Faulty variant: the schedule trusted.
ScheduleTrusted == FALSE
ScheduleStale == scheduledCount # systemCount

\* runTick: open the guardrail window, then runSystems, which rejects a stale
\* schedule before it runs anything; the frame returns the error.
BeginTick ==
    /\ pc = "tick"
    /\ left > 0
    /\ frameChurn' = 0
    /\ churnWarned' = FALSE
    /\ IF ScheduleStale
         THEN /\ FrameReturns
              /\ UNCHANGED <<count, place>>
         ELSE /\ pc' = "systems"
              /\ count' = scheduledCount
              /\ place' = 1
              /\ UNCHANGED <<due, want, left>>
    /\ UNCHANGED <<now, loopVars, systemCount, scheduledCount, churnWarns,
                   historyVars>>

\* The system at the next place runs: it adds and removes components, each
\* one counted and checked against the budget, and may register a system.
RunSystem(ops) ==
    /\ pc = "systems"
    /\ place <= count
    /\ place' = place + 1
    /\ runs' = [runs EXCEPT ![place] = @ + 1]
    /\ frameChurn' = frameChurn + ops
    /\ LET warns == /\ ChurnBudget # 0
                    /\ ~churnWarned
                    /\ frameChurn + ops > ChurnBudget
       IN  /\ churnWarned' = (churnWarned \/ warns)
           /\ churnWarns' = IF warns THEN churnWarns + 1 ELSE churnWarns
    /\ frameOps' = frameOps + ops
    /\ \/ UNCHANGED <<systemCount, since>>
       \/ /\ systemCount < MaxSystems
          /\ systemCount' = systemCount + 1
          /\ since' = [since EXCEPT ![systemCount + 1] = ticks + 1]
    /\ UNCHANGED <<now, loopVars, pc, due, want, left, count, scheduledCount,
                   latest, warnsBefore, dropAt>>

PhaseDone == place > count

\* The system phase completed: the tick counts, and onTick fires.
CompleteTick ==
    /\ pc = "systems"
    /\ PhaseDone
    /\ ticks' = ticks + 1
    /\ left' = left - 1
    /\ pc' = "tick"
    /\ UNCHANGED <<now, valid, started, startNs, droppedTicks, droppedFrames,
                   due, want, count, place, worldVars,
                   latest, runs, since, frameOps, warnsBefore, dropAt>>

\* The frame's ticks all completed: what exceeds the limit is dropped.
EndFrame ==
    /\ pc = "tick"
    /\ left = 0
    /\ IF want > MaxCatchUp
         THEN /\ droppedTicks' = droppedTicks + TicksToDrop(want)
              /\ droppedFrames' = droppedFrames + 1
              /\ dropAt' = latest
         ELSE UNCHANGED <<droppedTicks, droppedFrames, dropAt>>
    /\ FrameReturns
    /\ UNCHANGED <<now, valid, started, startNs, ticks, count, place, worldVars,
                   latest, runs, since, frameOps, warnsBefore>>

LoopStep == FirstFrame \/ Frame \/ BeginTick \/ CompleteTick \/ EndFrame
                \/ \E ops \in 0..MaxOps : RunSystem(ops)

Next == ClockMoves \/ RegisterSystem \/ Reschedule \/ MoveFrom \/ LoopStep

SafetySpec == Init /\ [][Next]_vars

\* The driver calls frame() again and again, as Engine::run_headless does.
Spec == SafetySpec /\ WF_vars(LoopStep)

-----------------------------------------------------------------------------
(* Properties *)

TypeOK ==
    /\ now \in Times
    /\ valid \in BOOLEAN
    /\ started \in BOOLEAN
    /\ startNs \in Times
    /\ ticks \in Nat
    /\ droppedTicks \in Nat
    /\ droppedFrames \in Nat
    /\ pc \in {"idle", "tick", "systems"}
    /\ due \in Nat
    /\ want \in Nat
    /\ left \in 0..MaxCatchUp
    /\ count \in 0..MaxSystems
    /\ place \in 1..(MaxSystems + 1)
    /\ systemCount \in SystemIds
    /\ scheduledCount \in 1..systemCount
    /\ frameChurn \in Nat
    /\ churnWarned \in BOOLEAN
    /\ churnWarns \in Nat
    /\ latest \in Times
    /\ runs \in [SystemIds -> Nat]
    /\ since \in [SystemIds -> Nat]
    /\ frameOps \in Nat
    /\ warnsBefore \in Nat
    /\ dropAt \in Times

\* Simulated time never runs ahead of the clock, through catch-up, failed
\* frames and a clock that steps back: the ticks completed and those the
\* running frame still means to run were all due at some reading.
NeverAheadOfClock == ticks + left <= TicksDue(latest)

\* A frame's books balance at every point of it: at most MaxCatchUp ticks run
\* in it, and those completed, those to come and those it will count as
\* dropped add up to what was due when it read the clock.
FrameAccounting ==
    pc # "idle" =>
        /\ ticks - (due - want) <= MaxCatchUp
        /\ ticks + left + Higher(0, want - MaxCatchUp) = due

\* What a frame adds to droppedTicks is exactly what it leaves undone of the
\* ticks due when it read the clock.
DropIsTheShortfall ==
    [][droppedTicks' # droppedTicks =>
          droppedTicks' - droppedTicks = due - ticks]_vars

\* The systems advance in lock step with the tick count: every registered
\* system has run exactly once in each completed tick that began after its
\* registration, and in the running tick once more if its place has come.
\* So a stale schedule completes no tick, not even for the others.
SystemsInLockStep ==
    \A s \in 1..systemCount :
        runs[s] = Higher(0, ticks - since[s])
                  + (IF pc = "systems" /\ s <= count /\ s < place
                     THEN 1 ELSE 0)

\* Nothing is lost for good: once the clock rests, the schedule is current
\* and frame() keeps being called, the tick count reaches the clock, dropped
\* ticks included.
CatchesUp ==
    \A t \in Times :
        <>[](now = t /\ valid /\ scheduledCount = systemCount)
            => <>[](started /\ ticks >= TicksDue(Higher(t, startNs) - startNs))

\* A claim the code does not keep.
\* The header's overload section: a dropped tick is a lost simulation step;
\* after a drop the unrun demand is only what became due since.
DropsForgetDemand ==
    pc = "tick" => want <= TicksDue(latest) - TicksDue(dropAt)

\* A claim the code does not keep.
\* The header's guardrail section: all ticks of a catch-up frame count against
\* one churn budget, so a frame over the budget is warned about.
ChurnWindowIsTheFrame ==
    (pc = "tick" /\ left = 0 /\ ChurnBudget # 0 /\ frameOps > ChurnBudget)
        => churnWarns > warnsBefore
=============================================================================
