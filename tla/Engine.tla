------------------------------- MODULE Engine -------------------------------
(***************************************************************************)
(* laige::Engine (laige-sim/engine.cpp): an engine's life from create to    *)
(* the ordered shutdown, with the headless run that drives the game loop,   *)
(* and the replay recording and the profile report a caller may ask for.    *)
(*                                                                          *)
(* The engine is composed with its ReplayRecorder.  The game loop, modelled *)
(* in GameLoop, is seen here by what frame() does: it runs up to FrameBudget *)
(* ticks, calling the onTick hook after each, and fails when a system has   *)
(* made the schedule stale.  The world, the presentation snapshot and the   *)
(* profiler are seen by their lifetimes.                                    *)
(*                                                                          *)
(* One process makes one engine after another and may die at any step; the  *)
(* next process finds the files it left.  All engines record to one path.   *)
(* Debug build: in a release build startReplayRecording refuses.            *)
(***************************************************************************)
EXTENDS ReplayRecorder, FiniteSets

CONSTANTS
    FrameBudget,  \* run_headless's frameBudgetTicks
    Targets,      \* the maxTicks a run may be given, 0 for no end
    MaxTicks,     \* bound: ticks of a run
    MaxEngines    \* bound: engines made

ASSUME EngineAssumption ==
    /\ FrameBudget \in Nat \ {0} /\ Targets \subseteq Nat
    /\ MaxFrameData \in Nat /\ SizeLimits \subseteq Nat
    /\ MaxTicks \in Nat /\ MaxEngines \in Nat

VARIABLES
    enginePc,    \* where the engine's thread is
    live,        \* what the engine owns: "world", "loop", "snapshot", "profiler"
    replayFail,  \* replayFail_
    runStatus,   \* run_headless's runStatus, "none" outside a run
    target,      \* maxTicks
    tick,        \* the loop's completed ticks
    ticksLeft,   \* ticks the running frame() still has to run
    stale,       \* a system was registered after the run's schedule
    report,      \* profileReportPath_ and ..Finalized_: "no", "asked", "final"
    retired,     \* the Logger's retired_
    \* history
    made,        \* engines made
    events,      \* the events of this engine that reached the logger's sink
    recording,   \* this engine accepted a recording
    before,      \* the file at path when this engine was made
    failedAt     \* the tick whose record this engine's recorder failed to
                 \* write, 0 for none

lifeVars == <<enginePc, live, replayFail, runStatus, target, tick, ticksLeft, stale,
              report, retired>>
lifeHistory == <<made, events, recording, before, failedAt>>
engineVars == <<recorderVars, lifeVars, lifeHistory>>

\* A record reaches the sink unless the logger is retired.
Log(es) == events' = IF retired THEN events ELSE events \cup es

EngineInit ==
    /\ RecorderInit
    /\ enginePc = "none"
    /\ live = {}
    /\ replayFail = "ok"
    /\ runStatus = "none"
    /\ target = 0
    /\ tick = 0
    /\ ticksLeft = 0
    /\ stale = FALSE
    /\ report = "no"
    /\ retired = FALSE
    /\ made = 0
    /\ events = {}
    /\ recording = FALSE
    /\ before = <<>>
    /\ failedAt = 0

-----------------------------------------------------------------------------
(* Before the run *)

\* Engine::create.  The caller may initialise the logger again first.
Make ==
    /\ enginePc \in {"none", "shut"}
    /\ made < MaxEngines
    /\ made' = made + 1
    /\ enginePc' = "made"
    /\ live' = {"world", "profiler"}
    /\ replayFail' = "ok"
    /\ runStatus' = "none"
    /\ target' = 0
    /\ tick' = 0
    /\ ticksLeft' = 0
    /\ stale' = FALSE
    /\ report' = "no"
    /\ retired' \in {retired, FALSE}
    /\ events' = {}
    /\ recording' = FALSE
    /\ before' = final
    /\ failedAt' = 0
    /\ UNCHANGED recorderVars

\* User code runs before the run and, in a system, inside a tick.
InUserCode == enginePc \in {"made", "tick"}

StartReplayRecording ==
    /\ InUserCode
    /\ ~rec.made
    /\ \E limit \in SizeLimits :
         \/ Create(limit) /\ Log({"record_started"}) /\ recording' = TRUE
         \/ CreateFails(limit) /\ Log({"record_start_failed"}) /\ UNCHANGED recording
    /\ UNCHANGED <<lifeVars, made, before, failedAt>>

StartProfileReport ==
    /\ InUserCode
    /\ report = "no"
    /\ report' = "asked"
    /\ Log({"report_started"})
    /\ UNCHANGED <<recorderVars, enginePc, live, replayFail, runStatus, target, tick,
                   ticksLeft, stale, retired, made, recording, before, failedAt>>

\* A system registers another: the run's schedule is stale from the next
\* tick on.
RegisterLate ==
    /\ enginePc = "tick"
    /\ ~stale
    /\ stale' = TRUE
    /\ UNCHANGED <<recorderVars, enginePc, live, replayFail, runStatus, target, tick,
                   ticksLeft, report, retired, lifeHistory>>

-----------------------------------------------------------------------------
(* run_headless *)

Run ==
    /\ enginePc = "made"
    /\ target' \in Targets
    /\ enginePc' = "schedule"
    /\ runStatus' = "ok"
    /\ Log({"run_started"})
    /\ UNCHANGED <<recorderVars, live, replayFail, tick, ticksLeft, stale, report,
                   retired, made, recording, before, failedAt>>

\* The run ends with the status s.
EndRun(s) == runStatus' = s /\ enginePc' = "finish"

\* scheduleSystems or GameLoop::create fails.
SetUpFails ==
    /\ enginePc = "schedule"
    /\ EndRun("InvalidArgument")
    /\ UNCHANGED <<recorderVars, live, replayFail, target, tick, ticksLeft, stale,
                   report, retired, lifeHistory>>

\* The loop is made and its first frame runs no tick.
CreateLoop ==
    /\ enginePc = "schedule"
    /\ live' = live \cup {"loop"}
    /\ enginePc' = "snapshot"
    /\ UNCHANGED <<recorderVars, replayFail, runStatus, target, tick, ticksLeft,
                   stale, report, retired, lifeHistory>>

CreateSnapshot ==
    /\ enginePc = "snapshot"
    /\ \/ live' = live \cup {"snapshot"} /\ enginePc' = "frames" /\ UNCHANGED runStatus
       \/ EndRun("OutOfMemory") /\ UNCHANGED live
    /\ UNCHANGED <<recorderVars, replayFail, target, tick, ticksLeft, stale, report,
                   retired, lifeHistory>>

\* Faulty variant: the loop stops only at the very tick.
TargetHit == target # 0 /\ tick = target
TargetReached == target # 0 /\ tick >= target

\* frame() reads the clock and has n ticks to run.  The checks at the top of
\* the loop only repeat those of AfterFrame.
FrameBegin(n) ==
    /\ enginePc = "frames"
    /\ replayFail = "ok"
    /\ ~TargetReached
    /\ tick + n <= MaxTicks
    /\ ticksLeft' = n
    /\ enginePc' = "frame"
    /\ UNCHANGED <<recorderVars, live, replayFail, runStatus, target, tick,
                   stale, report, retired, lifeHistory>>

TickBegin ==
    /\ enginePc = "frame"
    /\ ticksLeft > 0
    /\ ~stale
    /\ enginePc' = "tick"
    /\ UNCHANGED <<recorderVars, live, replayFail, runStatus, target, tick, ticksLeft,
                   stale, report, retired, lifeHistory>>

\* The onTick hook: the recorder is given the tick unless it failed before.
OnTick(t) ==
    IF rec.made /\ replayFail = "ok"
    THEN /\ WriteFrame(t, <<>>)
         /\ replayFail' = rec'.error
         /\ IF rec'.error = "ok" THEN UNCHANGED <<events, failedAt>>
            ELSE Log({"record_failed"}) /\ failedAt' = t
    ELSE UNCHANGED <<recorderVars, replayFail, events, failedAt>>

TickEnd ==
    /\ enginePc = "tick"
    /\ enginePc' = "frame"
    /\ tick' = tick + 1
    /\ ticksLeft' = ticksLeft - 1
    /\ OnTick(tick + 1)
    /\ UNCHANGED <<live, runStatus, target, stale, report, retired,
                   made, recording, before>>

\* frame() fails at the first tick the stale schedule is asked for.
FrameFails ==
    /\ enginePc = "frame"
    /\ ticksLeft > 0
    /\ stale
    /\ ticksLeft' = 0
    /\ EndRun("InvalidArgument")
    /\ UNCHANGED <<recorderVars, live, replayFail, target, tick, stale, report,
                   retired, lifeHistory>>

\* Faulty variant: the recorder's failure is left to the top of the loop.
AfterFrameUnchecked ==
    /\ enginePc = "frame"
    /\ ticksLeft = 0
    /\ IF TargetReached THEN EndRun("ok") ELSE enginePc' = "frames" /\ UNCHANGED runStatus
    /\ UNCHANGED <<recorderVars, live, replayFail, target, tick, ticksLeft, stale,
                   report, retired, lifeHistory>>

\* frame() has returned: the run ends, or sleeps until the next tick is due.
AfterFrame ==
    /\ enginePc = "frame"
    /\ ticksLeft = 0
    /\ IF replayFail # "ok" \/ TargetReached THEN EndRun(replayFail)
       ELSE enginePc' = "frames" /\ UNCHANGED runStatus
    /\ UNCHANGED <<recorderVars, live, replayFail, target, tick, ticksLeft, stale,
                   report, retired, lifeHistory>>

MustFinish == rec.made /\ replayFail = "ok" /\ runStatus = "ok"

NothingToFinish ==
    /\ enginePc = "finish"
    /\ ~MustFinish
    /\ enginePc' = "report"
    /\ UNCHANGED <<recorderVars, live, replayFail, runStatus, target, tick, ticksLeft,
                   stale, report, retired, lifeHistory>>

Finish ==
    /\ \/ enginePc = "finish" /\ MustFinish /\ FinishBegin /\ enginePc' = "finishing"
       \/ enginePc = "finishing" /\ FinishStep /\ UNCHANGED enginePc
    /\ UNCHANGED <<live, replayFail, runStatus, target, tick, ticksLeft, stale,
                   report, retired, lifeHistory>>

\* finish() has returned.
Finished ==
    /\ enginePc = "finishing"
    /\ finish = "no"
    /\ runStatus' = rec.error
    /\ Log(IF rec.error = "ok" THEN {"record_finished"} ELSE {"record_failed"})
    /\ enginePc' = "report"
    /\ UNCHANGED <<recorderVars, live, replayFail, target, tick, ticksLeft, stale,
                   report, retired, made, recording, before, failedAt>>

\* The reports of the run's end.
Report ==
    /\ enginePc = "report"
    /\ IF report = "asked"
       THEN /\ report' = "final"
            /\ \E e \in {"report_written", "report_write_failed"} :
                 Log({e, "run_finished"})
       ELSE Log({"run_finished"}) /\ UNCHANGED report
    /\ enginePc' = "shut loop"
    /\ UNCHANGED <<recorderVars, live, replayFail, runStatus, target, tick, ticksLeft,
                   stale, retired, made, recording, before, failedAt>>

-----------------------------------------------------------------------------
(* shutdown, at the end of a run, by the caller before one, or from the     *)
(* destructor                                                               *)

ShutdownBeforeRun ==
    /\ enginePc = "made"
    /\ enginePc' = "shut loop"
    /\ UNCHANGED <<recorderVars, live, replayFail, runStatus, target, tick, ticksLeft,
                   stale, report, retired, lifeHistory>>

ShutLoop ==
    /\ enginePc = "shut loop"
    /\ live' = live \ {"loop"}
    /\ enginePc' = "shut recorder"
    /\ UNCHANGED <<recorderVars, replayFail, runStatus, target, tick, ticksLeft,
                   stale, report, retired, lifeHistory>>

ShutRecorder ==
    /\ enginePc = "shut recorder"
    /\ Log(IF rec.made /\ ~rec.finished THEN {"record_aborted"} ELSE {})
    /\ Destroy
    /\ replayFail' = "ok"
    /\ enginePc' = "shut world"
    /\ UNCHANGED <<live, runStatus, target, tick, ticksLeft, stale, report, retired,
                   made, recording, before, failedAt>>

ShutWorld ==
    /\ enginePc = "shut world"
    /\ live' = live \ {"snapshot", "world"}
    /\ enginePc' = "shut profiler"
    /\ UNCHANGED <<recorderVars, replayFail, runStatus, target, tick, ticksLeft,
                   stale, report, retired, lifeHistory>>

ShutProfiler ==
    /\ enginePc = "shut profiler"
    /\ Log(IF report = "asked" THEN {"report_aborted"} ELSE {})
    /\ report' = IF report = "asked" THEN "final" ELSE report
    /\ live' = live \ {"profiler"}
    /\ enginePc' = "shut logger"
    /\ UNCHANGED <<recorderVars, replayFail, runStatus, target, tick, ticksLeft,
                   stale, retired, made, recording, before, failedAt>>

ShutLogger ==
    /\ enginePc = "shut logger"
    /\ retired' = TRUE
    /\ enginePc' = "shut"
    /\ UNCHANGED <<recorderVars, live, replayFail, runStatus, target, tick, ticksLeft,
                   stale, report, lifeHistory>>

-----------------------------------------------------------------------------

\* The process dies; the files stay.
Crash ==
    /\ enginePc \notin {"none", "shut"}
    /\ Die
    /\ enginePc' = "none"
    /\ live' = {}
    /\ retired' = FALSE
    /\ UNCHANGED <<replayFail, runStatus, target, tick, ticksLeft, stale, report,
                   lifeHistory>>

TickIsDue == \E n \in 1..FrameBudget : FrameBegin(n)

\* What the thread inside run_headless or shutdown does by itself.
EngineStep ==
    \/ SetUpFails \/ CreateLoop \/ CreateSnapshot
    \/ TickIsDue \/ TickBegin \/ TickEnd \/ FrameFails \/ AfterFrame
    \/ NothingToFinish \/ Finish \/ Finished \/ Report
    \/ ShutLoop \/ ShutRecorder \/ ShutWorld \/ ShutProfiler \/ ShutLogger

EngineNext ==
    \/ Make \/ StartReplayRecording \/ StartProfileReport \/ RegisterLate
    \/ Run \/ ShutdownBeforeRun
    \/ FrameBegin(0)
    \/ EngineStep
    \/ Crash

\* The thread keeps running, and however often a frame finds no tick due,
\* some later one does: runFrames sleeps until the next due time, computed
\* from the tick count, and the clock is steady.
EngineFairness == WF_engineVars(EngineStep) /\ SF_engineVars(TickIsDue)

EngineSafety == EngineInit /\ [][EngineNext]_engineVars
EngineSpec == EngineSafety /\ EngineFairness

-----------------------------------------------------------------------------
(* Properties *)

Statuses == Errors \cup {"OutOfMemory"}

EngineTypeOK ==
    /\ rec.error \in Errors
    /\ rec.made /\ rec.open /\ finish \in {"no", "trailer"} => rec.bytes = Len(tmp)
    /\ rec.frames \in 0..MaxTicks
    /\ finish \in {"no", "trailer", "close", "rename"}
    /\ live \subseteq {"world", "loop", "snapshot", "profiler"}
    /\ replayFail \in Errors
    /\ runStatus \in Statuses \cup {"none"}
    /\ target \in Targets \cup {0}
    /\ tick \in 0..MaxTicks
    /\ ticksLeft \in 0..FrameBudget
    /\ stale \in BOOLEAN /\ retired \in BOOLEAN /\ recording \in BOOLEAN
    /\ report \in {"no", "asked", "final"}
    /\ made \in 0..MaxEngines
    /\ failedAt \in 0..MaxTicks

\* The file at the final path is a log the reader accepts, or there is none.
LogIsWhole == final # <<>> => Parse(final).ok

\* The units a damaged file may hold in place of another.
Noise == {Num(n) : n \in 0..3} \cup {<<"identity", 0>>}

\* The reader accepts no log that was cut short and none with one unit
\* changed, and nothing of what a process that dies before its recorder has
\* written the trailer may leave.
DamagedLogsRejected ==
    /\ enginePc = "shut" =>
         /\ \A n \in 0..(Len(final) - 1) : ~Parse(SubSeq(final, 1, n)).ok
         /\ \A i \in DOMAIN final : \A unit \in Noise \ {final[i]} :
              ~Parse([final EXCEPT ![i] = unit]).ok
    /\ rec.open /\ finish # "close" =>
         \A n \in 0..Len(tmp) : ~Parse(SubSeq(tmp, 1, n)).ok

\* No log grows past the size limit it was started with, trailer included.
SizeLimitHolds == rec.made => Len(tmp) <= rec.limit

\* Whatever process died at whatever step, the file at the final path is a
\* log the reader accepts, or there is none; the reader refuses what is cut
\* short or changed, and no log passes its size limit (replay.cpp, finish
\* and parseReplay).
FinalLogIsWhole == EngineTypeOK /\ LogIsWhole /\ DamagedLogsRejected /\ SizeLimitHolds

\* After a recorded run that returned ok the log of that run, one frame per
\* completed tick, is at the final path; otherwise what was there before.
StatusTellsFile ==
    enginePc = "shut" =>
        IF recording /\ runStatus = "ok"
        THEN Parse(final).ok /\ Len(Parse(final).frames) = tick
        ELSE final = before

\* An engine that recorded and was shut down has left no temporary file,
\* whether its run succeeded, failed or never began.
NoTemporaryLeft == enginePc = "shut" /\ recording => tmp = <<>>

\* A run stops less than one frame's ticks past its target, and past the
\* tick its recorder failed at.
BoundedOvershoot ==
    /\ target # 0 => tick < target + FrameBudget
    /\ failedAt # 0 => tick < failedAt + FrameBudget

\* Of every recording that was announced an engine that was shut down has
\* reported one outcome, and of every profile report it promised too; the
\* logger was still there to take them.
EveryRequestAnswered ==
    enginePc = "shut" =>
        /\ "record_started" \in events =>
             Cardinality({"record_finished", "record_aborted"} \cap events) = 1
        /\ "report_started" \in events =>
             Cardinality({"report_written", "report_write_failed",
                          "report_aborted"} \cap events) = 1

\* After the shutdown run_headless's status tells what is at the final path, no
\* temporary file is left, every recording and report that was announced has one
\* reported outcome, and the run did not pass its target by a frame (engine.cpp).
OutcomeMatchesFile ==
    StatusTellsFile /\ NoTemporaryLeft /\ EveryRequestAnswered /\ BoundedOvershoot

\* A run with a target returns, shut down, unless its process dies (engine.cpp,
\* run_headless).
RunReturns == (enginePc = "schedule" /\ target # 0) ~> enginePc \in {"shut", "none"}

\* replay.h on finish: after a rename failure the temporary file, with the
\* complete log in it, is left for inspection.
RenameFailureKeepsLog ==
    [][enginePc = "shut recorder" /\ rec.made /\ Parse(tmp).ok => tmp' = tmp]_engineVars
=============================================================================
