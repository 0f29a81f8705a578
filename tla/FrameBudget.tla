----------------------------- MODULE FrameBudget -----------------------------
(***************************************************************************)
(* What a run measures and reports: the per-system windows and budget       *)
(* events (system_timing.cpp), the Profiler (profiler.cpp), the ring of     *)
(* per-frame records and the budget report built from them after the run    *)
(* (frame_budget.cpp, and the calls of engine.cpp that feed it).            *)
(*                                                                          *)
(* Times are small natural numbers.  All of it belongs to the run's thread. *)
(***************************************************************************)
EXTENDS Measurements, FiniteSets, FiniteSetsExt, Functions

CONSTANTS
    Budgets,       \* per system, the declared budget of a tick
    MeasuredTimes, \* the times a tick or a system can take
    Entries,       \* budgets.json: the entries by name
    FrameWindow,   \* kFrameBudgetWindow
    SystemWindow,  \* kSystemTimingWindowSamples
    TickWindow,    \* Options::tickWindowSamples
    LastNs,        \* the lastNFrames a report may ask for
    CriticalMultiplier, \* kBudgetCriticalMultiplier
    MaxRunFrames, MaxFrameTicks  \* bounds: frames of a run, ticks of a frame

Systems == DOMAIN Budgets

\* kSystemTimingWindowSamples is 64: with fewer than a hundred samples the 99th
\* percentile is the largest.
ASSUME FrameBudgetAssumption ==
    /\ IsFiniteSet(Systems) /\ Budgets \in [Systems -> Nat] /\ MeasuredTimes \subseteq Nat
    /\ FrameWindow \in Nat \ {0} /\ SystemWindow \in 1..99 /\ TickWindow \in Nat
    /\ LastNs \subseteq Nat /\ CriticalMultiplier \in Nat \ {0}
    /\ MaxRunFrames \in Nat /\ MaxFrameTicks \in Nat

NoReport == [frames |-> <<>>]

VARIABLES
    timing,    \* per system: window, runs, warns, errors
    profilers, \* two Profiler objects; the loop and the engine feed the first
    reserved,  \* archetypeStats().totalReservations
    ticks,     \* currentTick()
    ring,      \* FrameBudgetRecorder
    inFrame,   \* the frame in progress: the totals read before it, and its ticks
    report,    \* the last report built
    profiles,  \* the profile files on disk
    \* history
    frameLog,  \* per completed frame, what happened in it
    sampleLog  \* per system, every time measured
measuringVars == <<timing, profilers, reserved, ticks, ring, inFrame, report, profiles, frameLog, sampleLog>>

NewProfiler(enabled) ==
    [tick |-> NewHistogram(TickWindow), frame |-> NewHistogram(TickWindow),
     drawCalls |-> 0, gpuUs |-> 0, gpuFrames |-> 0, textureMemory |-> 0,
     enabled |-> enabled, active |-> TRUE]

NoRecord == [ticks |-> 0, tickAfter |-> 0, allocs |-> 0, warns |-> 0, errors |-> 0]
NewRing == [slots |-> [i \in 0..(FrameWindow - 1) |-> NoRecord], cursor |-> 0, count |-> 0, total |-> 0]
NotInFrame == [open |-> FALSE]

MeasuringInit ==
    /\ timing = [s \in Systems |-> [window |-> NewHistogram(SystemWindow), runs |-> 0,
                                    warns |-> 0, errors |-> 0]]
    /\ \E enabled \in BOOLEAN : profilers = [o \in 1..2 |-> NewProfiler(enabled)]
    /\ reserved = 0 /\ ticks = 0
    /\ ring = NewRing
    /\ inFrame = NotInFrame
    /\ report = NoReport /\ profiles = {}
    /\ frameLog = <<>>
    /\ sampleLog = [s \in Systems |-> <<>>]

-----------------------------------------------------------------------------
(* Profiler *)

\* Every record call is a no-op on a stopped or a disabled profiler.
Records(p) == p.active /\ p.enabled
RecordTick(p, t) == IF Records(p) THEN [p EXCEPT !.tick = Record(@, t)] ELSE p
RecordFrame(p, t) == IF Records(p) THEN [p EXCEPT !.frame = Record(@, t)] ELSE p

\* The render feeds: sums, a sum with the number of its measurements, a gauge.
Feed(p, calls, us, bytes) ==
    IF Records(p)
    THEN [p EXCEPT !.drawCalls = @ + calls, !.gpuUs = @ + us, !.gpuFrames = @ + 1,
                   !.textureMemory = bytes]
    ELSE p

\* Moving leaves a stopped profiler behind.
MovedProfilers(to) ==
    LET from == 3 - to
    IN [profilers EXCEPT ![to] = profilers[from], ![from].active = FALSE]

\* snapshot() of a stopped profiler is empty; the window statistics otherwise.
Snapshot(p) ==
    IF p.active
    THEN [ticks |-> p.tick.total, frames |-> p.frame.total, drawCalls |-> p.drawCalls,
          gpuUs |-> p.gpuUs, gpuFrames |-> p.gpuFrames, textureMemory |-> p.textureMemory,
          tickTime |-> Stats(p.tick), frameTime |-> Stats(p.frame)]
    ELSE [ticks |-> 0, frames |-> 0]

\* What a report says of a window and of the GPU: nothing without samples.
OrNothing(measured, value) == IF measured > 0 THEN {value} ELSE {}

ProfileSummary(p) ==
    LET s == Snapshot(p)
    IN IF p.active
       THEN [ticks |-> s.ticks, frames |-> s.frames, allocs |-> reserved,
             tickTime |-> OrNothing(s.tickTime.n, s.tickTime),
             frameTime |-> OrNothing(s.frameTime.n, s.frameTime),
             gpu |-> OrNothing(s.gpuFrames, s.gpuUs)]
       ELSE [ticks |-> 0, frames |-> 0, allocs |-> 0, tickTime |-> {}, frameTime |-> {}, gpu |-> {}]

\* The full report adds a line per system the snapshot counts.
ProfileText(p) ==
    [summary |-> ProfileSummary(p),
     systems |-> [s \in IF p.active THEN Systems ELSE {} |->
                    [runs |-> timing[s].runs, warns |-> timing[s].warns, errors |-> timing[s].errors,
                     window |-> LET w == Stats(timing[s].window) IN OrNothing(w.n, w)]]]

ProfileJson(p) == [version |-> 1, report |-> ProfileText(p)]

Outside == ~inFrame.open
Reported == report # NoReport

FeedRender ==
    /\ Outside /\ profilers[1].drawCalls < 1
    /\ profilers' = [profilers EXCEPT ![1] = Feed(@, 1, 1, 1)]
    /\ UNCHANGED <<timing, reserved, ticks, ring, inFrame, report, frameLog, sampleLog>>
MoveProfiler ==
    /\ Outside
    /\ \E to \in 1..2 : profilers[3 - to].active /\ profilers' = MovedProfilers(to)
    /\ UNCHANGED <<timing, reserved, ticks, ring, inFrame, report, frameLog, sampleLog>>

-----------------------------------------------------------------------------
(* A run *)

\* A budget of zero makes every run of the system critical, a warning only
\* when it took time.
CheckSystemBudget(record, budget, t) ==
    [window |-> Record(record.window, t),
     runs |-> record.runs + 1,
     warns |-> record.warns + (IF t > budget THEN 1 ELSE 0),
     errors |-> record.errors + (IF t >= CriticalMultiplier * budget THEN 1 ELSE 0)]

BudgetEventTotals ==
    [warns |-> SumFunction([s \in Systems |-> timing[s].warns]),
     errors |-> SumFunction([s \in Systems |-> timing[s].errors])]

OpenFrame ==
    /\ Outside /\ Len(frameLog) < MaxRunFrames /\ report = NoReport
    /\ inFrame' = [open |-> TRUE, ticks |-> ticks, reserved |-> reserved, events |-> BudgetEventTotals]
    /\ frameLog' = Append(frameLog, NoRecord)
    /\ UNCHANGED <<timing, profilers, reserved, ticks, ring, report, sampleLog>>

\* A completed tick: every system runs and is checked, an archetype may grow.
MeasuredTick ==
    /\ inFrame.open /\ ticks - inFrame.ticks < MaxFrameTicks
    /\ \E t \in [Systems -> MeasuredTimes], grown \in 0..1 :
         /\ timing' = [s \in Systems |-> CheckSystemBudget(timing[s], Budgets[s], t[s])]
         /\ sampleLog' = [s \in Systems |-> Append(sampleLog[s], t[s])]
         /\ reserved' = reserved + grown
         /\ profilers' = [profilers EXCEPT ![1] = RecordTick(@, SumFunction(t))]
         /\ LET over(limit(_)) == Cardinality({s \in Systems : t[s] >= limit(s)})
                n == Len(frameLog)
            IN frameLog' = [frameLog EXCEPT
                              ![n].ticks = @ + 1, ![n].tickAfter = ticks + 1,
                              ![n].allocs = @ + grown,
                              ![n].warns = @ + over(LAMBDA s : Budgets[s] + 1),
                              ![n].errors = @ + over(LAMBDA s : CriticalMultiplier * Budgets[s])]
    /\ ticks' = ticks + 1
    /\ UNCHANGED <<ring, inFrame, report>>

\* Engine::recordFrameBudget: what the counters grew by over the frame.
FrameRecord ==
    [ticks |-> ticks - inFrame.ticks, tickAfter |-> ticks, allocs |-> reserved - inFrame.reserved,
     warns |-> BudgetEventTotals.warns - inFrame.events.warns,
     errors |-> BudgetEventTotals.errors - inFrame.events.errors]

Pushed(r, record) ==
    [slots |-> [r.slots EXCEPT ![r.cursor] = record],
     cursor |-> (r.cursor + 1) % FrameWindow,
     count |-> IF r.count < FrameWindow THEN r.count + 1 ELSE r.count,
     total |-> r.total + 1]

CloseFrame ==
    /\ inFrame.open
    /\ ring' = Pushed(ring, FrameRecord)
    /\ profilers' = [profilers EXCEPT ![1] = RecordFrame(@, ticks - inFrame.ticks)]
    /\ inFrame' = NotInFrame
    /\ frameLog' = [frameLog EXCEPT ![Len(frameLog)].tickAfter = ticks]
    /\ UNCHANGED <<timing, reserved, ticks, report, sampleLog>>

-----------------------------------------------------------------------------
(* The budget report *)

\* Faulty variant: the ring read as if it were always full.
RetainedFromCursor(i) == ring.slots[(ring.cursor + i) % FrameWindow]
\* The i-th retained record, the oldest first.
Retained(i) == ring.slots[(((ring.total - ring.count) % FrameWindow) + i) % FrameWindow]

ShownFrames(lastN) ==
    LET asked == IF lastN = 0 THEN FrameWindow ELSE Min({lastN, FrameWindow})
        shown == Min({ring.count, asked})
    IN [i \in 1..shown |-> Retained(ring.count - shown + i - 1)]

FramePasses(record) == record.allocs = 0 /\ record.warns = 0 /\ record.errors = 0

EntryResult(name, h) ==
    IF name \in DOMAIN Entries THEN BudgetCheck(Entries[name], h) ELSE "NO_ENTRY"

SystemResult(s) ==
    LET stats == Stats(timing[s].window)
    IN IF stats.n = 0 THEN "NO_SAMPLES"
       ELSE IF stats.p99 > Budgets[s] THEN "FAIL" ELSE "PASS"

BuildReport(lastN) ==
    LET frames == ShownFrames(lastN)
        allocs == FoldLeft(LAMBDA h, r : Record(h, r.allocs), NewHistogram(Len(frames)), frames)
        entries == [name \in {"sim_tick_avg", "sim_tick_p99", "sim_heap_allocs"} |->
                      EntryResult(name, IF name = "sim_heap_allocs" THEN allocs
                                        ELSE profilers[1].tick)]
        systems == [s \in Systems |-> SystemResult(s)]
    IN [frames |-> frames, entries |-> entries, systems |-> systems,
        overBudget |-> {s \in Systems : systems[s] = "FAIL"},
        passed |-> /\ \A i \in DOMAIN frames : FramePasses(frames[i])
                   /\ \A name \in DOMAIN entries : entries[name] = "PASS"
                   /\ \A s \in Systems : systems[s] = "PASS"]

MakeReport ==
    /\ Outside /\ report = NoReport /\ profilers[1].active
    /\ \E n \in LastNs : report' = BuildReport(n)
    /\ UNCHANGED <<timing, profilers, reserved, ticks, ring, inFrame, frameLog, sampleLog>>

\* writeProfile: a file that was not written and closed in full is removed.
WriteProfile ==
    /\ Reported /\ profiles = {}
    /\ \E format \in {ProfileText(profilers[1]), ProfileJson(profilers[1])} :
         \/ profiles' = {format}
         \/ UNCHANGED profiles
    /\ UNCHANGED <<timing, profilers, reserved, ticks, ring, inFrame, report, frameLog, sampleLog>>

MeasuringNext ==
    \/ (FeedRender \/ MoveProfiler \/ OpenFrame \/ MeasuredTick \/ CloseFrame \/ MakeReport) /\ UNCHANGED profiles
    \/ WriteProfile

MeasuringSpec == MeasuringInit /\ [][MeasuringNext]_measuringVars

-----------------------------------------------------------------------------
(* Properties *)

LastOf(s, n) == SubSeq(s, Len(s) - n + 1, Len(s))

\* The report shows the latest completed frames, oldest first, each with what
\* really happened in it, although the ring wraps and each record is the
\* difference of totals over all systems (frame_budget.cpp, engine.cpp).
ReportTellsRecentFrames ==
    Reported => /\ report.frames = LastOf(frameLog, Len(report.frames))
                /\ report.passed => /\ frameLog # <<>>
                                    /\ \A s \in Systems : sampleLog[s] # <<>>

\* A system passes the report exactly when none of the ticks its window
\* retains took longer than its budget, and it is listed as over budget exactly
\* when one did; a system that never ran is neither.
VerdictIsTheWindow ==
    Reported =>
      \A s \in Systems :
        LET kept == Min({Len(sampleLog[s]), SystemWindow})
            recent == LastOf(sampleLog[s], kept)
            over == \E i \in DOMAIN recent : recent[i] > Budgets[s]
        IN /\ (report.systems[s] = "PASS") = (kept > 0 /\ ~over)
           /\ (s \in report.overBudget) = over

\* The frame budget report tells the last completed frames as they were, and
\* judges each system by the ticks its window retains (frame_budget.cpp).
ReportIsWhatHappened == ReportTellsRecentFrames /\ VerdictIsTheWindow

=============================================================================
