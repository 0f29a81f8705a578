---------------------------- MODULE RenderThread ----------------------------
(***************************************************************************)
(* laige::render::RenderThread (laige-render/frame_pipeline.cpp): the       *)
(* single-slot, lock-free handoff of frame descriptors from the owner (main *)
(* or sim) thread to the render thread.                                     *)
(*                                                                          *)
(* One action per access to a shared atomic, so that every interleaving of  *)
(* the two threads is explored.  A read of an atomic that only the reading  *)
(* thread writes (seq_, submitted_ and stop_ on the owner's side) cannot    *)
(* race and is folded into the neighbouring step.  The interleavings are    *)
(* sequentially consistent: the extra reorderings the relaxed accesses      *)
(* allow on weakly ordered machines are not modelled.                       *)
(*                                                                          *)
(* A frame's descriptor is its publication number: word w of the slot       *)
(* holds n when it was last written by the n-th publication.                *)
(***************************************************************************)
EXTENDS Integers, FiniteSets

CONSTANTS
    MaxFrames,   \* bound: publications explored
    CounterMod   \* 2^width of the unsigned counters (2^64 in the code)

ASSUME FramesAssumption == MaxFrames \in Nat
ASSUME CounterAssumption == CounterMod \in Nat /\ CounterMod > MaxFrames

\* The words of a FrameDescriptor in the order both threads access them:
\* frameIndex, simTick, renderTimeNs, frameData.
Words == 1..4

Frames == 0..MaxFrames

VARIABLES
    \* the atomics of the handoff
    seq, slot, consumedSeq, inFlight, stop, submitted, rendered,
    \* the owner thread
    valid,      \* valid_
    ownerPc,    \* where the owner is
    word,       \* the slot word the owner writes next
    pendingSeen, flightSeen,  \* what stats() has read so far
    lastStats,  \* the value stats() last returned
    \* the render thread
    renderPc,   \* where the render thread is
    lastSeen,   \* the local of runConsumer
    copySeq,    \* the local a
    readWord,   \* the slot word it reads next
    copy,       \* the local d
    \* history
    accepted,   \* publications whose copy the render thread accepted
    warned,     \* publications a frame_dropped event named
    quiet       \* waitIdle returned and nothing was published since

sharedVars == <<seq, slot, consumedSeq, inFlight, stop, submitted, rendered>>
ownerVars == <<valid, ownerPc, word, pendingSeen, flightSeen, lastStats>>
renderVars == <<renderPc, lastSeen, copySeq, readWord, copy>>
historyVars == <<accepted, warned, quiet>>
vars == <<sharedVars, ownerVars, renderVars, historyVars>>

OwnerPcs == {"ready", "word", "bump", "count", "waitSeq", "waitFlight",
             "join", "statFlight", "statRendered"}
RenderPcs == {"start", "wait", "poll", "check", "copySeq", "copyWord",
              "copyCheck", "mark", "consume", "batch", "submit", "count",
              "clear", "onStop", "exited"}

NoStats == [framesSubmitted |-> 0, framesRendered |-> 0, framesDropped |-> 0]

Init ==
    /\ seq = 0
    /\ slot = [w \in Words |-> 0]
    /\ consumedSeq = 0
    /\ inFlight = FALSE
    /\ stop = FALSE
    /\ submitted = 0
    /\ rendered = 0
    /\ valid = TRUE
    /\ ownerPc = "ready"
    /\ word = 1
    /\ pendingSeen = 0
    /\ flightSeen = 0
    /\ lastStats = NoStats
    /\ renderPc = "start"
    /\ lastSeen = 0
    /\ copySeq = 0
    /\ readWord = 1
    /\ copy = [w \in Words |-> 0]
    /\ accepted = {}
    /\ warned = {}
    /\ quiet = FALSE

-----------------------------------------------------------------------------
(* submitFrame, on the owner thread *)

\* Faulty variant: the back-pressure decision off by one.
SubmitFrameOffByOne ==
    /\ ownerPc = "ready"
    /\ valid
    /\ seq < MaxFrames
    /\ warned' = IF seq > consumedSeq + 1 THEN warned \cup {seq} ELSE warned
    /\ ownerPc' = "word"
    /\ word' = 1
    /\ UNCHANGED <<sharedVars, renderVars, accepted, quiet,
                   valid, pendingSeen, flightSeen, lastStats>>

\* The early return for a stopped object, then the back-pressure decision on
\* a snapshot of consumedSeq_: a frame still pending is about to be dropped.
SubmitFrame ==
    /\ ownerPc = "ready"
    /\ valid
    /\ seq < MaxFrames
    /\ warned' = IF seq > consumedSeq THEN warned \cup {seq} ELSE warned
    /\ ownerPc' = "word"
    /\ word' = 1
    /\ UNCHANGED <<sharedVars, renderVars, accepted, quiet,
                   valid, pendingSeen, flightSeen, lastStats>>

WriteWord ==
    /\ ownerPc = "word"
    /\ slot' = [slot EXCEPT ![word] = seq + 1]
    /\ IF word = 4 THEN ownerPc' = "bump" /\ UNCHANGED word
                   ELSE word' = word + 1 /\ UNCHANGED ownerPc
    /\ UNCHANGED <<seq, consumedSeq, inFlight, stop, submitted, rendered,
                   valid, pendingSeen, flightSeen, lastStats,
                   renderVars, historyVars>>

BumpSeq ==
    /\ ownerPc = "bump"
    /\ seq' = seq + 1
    /\ ownerPc' = "count"
    /\ quiet' = FALSE
    /\ UNCHANGED <<slot, consumedSeq, inFlight, stop, submitted, rendered,
                   valid, word, pendingSeen, flightSeen, lastStats,
                   renderVars, accepted, warned>>

CountSubmitted ==
    /\ ownerPc = "count"
    /\ submitted' = submitted + 1
    /\ ownerPc' = "ready"
    /\ UNCHANGED <<seq, slot, consumedSeq, inFlight, stop, rendered,
                   valid, word, pendingSeen, flightSeen, lastStats,
                   renderVars, historyVars>>

-----------------------------------------------------------------------------
(* waitIdle, shutdown and stats, on the owner thread *)

WaitIdle ==
    /\ ownerPc = "ready"
    /\ valid
    /\ ownerPc' = "waitSeq"
    /\ UNCHANGED <<sharedVars, renderVars, historyVars,
                   valid, word, pendingSeen, flightSeen, lastStats>>

\* seq <= consumed; otherwise the loop yields and reads again.
WaitSeq ==
    /\ ownerPc = "waitSeq"
    /\ seq <= consumedSeq
    /\ ownerPc' = "waitFlight"
    /\ UNCHANGED <<sharedVars, renderVars, historyVars,
                   valid, word, pendingSeen, flightSeen, lastStats>>

WaitFlight ==
    /\ ownerPc = "waitFlight"
    /\ IF inFlight THEN ownerPc' = "waitSeq" /\ UNCHANGED quiet
                   ELSE ownerPc' = "ready" /\ quiet' = TRUE
    /\ UNCHANGED <<sharedVars, renderVars, accepted, warned,
                   valid, word, pendingSeen, flightSeen, lastStats>>

\* valid_ = false, then the stop request.  A second call is a no-op.
Shutdown ==
    /\ ownerPc = "ready"
    /\ valid
    /\ valid' = FALSE
    /\ stop' = TRUE
    /\ ownerPc' = "join"
    /\ UNCHANGED <<seq, slot, consumedSeq, inFlight, submitted, rendered,
                   word, pendingSeen, flightSeen, lastStats,
                   renderVars, historyVars>>

Join ==
    /\ ownerPc = "join"
    /\ renderPc = "exited"
    /\ ownerPc' = "ready"
    /\ UNCHANGED <<sharedVars, renderVars, historyVars,
                   valid, word, pendingSeen, flightSeen, lastStats>>

\* stats() reads consumedSeq_, inFlight_ and rendered_ one after the other.
StatsPending ==
    /\ ownerPc = "ready"
    /\ pendingSeen' = IF seq > consumedSeq THEN 1 ELSE 0
    /\ ownerPc' = "statFlight"
    /\ UNCHANGED <<sharedVars, renderVars, historyVars,
                   valid, word, flightSeen, lastStats>>

StatsFlight ==
    /\ ownerPc = "statFlight"
    /\ flightSeen' = IF inFlight THEN 1 ELSE 0
    /\ ownerPc' = "statRendered"
    /\ UNCHANGED <<sharedVars, renderVars, historyVars,
                   valid, word, pendingSeen, lastStats>>

\* framesDropped is an unsigned difference of CounterMod values.
StatsReturn ==
    /\ ownerPc = "statRendered"
    /\ lastStats' =
         [framesSubmitted |-> submitted,
          framesRendered  |-> rendered,
          framesDropped   |->
            (submitted - rendered - pendingSeen - flightSeen) % CounterMod]
    /\ ownerPc' = "ready"
    /\ pendingSeen' = 0
    /\ flightSeen' = 0
    /\ UNCHANGED <<sharedVars, renderVars, historyVars, valid, word>>

-----------------------------------------------------------------------------
(* runConsumer, on the render thread *)

RenderStep(from, to) == renderPc = from /\ renderPc' = to

OnStart ==
    /\ RenderStep("start", "wait")
    /\ UNCHANGED <<sharedVars, ownerVars, historyVars,
                   lastSeen, copySeq, readWord, copy>>

\* The wait loop: stop_, then seq_, then yield; and stop_ once more after it.
WaitStop ==
    /\ RenderStep("wait", IF stop THEN "onStop" ELSE "poll")
    /\ UNCHANGED <<sharedVars, ownerVars, historyVars,
                   lastSeen, copySeq, readWord, copy>>

\* Faulty variant: the publication already taken counts as new.
PollSeqNotStrict ==
    /\ RenderStep("poll", IF seq >= lastSeen THEN "check" ELSE "wait")
    /\ UNCHANGED <<sharedVars, ownerVars, historyVars,
                   lastSeen, copySeq, readWord, copy>>

PollSeq ==
    /\ RenderStep("poll", IF seq > lastSeen THEN "check" ELSE "wait")
    /\ UNCHANGED <<sharedVars, ownerVars, historyVars,
                   lastSeen, copySeq, readWord, copy>>

CheckStop ==
    /\ RenderStep("check", IF stop THEN "onStop" ELSE "copySeq")
    /\ UNCHANGED <<sharedVars, ownerVars, historyVars,
                   lastSeen, copySeq, readWord, copy>>

ReadSeq ==
    /\ RenderStep("copySeq", "copyWord")
    /\ copySeq' = seq
    /\ readWord' = 1
    /\ UNCHANGED <<sharedVars, ownerVars, historyVars, lastSeen, copy>>

ReadWord ==
    /\ RenderStep("copyWord", IF readWord = 4 THEN "copyCheck" ELSE "copyWord")
    /\ copy' = [copy EXCEPT ![readWord] = slot[readWord]]
    /\ readWord' = IF readWord = 4 THEN 1 ELSE readWord + 1
    /\ UNCHANGED <<sharedVars, ownerVars, historyVars, lastSeen, copySeq>>

\* Faulty variant: no end check.
CheckCopyBlindly ==
    /\ RenderStep("copyCheck", "mark")
    /\ lastSeen' = copySeq
    /\ accepted' = accepted \cup {copySeq}
    /\ UNCHANGED <<sharedVars, ownerVars, warned, quiet,
                   copySeq, readWord, copy>>

\* The end check: accept the copy when seq_ is unchanged, else copy again.
CheckCopy ==
    /\ RenderStep("copyCheck", IF copySeq = seq THEN "mark" ELSE "copySeq")
    /\ IF copySeq = seq
         THEN lastSeen' = copySeq /\ accepted' = accepted \cup {copySeq}
         ELSE UNCHANGED <<lastSeen, accepted>>
    /\ UNCHANGED <<sharedVars, ownerVars, warned, quiet,
                   copySeq, readWord, copy>>

\* Faulty variant: the in-flight mark forgotten.
MarkInFlightNot ==
    /\ RenderStep("mark", "consume")
    /\ UNCHANGED <<sharedVars, ownerVars, historyVars,
                   lastSeen, copySeq, readWord, copy>>

MarkInFlight ==
    /\ RenderStep("mark", "consume")
    /\ inFlight' = TRUE
    /\ UNCHANGED <<seq, slot, consumedSeq, stop, submitted, rendered,
                   ownerVars, historyVars, lastSeen, copySeq, readWord, copy>>

StoreConsumed ==
    /\ RenderStep("consume", "batch")
    /\ consumedSeq' = copySeq
    /\ UNCHANGED <<seq, slot, inFlight, stop, submitted, rendered,
                   ownerVars, historyVars, lastSeen, copySeq, readWord, copy>>

BatchStage ==
    /\ RenderStep("batch", "submit")
    /\ UNCHANGED <<sharedVars, ownerVars, historyVars,
                   lastSeen, copySeq, readWord, copy>>

SubmitStage ==
    /\ RenderStep("submit", "count")
    /\ UNCHANGED <<sharedVars, ownerVars, historyVars,
                   lastSeen, copySeq, readWord, copy>>

\* Faulty variant: the publication number taken for the count of frames.
CountRenderedBySeq ==
    /\ RenderStep("count", "clear")
    /\ rendered' = copySeq
    /\ UNCHANGED <<seq, slot, consumedSeq, inFlight, stop, submitted,
                   ownerVars, historyVars, lastSeen, copySeq, readWord, copy>>

CountRendered ==
    /\ RenderStep("count", "clear")
    /\ rendered' = rendered + 1
    /\ UNCHANGED <<seq, slot, consumedSeq, inFlight, stop, submitted,
                   ownerVars, historyVars, lastSeen, copySeq, readWord, copy>>

\* Faulty variant: the in-flight mark left set.
ClearInFlightNot ==
    /\ RenderStep("clear", "wait")
    /\ UNCHANGED <<sharedVars, ownerVars, historyVars,
                   lastSeen, copySeq, readWord, copy>>

ClearInFlight ==
    /\ RenderStep("clear", "wait")
    /\ inFlight' = FALSE
    /\ UNCHANGED <<seq, slot, consumedSeq, stop, submitted, rendered,
                   ownerVars, historyVars, lastSeen, copySeq, readWord, copy>>

OnStop ==
    /\ RenderStep("onStop", "exited")
    /\ UNCHANGED <<sharedVars, ownerVars, historyVars,
                   lastSeen, copySeq, readWord, copy>>

-----------------------------------------------------------------------------
\* What the owner does on its own within a call it has begun.
OwnerContinues ==
    \/ WriteWord \/ BumpSeq \/ CountSubmitted
    \/ WaitSeq \/ WaitFlight
    \/ Join
    \/ StatsFlight \/ StatsReturn

OwnerCalls == SubmitFrame \/ WaitIdle \/ Shutdown \/ StatsPending

Owner == OwnerCalls \/ OwnerContinues

Renderer ==
    \/ OnStart \/ WaitStop \/ PollSeq \/ CheckStop
    \/ ReadSeq \/ ReadWord \/ CheckCopy
    \/ MarkInFlight \/ StoreConsumed
    \/ BatchStage \/ SubmitStage \/ CountRendered \/ ClearInFlight
    \/ OnStop

Next == Owner \/ Renderer

SafetySpec == Init /\ [][Next]_vars

\* Both threads are scheduled; the owner finishes a call it has begun, but
\* nothing obliges it to begin one.
Spec == SafetySpec /\ WF_vars(Renderer) /\ WF_vars(OwnerContinues)

-----------------------------------------------------------------------------
(* Properties *)

TypeOK ==
    /\ seq \in Frames
    /\ slot \in [Words -> Frames]
    /\ consumedSeq \in Frames
    /\ inFlight \in BOOLEAN
    /\ stop \in BOOLEAN
    /\ submitted \in Frames
    /\ rendered \in Nat
    /\ valid \in BOOLEAN
    /\ ownerPc \in OwnerPcs
    /\ word \in Words
    /\ pendingSeen \in {0, 1}
    /\ flightSeen \in {0, 1}
    /\ lastStats \in [framesSubmitted : Nat, framesRendered : Nat,
                      framesDropped : Nat]
    /\ renderPc \in RenderPcs
    /\ lastSeen \in Frames
    /\ copySeq \in Frames
    /\ readWord \in Words
    /\ copy \in [Words -> Frames]
    /\ accepted \subseteq Frames
    /\ warned \subseteq Frames
    /\ quiet \in BOOLEAN

\* The render thread holds an accepted copy it has not finished with.
HoldsFrame == renderPc \in {"mark", "consume", "batch", "submit", "count",
                            "clear"}

\* The owner releases per-frame data after waitIdle() (the ownership section
\* of frame_pipeline.h): from waitIdle's return to the next publication the
\* render thread holds no frame, is copying none, and has accepted the newest
\* one published.
WaitIdleBarrier ==
    quiet => /\ renderPc \in {"start", "wait", "poll", "onStop", "exited"}
             /\ seq = 0 \/ seq \in accepted
             /\ seq = lastSeen

\* A copy that passed the end check can mix words, but only of the accepted
\* publication and of the one being written over it: nothing older and
\* nothing further ahead reaches a stage.
TornByAtMostOne ==
    HoldsFrame => \A w \in Words : copy[w] \in {copySeq, copySeq + 1}

\* No drop is silent (PERF-008, LOG-004): a publication that was superseded
\* without ever being accepted has been named by a frame_dropped event, and
\* no publication newer than the current one has.
DropsAreLogged ==
    /\ \A n \in 1..(seq - 1) : n \in accepted \/ n \in warned
    /\ \A n \in warned : n <= seq

\* With nothing pending or in flight, stats() is exact: the frames it reports
\* dropped are the publications that were never accepted.
QuietStatsExact ==
    (quiet /\ ownerPc = "statRendered") =>
        (submitted - rendered - pendingSeen - flightSeen)
            = Cardinality((1..seq) \ accepted)

\* The header's claim on the copy: an accepted copy holds the words of the
\* accepted publication and of no other.
AcceptedCopyConsistent ==
    HoldsFrame => \A w \in Words : copy[w] = copySeq

\* waitIdle() returns: the consumer drains the single slot.
WaitIdleReturns == ownerPc = "waitSeq" ~> quiet

-----------------------------------------------------------------------------
(* Refinement *)

\* The handoff does what FrameHandoff promises: every accepted frame is the
\* newest publication at that moment, none is rendered twice or two at a time,
\* waitIdle and shutdown return only when they may, and a requested shutdown
\* completes.
Handoff == INSTANCE FrameHandoff WITH
    published <- seq,
    taken <- lastSeen,
    busy <- HoldsFrame,
    quiet <- quiet,
    phase <- IF valid THEN "running"
             ELSE IF ownerPc = "join" THEN "stopping" ELSE "stopped"

HandoffImplemented == Handoff!HandoffSpec
=============================================================================
