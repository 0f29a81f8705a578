---------------------------- MODULE Presentation ----------------------------
(***************************************************************************)
(* laige::PresentationSnapshot (presentation.h) over a World: the pair of   *)
(* positions kept per entity slot, refreshed after every completed tick,    *)
(* and the factor set once per rendered frame.  The render loop is paced by *)
(* a FrameClock (frame_pipeline.cpp), whose waitFrame gives the render      *)
(* times.  The clock's deadlines and the factor are written to stay inside  *)
(* 64 bits: the deadline is clamped before the product would overflow, the  *)
(* factor is computed from seconds and remainder apart.                     *)
(*                                                                          *)
(* The world is the whole of module World with one component, the position. *)
(* Between two refreshes anything may happen to it: slots are reused, the   *)
(* component is removed and added again, and an each() may be running when  *)
(* the refresh is attempted.                                                *)
(*                                                                          *)
(* Times are in clock units, NsPerSecond to a second; TimeMax stands for    *)
(* the largest 64-bit time.                                                 *)
(***************************************************************************)
EXTENDS World

CONSTANTS
    NsPerSecond,   \* clock units to a second
    TimeMax,       \* the largest representable time
    FrameRate,     \* FrameClockOptions::frameRateHz
    TickRate,      \* PresentationSnapshot::Options::tickRateHz
    MaxTickRate,   \* kMaxTickRateHz
    ScalarOne,     \* the 1.0 of the fixed-point scalar (2^16)
    Position,      \* the id of Position2D among the components
    MaxTicks,      \* bound: completed ticks
    MaxFrames      \* bound: rendered frames

ASSUME UnitsAssumption ==
    /\ NsPerSecond \in Nat \ {0}
    /\ TimeMax \in Nat
    /\ ScalarOne \in Nat \ {0}
ASSUME RatesAssumption ==
    /\ FrameRate \in 1..NsPerSecond
    /\ MaxTickRate \in Nat \ {0}
    /\ TickRate \in 1..MaxTickRate
ASSUME PositionAssumption == Position \in Components
ASSUME BoundsAssumption == MaxTicks \in Nat /\ MaxFrames \in Nat

Clamped(x, low, high) == IF x < low THEN low ELSE IF x > high THEN high ELSE x

-----------------------------------------------------------------------------
(* FrameClock *)

Period == NsPerSecond \div FrameRate

\* boundedDeadline: frame * period is formed only when the sum fits.
Deadline(reference, frame) ==
    LET room == TimeMax - reference
        maxIndex == IF room < 0 THEN 0 ELSE room \div Period
    IN  IF frame > maxIndex THEN TimeMax ELSE reference + frame * Period

\* waitFrame: sleep to the deadline, then the later of it and the clock.
\* "slept" is the reading after the sleep, which may overshoot.
FrameTime(reference, frame, slept) ==
    IF slept > Deadline(reference, frame) THEN slept
    ELSE Deadline(reference, frame)

-----------------------------------------------------------------------------
(* PresentationSnapshot: the factor in units of 1/NsPerSecond *)

\* Faulty variant: only the remainder of the second counts.
AlphaNumOfRest(elapsed, tick) ==
    IF tick = 0 THEN 0
    ELSE Clamped((elapsed % NsPerSecond) * TickRate, 0, NsPerSecond)

\* onRenderFrame: far before and far after the tick the product is not formed.
AlphaNum(elapsed, tick) ==
    LET ahead == (elapsed \div NsPerSecond) * TickRate - tick
        rest == (elapsed % NsPerSecond) * TickRate
    IN  IF tick = 0 THEN 0
        ELSE IF ahead >= NsPerSecond THEN NsPerSecond
        ELSE IF ahead < 1 - MaxTickRate THEN 0
        ELSE Clamped(ahead * NsPerSecond + rest, 0, NsPerSecond)

\* AlphaConversion<Fpx16_16>: rounded to the nearest scalar.
ToScalar(num) == (num * ScalarOne + NsPerSecond \div 2) \div NsPerSecond

\* What the factor should be: how far the elapsed time lies past the tick's
\* due time, in ticks.
ExactAlphaNum(elapsed, tick) ==
    IF tick = 0 THEN 0
    ELSE Clamped(elapsed * TickRate - tick * NsPerSecond, 0, NsPerSecond)

-----------------------------------------------------------------------------
(* PresentationSnapshot *)

VARIABLES
    records,   \* per slot: prev, curr, generation, active
    lastTick, alpha, valid,
    frame,     \* index of the last frame the FrameClock waited for
    renderNs,  \* its render time
    \* history
    occupant,      \* per slot, which of its entities the record was made for
    tickPositions, \* per slot, where its entity stood at ends of ticks
    seenAt,        \* per slot, the tick of its record's last refresh
    shown          \* the simulation time of the last frame, in scalar units

snapshotVars == <<records, lastTick, alpha, valid>>
historyVars == <<occupant, tickPositions, seenAt, shown>>
presentationVars == <<snapshotVars, frame, renderNs, historyVars>>
allVars == <<vars, presentationVars>>

Unseen(v) == [prev |-> v, curr |-> v, generation |-> 0, active |-> FALSE]

PresentationInit ==
    /\ Init
    /\ \E v \in Values : records = [s \in Slots |-> Unseen(v)]
    /\ lastTick = 0
    /\ alpha = 0
    /\ valid = TRUE
    /\ frame = 0
    /\ renderNs = 0
    /\ occupant = [s \in Slots |-> 0]
    /\ tickPositions = [s \in Slots |-> {}]
    /\ seenAt = [s \in Slots |-> 0]
    /\ shown = 0

HasPosition(s) == alive[s] /\ Position \in SignatureOf(s)

Known(s) == records[s].active /\ records[s].generation = generations[s]

\* Faulty variant: a record trusted whatever the generation.
RefreshedBySlot(s) ==
    LET now == StoredOf(s)[Position] IN
    [prev |-> IF records[s].active THEN records[s].curr ELSE now,
     curr |-> now, generation |-> generations[s], active |-> TRUE]

\* What onTick's callback leaves in the record of a slot it visits.
Refreshed(s) ==
    LET now == StoredOf(s)[Position] IN
    [prev |-> IF Known(s) THEN records[s].curr ELSE now,
     curr |-> now, generation |-> generations[s], active |-> TRUE]

\* onTick, after a completed tick.
OnTick ==
    /\ valid
    /\ Ready /\ ~iterationActive   \* else each() refuses and nothing changes
    /\ lastTick < MaxTicks
    /\ records' = [s \in Slots |-> IF HasPosition(s) THEN Refreshed(s)
                                   ELSE records[s]]
    /\ lastTick' = lastTick + 1
    /\ occupant' = [s \in Slots |-> IF HasPosition(s) THEN Len(issued[s])
                                    ELSE occupant[s]]
    /\ tickPositions' = [s \in Slots |->
           IF HasPosition(s) THEN tickPositions[s] \cup {StoredOf(s)[Position]}
           ELSE tickPositions[s]]
    /\ seenAt' = [s \in Slots |-> IF HasPosition(s) THEN lastTick + 1
                                  ELSE seenAt[s]]
    /\ UNCHANGED <<vars, alpha, valid, frame, renderNs, shown>>

\* waitFrame for the next frame, then onRenderFrame with its render time; a
\* frame index may be skipped by a caller that is late.
RenderFrame ==
    /\ valid
    /\ \E f \in (frame + 1)..MaxFrames, slept \in renderNs..TimeMax :
         LET at == FrameTime(0, f, slept) IN
         /\ frame' = f
         /\ renderNs' = at
         /\ alpha' = ToScalar(AlphaNum(at, lastTick))
    /\ shown' = lastTick * ScalarOne + alpha'
    /\ UNCHANGED <<vars, records, lastTick, valid, occupant, tickPositions,
                   seenAt>>

\* The snapshot is moved from: every operation on it fails from now on.
MoveFrom ==
    /\ valid
    /\ valid' = FALSE
    /\ lastTick' = 0
    /\ UNCHANGED <<vars, records, alpha, frame, renderNs, historyVars>>

\* The world changes under the snapshot.  A new entity has no past.
WorldStep ==
    /\ Next
    /\ tickPositions' = [s \in Slots |-> IF issued'[s] = issued[s]
                                         THEN tickPositions[s] ELSE {}]
    /\ UNCHANGED <<snapshotVars, frame, renderNs, occupant, seenAt, shown>>

PresentationNext == OnTick \/ RenderFrame \/ MoveFrom \/ WorldStep

PresentationSpec == PresentationInit /\ [][PresentationNext]_allVars

-----------------------------------------------------------------------------
(* sample_position: the two positions it interpolates between *)

Fails == "invalid_argument"

Sample(s) ==
    IF ~valid \/ ~HasPosition(s) THEN Fails
    ELSE IF Known(s) THEN <<records[s].prev, records[s].curr>>
    ELSE <<StoredOf(s)[Position], StoredOf(s)[Position]>>

-----------------------------------------------------------------------------
(* Properties *)

PresentationTypeOK ==
    /\ records \in [Slots -> [prev : Values, curr : Values,
                              generation : 0..(GenerationMod - 1),
                              active : BOOLEAN]]
    /\ lastTick \in 0..MaxTicks
    /\ alpha \in 0..ScalarOne
    /\ frame \in 0..MaxFrames

\* However slots are destroyed, cleared and created again between ticks, what
\* sample_position shows of an entity lies between positions that same entity
\* held: at ends of ticks if the snapshot saw it, else now.
SampleMixesOneEntity ==
    /\ PresentationTypeOK
    /\ \A s \in Slots : Sample(s) # Fails =>
           IF Known(s)
           THEN /\ occupant[s] = Len(issued[s])
                /\ records[s].prev \in tickPositions[s]
                /\ records[s].curr \in tickPositions[s]
           ELSE Sample(s)[1] = written[s][Position]

\* From frame to frame the picture never runs backwards, whatever the clock's
\* overshoot, the skipped frames and the ticks in between.
PictureAdvances == [][shown' >= shown]_allVars

\* A claim the code does not keep.
\* The header (presentation.h:20-23): prev and curr are the world's state at
\* the end of the last two completed ticks.  An entity interpolates only if
\* the snapshot saw it at the tick before this one.
PairIsLastTwoTicks ==
    [][\A s \in Slots :
         (records'[s] # records[s] /\ records'[s].prev # records'[s].curr) =>
             seenAt[s] = lastTick]_allVars
=============================================================================
