--------------------------- MODULE SimulationProofs ---------------------------
(***************************************************************************)
(* Theorems about what MCSimulation runs on a small instance.  Of the      *)
(* fixed-tick loop, for every tick rate, catch-up limit and number of       *)
(* systems: the conversion from time to ticks is the exact floor and        *)
(* monotone, the loop never runs ahead of its clock, a frame's books        *)
(* balance, and the systems advance in lock step with the ticks.  Of the    *)
(* engine and its replay log, for every size limit, target, frame budget    *)
(* and number of engines: the log is whole or absent whoever dies when,     *)
(* the reader refuses what is damaged, and the run's status tells the file. *)
(***************************************************************************)
EXTENDS GameLoop, Engine, FiniteSetTheorems, SequenceTheorems, TLAPS

\* Between frames nothing of the last one is left over; within one, the
\* demand it was begun with is accounted for.
FrameInv ==
    /\ pc = "idle" => left = 0
    /\ pc # "idle" => /\ want \in 1..due
                      /\ ticks + left + Higher(0, want - MaxCatchUp) = due
                      /\ due <= TicksDue(latest)
    /\ pc = "systems" => left > 0

\* Where every system stands: those the running phase does not know were
\* registered during it, and none that is not registered has run.
RunsInv ==
    /\ \A s \in 1..systemCount :
         since[s] <= ticks + (IF pc = "systems" /\ s > count THEN 1 ELSE 0)
    /\ pc = "systems" =>
         /\ count <= systemCount
         /\ place <= count + 1
         /\ \A s \in 1..systemCount : s > count => since[s] = ticks + 1
    /\ \A s \in SystemIds : s > systemCount => runs[s] = 0
    /\ SystemsInLockStep

IInv == TypeOK /\ FrameInv /\ NeverAheadOfClock /\ RunsInv

-----------------------------------------------------------------------------
(* The conversion from time to ticks *)

\* ticksDue loses nothing by treating seconds and remainder apart: it is the
\* number of whole tick times in the elapsed time, so the loop never drifts.
THEOREM TicksDueExact ==
    ASSUME NEW e \in Nat
    PROVE  /\ TicksDue(e) \in Nat
           /\ TicksDue(e) * NsPerSecond <= e * TickRate
           /\ e * TickRate < (TicksDue(e) + 1) * NsPerSecond
<1> USE ClockAssumption, OptionsAssumption
<1> DEFINE q == e \div NsPerSecond
           r == e % NsPerSecond
           p == r * TickRate
           k == p \div NsPerSecond
<1>1. q \in Nat /\ r \in Nat /\ e = q * NsPerSecond + r
  OBVIOUS
<1>2. p \in Nat
  BY <1>1
<1>3. k \in Nat /\ k * NsPerSecond <= p /\ p < (k + 1) * NsPerSecond
  <2> HIDE DEF p
  <2> QED
    BY <1>2
<1>4. TicksDue(e) = q * TickRate + k
  BY DEF TicksDue
<1> HIDE DEF q, r, k
<1>5. q * TickRate \in Nat
  BY <1>1
<1>6. e * TickRate = (q * TickRate) * NsPerSecond + p
  BY <1>1
<1>7. TicksDue(e) * NsPerSecond = (q * TickRate) * NsPerSecond + k * NsPerSecond
  BY <1>3, <1>4, <1>5
<1>8. (TicksDue(e) + 1) * NsPerSecond
        = (q * TickRate) * NsPerSecond + (k + 1) * NsPerSecond
  BY <1>3, <1>4, <1>5
<1> HIDE DEF p
<1>9. QED
  BY <1>2, <1>3, <1>4, <1>5, <1>6, <1>7, <1>8

\* More elapsed time never makes fewer ticks due.
LEMMA TicksDueMonotone ==
    ASSUME NEW a \in Nat, NEW b \in Nat, a <= b
    PROVE  TicksDue(a) <= TicksDue(b)
<1> USE ClockAssumption, OptionsAssumption
<1> DEFINE m == TicksDue(a)
           n == TicksDue(b)
<1>1. m \in Nat /\ m * NsPerSecond <= a * TickRate
  BY TicksDueExact
<1>2. n \in Nat /\ b * TickRate < (n + 1) * NsPerSecond
  BY TicksDueExact
<1>3. a * TickRate <= b * TickRate
  OBVIOUS
<1> HIDE DEF m, n
<1>4. m * NsPerSecond < (n + 1) * NsPerSecond
  BY <1>1, <1>2, <1>3
<1>5. m < n + 1
  BY <1>1, <1>2, <1>4
<1>6. m <= n
  BY <1>1, <1>2, <1>5
<1>7. QED
  BY <1>6 DEF m, n

-----------------------------------------------------------------------------
(* The inductive invariant *)

\* What frame() computes from its clock reading.
LEMMA ElapsedInTimes ==
    ASSUME TypeOK
    PROVE  /\ Elapsed \in Times
           /\ Higher(latest, Elapsed) \in Times
           /\ TicksDue(Elapsed) \in Nat
           /\ TicksDue(Elapsed) <= TicksDue(Higher(latest, Elapsed))
           /\ TicksDue(latest) <= TicksDue(Higher(latest, Elapsed))
<1>1. Elapsed \in Times /\ Higher(latest, Elapsed) \in Times
  BY ClockAssumption DEF TypeOK, Elapsed, Higher, Times
<1>2. /\ Elapsed \in Nat /\ latest \in Nat /\ Higher(latest, Elapsed) \in Nat
      /\ Elapsed <= Higher(latest, Elapsed)
      /\ latest <= Higher(latest, Elapsed)
  BY <1>1, ClockAssumption DEF TypeOK, Higher, Times
<1>3. QED
  BY <1>1, <1>2, TicksDueExact, TicksDueMonotone

\* The initial state satisfies the invariant.
LEMMA InitInv == Init => IInv
<1> SUFFICES ASSUME Init PROVE IInv
    OBVIOUS
<1>1. TypeOK
  <2>1. /\ now \in Times /\ startNs \in Times /\ latest \in Times
        /\ dropAt \in Times
    BY ClockAssumption DEF Init, Times
  <2>2. /\ left \in 0..MaxCatchUp /\ count \in 0..MaxSystems
        /\ place \in 1..(MaxSystems + 1)
        /\ systemCount \in SystemIds /\ scheduledCount \in 1..systemCount
    BY OptionsAssumption, SystemsAssumption DEF Init, SystemIds
  <2>3. runs \in [SystemIds -> Nat] /\ since \in [SystemIds -> Nat]
    BY DEF Init
  <2>4. QED
    BY <2>1, <2>2, <2>3 DEF Init, TypeOK
<1>2. FrameInv
  BY DEF Init, FrameInv
<1>3. NeverAheadOfClock
  <2>1. TicksDue(latest) \in Nat
    BY TicksDueExact DEF Init
  <2>2. QED
    BY <2>1 DEF Init, NeverAheadOfClock
<1>4. RunsInv
  BY SystemsAssumption DEF Init, RunsInv, SystemsInLockStep, SystemIds, Higher
<1>5. QED
  BY <1>1, <1>2, <1>3, <1>4 DEF IInv

\* Every step keeps the state well typed.
LEMMA TypeStep == IInv /\ [Next]_vars => TypeOK'
<1> SUFFICES ASSUME IInv, [Next]_vars PROVE TypeOK'
    OBVIOUS
<1> USE OptionsAssumption, SystemsAssumption DEF IInv, TypeOK, loopVars,
        frameVars, worldVars, historyVars
<1>1. CASE ClockMoves
  BY <1>1 DEF ClockMoves
<1>2. CASE RegisterSystem
  BY <1>2 DEF RegisterSystem, SystemIds
<1>3. CASE Reschedule
  BY <1>3 DEF Reschedule, SystemIds
<1>4. CASE MoveFrom
  BY <1>4 DEF MoveFrom
<1>5. CASE FirstFrame
  BY <1>5 DEF FirstFrame
<1>6. CASE Frame
  <2>1. latest' \in Times /\ TicksDue(Elapsed) \in Nat
    BY <1>6, ElapsedInTimes DEF Frame
  <2>2. CASE NothingDue
    BY <1>6, <2>1, <2>2 DEF Frame
  <2>3. CASE ~NothingDue
    <3>1. due' \in Nat /\ want' \in Nat /\ left' \in 0..MaxCatchUp
      BY <1>6, <2>1, <2>3 DEF Frame, NothingDue, TicksToRun, Lower
    <3>2. QED
      BY <1>6, <2>1, <2>3, <3>1 DEF Frame
  <2>4. QED
    BY <2>2, <2>3
<1>7. CASE BeginTick
  <2>1. CASE ScheduleStale
    <3>1. /\ pc' = "idle" /\ due' = 0 /\ want' = 0 /\ left' = 0
          /\ UNCHANGED <<count, place>>
      BY <1>7, <2>1 DEF BeginTick, FrameReturns
    <3>2. left' \in 0..MaxCatchUp
      BY <3>1
    <3>3. QED
      BY <1>7, <3>1, <3>2 DEF BeginTick
  <2>2. CASE ~ScheduleStale
    <3>1. count' \in 0..MaxSystems /\ place' \in 1..(MaxSystems + 1)
      BY <1>7, <2>2 DEF BeginTick, SystemIds
    <3>2. QED
      BY <1>7, <2>2, <3>1 DEF BeginTick
  <2>3. QED
    BY <2>1, <2>2
<1>8. CASE \E ops \in 0..MaxOps : RunSystem(ops)
  <2>1. PICK ops \in 0..MaxOps : RunSystem(ops)
    BY <1>8
  <2>2. place' \in 1..(MaxSystems + 1) /\ place \in SystemIds
    BY <2>1 DEF RunSystem, RunsInv, SystemIds
  <2>3. runs' \in [SystemIds -> Nat]
    BY <2>1, <2>2 DEF RunSystem
  <2>4. /\ systemCount' \in SystemIds /\ scheduledCount' \in 1..systemCount'
        /\ since' \in [SystemIds -> Nat]
    <3>1. CASE UNCHANGED <<systemCount, since>>
      BY <2>1, <3>1 DEF RunSystem
    <3>2. CASE /\ systemCount < MaxSystems
               /\ systemCount' = systemCount + 1
               /\ since' = [since EXCEPT ![systemCount + 1] = ticks + 1]
      BY <2>1, <3>2 DEF RunSystem, SystemIds
    <3>3. QED
      BY <2>1, <3>1, <3>2 DEF RunSystem
  <2>5. churnWarned' \in BOOLEAN
    BY <2>1 DEF RunSystem
  <2>6. frameChurn' \in Nat /\ frameOps' \in Nat /\ churnWarns' \in Nat
    BY <2>1 DEF RunSystem
  <2>7. QED
    BY <2>1, <2>2, <2>3, <2>4, <2>5, <2>6 DEF RunSystem
<1>9. CASE CompleteTick
  BY <1>9 DEF CompleteTick, PhaseDone, FrameInv
<1>10. CASE EndFrame
  BY <1>10 DEF EndFrame, FrameReturns, TicksToDrop
<1>11. CASE UNCHANGED vars
  BY <1>11 DEF vars
<1>12. QED
  BY <1>1, <1>2, <1>3, <1>4, <1>5, <1>6, <1>7, <1>8, <1>9, <1>10, <1>11 DEF Next, LoopStep

\* Every step keeps the books of the running frame.
LEMMA FrameStep == IInv /\ [Next]_vars => FrameInv'
<1> SUFFICES ASSUME IInv, [Next]_vars PROVE FrameInv'
    OBVIOUS
<1> USE OptionsAssumption DEF IInv, TypeOK, FrameInv, loopVars,
        frameVars, worldVars, historyVars
<1>1. CASE ClockMoves
  BY <1>1 DEF ClockMoves
<1>2. CASE RegisterSystem
  BY <1>2 DEF RegisterSystem
<1>3. CASE Reschedule
  BY <1>3 DEF Reschedule
<1>4. CASE MoveFrom
  BY <1>4 DEF MoveFrom
<1>5. CASE FirstFrame
  BY <1>5 DEF FirstFrame
<1>6. CASE Frame
  <2>1. TicksDue(Elapsed) \in Nat /\ TicksDue(Elapsed) <= TicksDue(latest')
    BY <1>6, ElapsedInTimes DEF Frame
  <2>2. CASE NothingDue
    BY <1>6, <2>2 DEF Frame
  <2>3. CASE ~NothingDue
    BY <1>6, <2>1, <2>3 DEF Frame, NothingDue, TicksToRun, Lower, Higher
  <2>4. QED
    BY <2>2, <2>3
<1>7. CASE BeginTick
  BY <1>7 DEF BeginTick, FrameReturns, TicksDue
<1>8. CASE \E ops \in 0..MaxOps : RunSystem(ops)
  BY <1>8 DEF RunSystem, TicksDue
<1>9. CASE CompleteTick
  BY <1>9 DEF CompleteTick, PhaseDone, Higher, TicksDue
<1>10. CASE EndFrame
  BY <1>10 DEF EndFrame, FrameReturns
<1>11. CASE UNCHANGED vars
  BY <1>11 DEF vars, TicksDue
<1>12. QED
  BY <1>1, <1>2, <1>3, <1>4, <1>5, <1>6, <1>7, <1>8, <1>9, <1>10, <1>11 DEF Next, LoopStep

\* No step puts the ticks ahead of the clock.
LEMMA ClockStep == IInv /\ [Next]_vars => NeverAheadOfClock'
<1> SUFFICES ASSUME IInv, [Next]_vars PROVE NeverAheadOfClock'
    OBVIOUS
<1> USE OptionsAssumption DEF IInv, TypeOK, NeverAheadOfClock, loopVars,
        frameVars, worldVars, historyVars
<1>0. TicksDue(latest) \in Nat
  BY TicksDueExact, ClockAssumption DEF Times
<1>1. CASE ClockMoves
  BY <1>0, <1>1 DEF ClockMoves, TicksDue
<1>2. CASE RegisterSystem
  BY <1>0, <1>2 DEF RegisterSystem, TicksDue
<1>3. CASE Reschedule
  BY <1>0, <1>3 DEF Reschedule, TicksDue
<1>4. CASE MoveFrom
  BY <1>0, <1>4 DEF MoveFrom, TicksDue
<1>5. CASE FirstFrame
  BY <1>0, <1>5 DEF FirstFrame, TicksDue
<1>6. CASE Frame
  <2>1. /\ TicksDue(Elapsed) \in Nat /\ TicksDue(latest') \in Nat
        /\ TicksDue(Elapsed) <= TicksDue(latest')
        /\ TicksDue(latest) <= TicksDue(latest')
    BY <1>6, ElapsedInTimes, TicksDueExact, ClockAssumption DEF Frame, Times
  <2>2. CASE NothingDue
    BY <1>0, <1>6, <2>1, <2>2 DEF Frame
  <2>3. CASE ~NothingDue
    BY <1>6, <2>1, <2>3 DEF Frame, NothingDue, TicksToRun, Lower
  <2>4. QED
    BY <2>2, <2>3
<1>7. CASE BeginTick
  BY <1>0, <1>7 DEF BeginTick, FrameReturns, TicksDue
<1>8. CASE \E ops \in 0..MaxOps : RunSystem(ops)
  BY <1>8 DEF RunSystem, TicksDue
<1>9. CASE CompleteTick
  BY <1>0, <1>9 DEF CompleteTick, FrameInv, TicksDue
<1>10. CASE EndFrame
  BY <1>0, <1>10 DEF EndFrame, FrameReturns, TicksDue
<1>11. CASE UNCHANGED vars
  BY <1>11 DEF vars, TicksDue
<1>12. QED
  BY <1>1, <1>2, <1>3, <1>4, <1>5, <1>6, <1>7, <1>8, <1>9, <1>10, <1>11 DEF Next, LoopStep

\* A count of ticks is never below zero, so the clamp leaves it alone.
LEMMA HigherOfNat == \A n \in Nat : Higher(0, n) = n
  BY DEF Higher

\* Every step keeps the systems in lock step with the ticks.
LEMMA RunsStep == IInv /\ [Next]_vars => RunsInv'
<1> SUFFICES ASSUME IInv, [Next]_vars PROVE RunsInv'
    OBVIOUS
<1> USE SystemsAssumption DEF IInv, TypeOK, RunsInv, SystemsInLockStep, Higher,
        SystemIds, loopVars, frameVars, worldVars, historyVars
<1>1. CASE ClockMoves
  BY <1>1 DEF ClockMoves
<1>2. CASE RegisterSystem
  BY <1>2 DEF RegisterSystem
<1>3. CASE Reschedule
  BY <1>3 DEF Reschedule
<1>4. CASE MoveFrom
  BY <1>4 DEF MoveFrom
<1>5. CASE FirstFrame
  BY <1>5 DEF FirstFrame
<1>6. CASE Frame
  BY <1>6 DEF Frame
<1>7. CASE BeginTick
  <2>1. CASE ScheduleStale
    BY <1>7, <2>1 DEF BeginTick, FrameReturns
  <2>2. CASE ~ScheduleStale
    BY <1>7, <2>2 DEF BeginTick, ScheduleStale
  <2>3. QED
    BY <2>1, <2>2
<1>8. CASE \E ops \in 0..MaxOps : RunSystem(ops)
  <2>1. PICK ops \in 0..MaxOps : RunSystem(ops)
    BY <1>8
  <2>2. /\ pc = "systems" /\ place \in 1..systemCount /\ place <= count
        /\ place' = place + 1
        /\ UNCHANGED <<pc, ticks, count>>
        /\ \A s \in SystemIds :
              runs'[s] = IF s = place THEN runs[s] + 1 ELSE runs[s]
    <3>1. /\ pc = "systems" /\ place <= count /\ place' = place + 1
          /\ UNCHANGED <<pc, ticks, count>>
          /\ runs' = [runs EXCEPT ![place] = @ + 1]
      BY <2>1 DEF RunSystem
    <3>2. place \in 1..systemCount
      BY <3>1
    <3>3. QED
      BY <3>1, <3>2
  <2>3. \A s \in 1..systemCount : since'[s] = since[s]
    <3>1. CASE UNCHANGED since
      BY <3>1
    <3>2. CASE since' = [since EXCEPT ![systemCount + 1] = ticks + 1]
      BY <3>2
    <3>3. QED
      BY <2>1, <3>1, <3>2 DEF RunSystem
  <2>4. CASE UNCHANGED systemCount
    <3>1. SystemsInLockStep'
      BY <2>2, <2>3, <2>4
    <3>2. QED
      BY <2>2, <2>3, <2>4, <3>1
  <2>5. CASE /\ systemCount' = systemCount + 1
             /\ systemCount' \in SystemIds
             /\ since'[systemCount'] = ticks + 1
    <3>1. SystemsInLockStep'
      <4> SUFFICES ASSUME NEW s \in 1..systemCount'
                   PROVE  runs'[s] = Higher(0, ticks' - since'[s])
                            + (IF pc' = "systems" /\ s <= count' /\ s < place'
                               THEN 1 ELSE 0)
          BY DEF SystemsInLockStep
      <4>1. CASE s = systemCount'
        <5>1. runs[s] = 0 /\ s > count /\ s # place
          BY <2>2, <2>5, <4>1
        <5>2. QED
          BY <2>2, <2>5, <4>1, <5>1
      <4>2. CASE s # systemCount'
        BY <2>2, <2>3, <2>5, <4>2
      <4>3. QED
        BY <4>1, <4>2
    <3>2. \A s \in 1..systemCount' :
            since'[s] = IF s = systemCount' THEN ticks + 1 ELSE since[s]
      BY <2>3, <2>5
    <3>3. QED
      BY <2>2, <2>5, <3>1, <3>2
  <2>6. \/ UNCHANGED systemCount
        \/ /\ systemCount' = systemCount + 1
           /\ systemCount' \in SystemIds
           /\ since'[systemCount'] = ticks + 1
    <3>1. \/ UNCHANGED <<systemCount, since>>
          \/ /\ systemCount < MaxSystems
             /\ systemCount' = systemCount + 1
             /\ since' = [since EXCEPT ![systemCount + 1] = ticks + 1]
      BY <2>1 DEF RunSystem
    <3>2. systemCount < MaxSystems => systemCount + 1 \in SystemIds
      OBVIOUS
    <3>3. QED
      BY <3>1, <3>2
  <2>7. QED
    BY <2>4, <2>5, <2>6
<1>9. CASE CompleteTick
  <2>1. /\ ticks' = ticks + 1 /\ pc' = "tick" /\ pc = "systems"
        /\ place = count + 1
        /\ UNCHANGED <<runs, since, systemCount, count, place>>
    BY <1>9 DEF CompleteTick, PhaseDone
  <2>2. SystemsInLockStep'
    <3> SUFFICES ASSUME NEW s \in 1..systemCount
                 PROVE  runs'[s] = Higher(0, ticks' - since'[s])
                          + (IF pc' = "systems" /\ s <= count' /\ s < place'
                             THEN 1 ELSE 0)
        BY <2>1 DEF SystemsInLockStep
    <3>1. CASE s <= count
      <4>1. since[s] <= ticks /\ since[s] \in Nat
        BY <3>1
      <4>2. runs[s] = (ticks - since[s]) + 1
        BY <2>1, <3>1, <4>1
      <4>3. Higher(0, ticks' - since'[s]) = (ticks - since[s]) + 1
        <5>1. ticks' - since'[s] = (ticks - since[s]) + 1 /\ (ticks - since[s]) + 1 \in Nat
          BY <2>1, <4>1
        <5> HIDE DEF IInv, TypeOK, RunsInv, SystemsInLockStep, Higher, loopVars
        <5>2. QED
          BY <5>1, HigherOfNat
      <4>4. runs'[s] = runs[s] /\ runs'[s] \in Nat /\ pc' # "systems"
        BY <2>1
      <4> HIDE DEF Higher
      <4>5. QED
        BY <4>2, <4>3, <4>4
    <3>2. CASE s > count
      BY <2>1, <3>2
    <3>3. QED
      BY <3>1, <3>2
  <2>3. QED
    BY <2>1, <2>2
<1>10. CASE EndFrame
  BY <1>10 DEF EndFrame, FrameReturns
<1>11. CASE UNCHANGED vars
  BY <1>11 DEF vars
<1>12. QED
  BY <1>1, <1>2, <1>3, <1>4, <1>5, <1>6, <1>7, <1>8, <1>9, <1>10, <1>11 DEF Next, LoopStep

\* The invariant holds throughout.
LEMMA Inductive == SafetySpec => []IInv
<1>1. IInv /\ [Next]_vars => IInv'
  BY TypeStep, FrameStep, ClockStep, RunsStep DEF IInv
<1>2. QED
  BY InitInv, <1>1, PTL DEF SafetySpec

-----------------------------------------------------------------------------
(* The theorems *)

\* The state keeps its types; in particular no counter of dropped ticks goes
\* below zero and no frame plans more than MaxCatchUp ticks.
THEOREM TypeCorrect == SafetySpec => []TypeOK
<1>1. IInv => TypeOK
  BY DEF IInv
<1>2. QED
  BY Inductive, <1>1, PTL

\* Simulated time never runs ahead of the clock.
THEOREM NeverAhead == SafetySpec => []NeverAheadOfClock
<1>1. IInv => NeverAheadOfClock
  BY DEF IInv
<1>2. QED
  BY Inductive, <1>1, PTL

\* A frame runs at most MaxCatchUp ticks, and accounts for all that was due.
THEOREM BooksBalance == SafetySpec => []FrameAccounting
<1>1. IInv => FrameAccounting
  BY OptionsAssumption DEF IInv, TypeOK, FrameInv, FrameAccounting, Higher
<1>2. QED
  BY Inductive, <1>1, PTL

\* What a frame counts as dropped is what it leaves undone.
THEOREM DropsAreTheShortfall == SafetySpec => DropIsTheShortfall
<1>1. IInv /\ [Next]_vars
        => [droppedTicks' # droppedTicks =>
              droppedTicks' - droppedTicks = due - ticks]_vars
  <2> SUFFICES ASSUME IInv, Next, droppedTicks' # droppedTicks
               PROVE  droppedTicks' - droppedTicks = due - ticks
      BY DEF vars
  <2>1. EndFrame
    BY DEF Next, LoopStep, ClockMoves, RegisterSystem, Reschedule, MoveFrom,
           FirstFrame, Frame, BeginTick, RunSystem, CompleteTick, loopVars
  <2>2. QED
    BY <2>1, OptionsAssumption
       DEF EndFrame, TicksToDrop, IInv, TypeOK, FrameInv, Higher
<1>2. QED
  BY Inductive, <1>1, PTL DEF SafetySpec, DropIsTheShortfall

\* Every system has run once in each tick since its registration.
THEOREM LockStep == SafetySpec => []SystemsInLockStep
<1>1. IInv => SystemsInLockStep
  BY DEF IInv, RunsInv
<1>2. QED
  BY Inductive, <1>1, PTL

-----------------------------------------------------------------------------
(* The engine and its log *)

\* What the recorder writes of k ticks: the header and one record without
\* data per tick, from the first; with the trailer, the whole log.
Body(k) ==
    [i \in 1..(HeaderSize + FrameOverhead * k) |->
        IF i <= HeaderSize THEN Header[i]
        ELSE LET j == i - HeaderSize - 1
             IN  IF j % FrameOverhead = 0 THEN Num(j \div FrameOverhead + 1) ELSE Num(0)]
WholeLog(k) == Body(k) \o Trailer(k, Hash(Body(k)))

\* The engine's life: before the run's loop, in it, at its end, and shutting down.
SettingUp == {"made", "schedule", "snapshot"}
Looping == {"frames", "frame", "tick"}
Running == SettingUp \cup Looping \cup {"finish"}
Ended == Running \cup {"finishing"}
ShuttingDown == {"shut world", "shut profiler", "shut logger", "shut"}

\* Where the recorder stands in its file.
RecorderTypes ==
    /\ rec \in [made : BOOLEAN, limit : Nat, bytes : Nat, frames : Nat,
                hashed : {NoRecorder.hashed} \cup {Body(k) : k \in Nat},
                open : BOOLEAN, error : Errors, finished : BOOLEAN]
    /\ finish \in {"no", "trailer", "close", "rename"}
    /\ ~rec.made => rec = NoRecorder /\ finish = "no"
RecorderInv ==
    /\ RecorderTypes
    /\ rec.made =>
         /\ rec.frames <= tick /\ rec.hashed = Body(rec.frames)
         /\ tmp \in {<<>>, Body(rec.frames), WholeLog(rec.frames)} /\ Len(tmp) <= rec.limit
    /\ rec.open =>
         /\ rec.made /\ ~rec.finished /\ rec.bytes = Len(tmp)
         /\ tmp = IF finish = "close" THEN WholeLog(rec.frames) ELSE Body(rec.frames)
    /\ finish # "no" =>
         /\ rec.made /\ ~rec.finished /\ rec.error = "ok" /\ enginePc = "finishing"
         /\ IF finish = "rename" THEN ~rec.open /\ tmp = WholeLog(rec.frames) ELSE rec.open
    /\ rec.made /\ ~rec.open /\ ~rec.finished /\ finish = "no" => rec.error # "ok"
    /\ rec.finished =>
         /\ rec.error = "ok" /\ tmp = <<>> /\ ~rec.open
         /\ final = WholeLog(rec.frames) /\ rec.frames = tick

\* Where the run stands, what its status is, and that a failure of the recorder
\* is kept until the run has ended.
RunInv ==
    /\ replayFail \in Errors /\ runStatus \in Statuses \cup {"none"}
    /\ target \in Targets \cup {0} /\ tick \in Nat /\ ticksLeft \in 0..FrameBudget
    /\ tick + ticksLeft <= MaxTicks /\ failedAt \in Nat /\ failedAt <= tick
    /\ target # 0 => tick + ticksLeft < target + FrameBudget
    /\ failedAt # 0 => tick + ticksLeft < failedAt + FrameBudget
    /\ enginePc \in SettingUp => tick = 0 /\ ticksLeft = 0
    /\ enginePc = "made" => target = 0 /\ runStatus = "none"
    /\ enginePc = "tick" => ticksLeft > 0
    /\ enginePc \in Running =>
         /\ replayFail = rec.error
         /\ failedAt # 0 => replayFail # "ok"
    /\ enginePc \in {"schedule", "snapshot"} \cup Looping => runStatus = "ok"
    /\ enginePc = "finish" /\ replayFail # "ok" => runStatus # "ok"
    /\ enginePc \in Running \ {"tick"} /\ rec.made /\ rec.error = "ok" => rec.frames = tick
    /\ enginePc = "finishing" => runStatus = "ok" /\ rec.made /\ rec.frames = tick

\* What stands at the final path, and in whose name.
FileInv ==
    /\ final = <<>> \/ \E k \in Nat : final = WholeLog(k)
    /\ enginePc \in Ended \cup {"report", "shut loop", "shut recorder"} =>
         /\ recording <=> rec.made
         /\ ~rec.finished => final = before
    /\ enginePc \in Running => ~rec.finished
    /\ enginePc = "finishing" /\ finish = "no" => (rec.finished <=> rec.error = "ok")
    /\ enginePc \in {"report", "shut loop", "shut recorder"} => (rec.finished <=> recording /\ runStatus = "ok")
    /\ enginePc \in ShuttingDown =>
         /\ IF recording /\ runStatus = "ok" THEN final = WholeLog(tick) ELSE final = before
         /\ recording => tmp = <<>>
         /\ ~rec.made

\* What was announced and what was reported of it, while the logger took it.
Outcomes == {"record_finished", "record_aborted"}
ReportOutcomes == {"report_written", "report_write_failed", "report_aborted"}
Alive == enginePc \notin {"none", "shut"}
EventsTell ==
    /\ "record_started" \in events => recording
    /\ "report_started" \in events => report # "no"
    /\ enginePc \in Ended => Outcomes \cap events = {}
    /\ enginePc \in {"report", "shut loop", "shut recorder"} =>
         Outcomes \cap events = IF rec.finished THEN {"record_finished"} ELSE {}
    /\ enginePc \in ShuttingDown /\ recording => \E e \in Outcomes : Outcomes \cap events = {e}
    /\ report # "final" => ReportOutcomes \cap events = {}
    /\ report = "final" => \E e \in ReportOutcomes : ReportOutcomes \cap events = {e}
EventsInv ==
    /\ Alive => IF retired THEN events = {} ELSE EventsTell
    /\ enginePc = "shut" => events = {} \/ EventsTell
    /\ enginePc \in {"shut logger", "shut"} => report # "asked"

RestInv ==
    /\ enginePc \in Ended \cup ShuttingDown \cup {"none", "report", "shut loop", "shut recorder"}
    /\ live \subseteq {"world", "loop", "snapshot", "profiler"}
    /\ stale \in BOOLEAN /\ retired \in BOOLEAN /\ recording \in BOOLEAN
    /\ report \in {"no", "asked", "final"} /\ made \in 0..MaxEngines
    /\ enginePc = "none" => rec = NoRecorder

EngineInv == RecorderInv /\ RunInv /\ FileInv /\ EventsInv /\ RestInv

\* A set of natural numbers that is not empty has a least element.
LEMMA LeastExists ==
    ASSUME NEW T \in SUBSET Nat, T # {}
    PROVE  \E x \in T : \A y \in T : x <= y
<1> DEFINE initial == {1..k : k \in T}
<1>1. \A k \in T : 1..k \in FiniteSubsetsOf(Nat)
  BY FS_Interval DEF FiniteSubsetsOf
<1>2. initial \subseteq FiniteSubsetsOf(Nat) /\ initial # {}
  BY <1>1
<1>3. \E a \in initial : \A b \in initial : <<b, a>> \notin StrictSubsetOrdering(Nat)
  <2> HIDE DEF initial
  <2> QED
    BY <1>2, FS_StrictSubsetOrderingWellFounded, WFMin
<1>4. PICK x \in T : \A b \in initial : <<b, 1..x>> \notin StrictSubsetOrdering(Nat)
  BY <1>3
<1>5. ASSUME NEW y \in T, y < x PROVE FALSE
  <2>1. 1..y \in initial
    OBVIOUS
  <2>2. 1..y \subseteq 1..x /\ x \in 1..x /\ x \notin 1..y
    BY <1>5
  <2>3. 1..y \in SUBSET Nat /\ 1..x \in SUBSET Nat /\ 1..y # 1..x
    BY <2>2
  <2>4. <<1..y, 1..x>> \in StrictSubsetOrdering(Nat)
    BY <2>2, <2>3 DEF StrictSubsetOrdering
  <2>5. QED
    BY <1>4, <2>1, <2>4
<1>6. QED
  BY <1>5

\* What holds of the first and of each one after it holds of all.
LEMMA AllBut ==
    ASSUME NEW n \in Nat, NEW T \in SUBSET (1..n),
           \A i \in 1..n : (i = 1 \/ i - 1 \in T) => i \in T
    PROVE  T = 1..n
<1> DEFINE rest == (1..n) \ T
<1>1. ASSUME rest # {} PROVE FALSE
  <2>1. rest \in SUBSET Nat
    OBVIOUS
  <2>2. PICK i \in rest : \A j \in rest : i <= j
    BY <1>1, <2>1, LeastExists
  <2>3. i \in 1..n /\ i \notin T
    OBVIOUS
  <2>4. i # 1 => i - 1 \in 1..n /\ i - 1 < i
    BY <2>3
  <2>5. i # 1 => i - 1 \in T
    BY <2>2, <2>4
  <2>6. QED
    BY <2>3, <2>5
<1>2. QED
  BY <1>1



-----------------------------------------------------------------------------
(* The log *)

\* What the header and the records are made of, and what the trailer adds.
Data == {"magic", "version", "identity", "number"} \X Nat
Units == Data \cup ({"low hash", "high hash"} \X Seq(Data))

\* Two sequences, one behind the other.
LEMMA Joined ==
    ASSUME NEW S, NEW a \in Seq(S), NEW b \in Seq(S)
    PROVE  /\ a \o b \in Seq(S) /\ Len(a \o b) = Len(a) + Len(b)
           /\ \A i \in 1..Len(a) : (a \o b)[i] = a[i]
           /\ \A i \in 1..Len(b) : (a \o b)[Len(a) + i] = b[i]
  OBVIOUS

LEMMA SameSeq ==
    ASSUME NEW S, NEW a \in Seq(S), NEW b \in Seq(S), Len(a) = Len(b),
           \A i \in 1..Len(b) : a[i] = b[i]
    PROVE  a = b
  OBVIOUS

\* The header has ten units, the magic and the version first.
LEMMA HeaderUnits ==
    /\ Header \in Seq(Data) /\ Len(Header) = HeaderSize
    /\ Header[1] = <<"magic", 1>> /\ Header[2] = <<"version", 1>>
    /\ \A i \in 3..HeaderSize : Header[i] = <<"identity", i - 2>>
<1> DEFINE ids == [k \in 1..(HeaderSize - 2) |-> <<"identity", k>>]
<1>1. HeaderSize = 10 /\ HeaderSize - 2 = 8
  BY DEF HeaderSize
<1>2. ids \in Seq(Data) /\ Len(ids) = 8 /\ \A k \in 1..8 : ids[k] = <<"identity", k>>
  <2>1. \A k \in 1..8 : <<"identity", k>> \in Data
    BY DEF Data
  <2>2. ids \in [1..8 -> Data]
    BY <1>1, <2>1
  <2>3. QED
    BY <1>1, <2>2
<1>3. Magic \in Seq(Data) /\ Len(Magic) = 2 /\ Magic[1] = <<"magic", 1>> /\ Magic[2] = <<"version", 1>>
  BY DEF Magic, Data
<1>4. Header = Magic \o ids
  BY DEF Header
<1> HIDE DEF ids
<1>5. /\ Header \in Seq(Data) /\ Len(Header) = Len(Magic) + Len(ids)
      /\ \A i \in 1..Len(Magic) : Header[i] = Magic[i]
      /\ \A i \in 1..Len(ids) : Header[Len(Magic) + i] = ids[i]
  <2>1. Magic \in Seq(Data) /\ ids \in Seq(Data)
    BY <1>2, <1>3
  <2>2. QED
    BY ONLY <1>4, <2>1, Joined
<1>6. Len(Header) = 10 /\ Header[1] = Magic[1] /\ Header[2] = Magic[2]
  BY <1>2, <1>3, <1>5
<1>7. ASSUME NEW i \in 3..10 PROVE Header[i] = <<"identity", i - 2>>
  <2>1. i - 2 \in 1..8 /\ 2 + (i - 2) = i
    OBVIOUS
  <2>2. Header[2 + (i - 2)] = ids[i - 2]
    BY <1>2, <1>3, <1>5, <2>1
  <2>3. QED
    BY <1>2, <2>1, <2>2
<1>8. QED
  BY <1>1, <1>3, <1>5, <1>6, <1>7

\* The units of the header and k records.
LEMMA BodyUnits ==
    ASSUME NEW k \in Nat
    PROVE  /\ Body(k) \in Seq(Data) /\ Len(Body(k)) = 10 + 3 * k
           /\ \A i \in 1..10 : Body(k)[i] = Header[i]
           /\ \A n \in 0..(k - 1) : /\ Body(k)[11 + 3 * n] = Num(n + 1)
                                    /\ Body(k)[12 + 3 * n] = Num(0)
                                    /\ Body(k)[13 + 3 * n] = Num(0)
<1>1. HeaderSize = 10 /\ FrameOverhead = 3
  BY DEF HeaderSize, FrameOverhead
<1> DEFINE b == Body(k)
           At(i) == IF i <= 10 THEN Header[i]
                    ELSE IF (i - 11) % 3 = 0 THEN Num(((i - 11) \div 3) + 1) ELSE Num(0)
<1>2. b = [i \in 1..(10 + 3 * k) |-> At(i)]
  <2>1. \A i \in 1..(10 + 3 * k) : i - 10 - 1 = i - 11
    OBVIOUS
  <2>2. QED
    BY <1>1, <2>1 DEF Body
<1>3. ASSUME NEW i \in 1..(10 + 3 * k) PROVE At(i) \in Data
  <2>1. CASE i <= 10
    <3>1. Header \in Seq(Data) /\ i \in 1..Len(Header)
      BY <1>1, <2>1, HeaderUnits
    <3>2. Header[i] \in Data
      BY ONLY <3>1, ElementOfSeq
    <3>3. QED
      BY <2>1, <3>2
  <2>2. CASE i > 10
    <3>1. ((i - 11) \div 3) + 1 \in Nat
      BY <2>2
    <3>2. QED
      BY <2>2, <3>1 DEF Data, Num
  <2>3. QED
    BY <2>1, <2>2
<1>4. b \in Seq(Data) /\ Len(b) = 10 + 3 * k
  <2>1. 10 + 3 * k \in Nat
    OBVIOUS
  <2> HIDE DEF At, b
  <2>2. b \in [1..(10 + 3 * k) -> Data]
    BY <1>2, <1>3
  <2>3. QED
    BY <2>1, <2>2
<1>5. \A i \in 1..10 : b[i] = Header[i]
  BY <1>2
<1>6. ASSUME NEW n \in 0..(k - 1)
      PROVE  b[11 + 3 * n] = Num(n + 1) /\ b[12 + 3 * n] = Num(0) /\ b[13 + 3 * n] = Num(0)
  <2>1. 11 + 3 * n \in 1..(10 + 3 * k) /\ 12 + 3 * n \in 1..(10 + 3 * k) /\ 13 + 3 * n \in 1..(10 + 3 * k)
    OBVIOUS
  <2>2. /\ (11 + 3 * n - 11) % 3 = 0 /\ (11 + 3 * n - 11) \div 3 = n
        /\ (12 + 3 * n - 11) % 3 # 0 /\ (13 + 3 * n - 11) % 3 # 0
        /\ ~(11 + 3 * n <= 10) /\ ~(12 + 3 * n <= 10) /\ ~(13 + 3 * n <= 10)
    OBVIOUS
  <2>3. At(11 + 3 * n) = Num(n + 1) /\ At(12 + 3 * n) = Num(0) /\ At(13 + 3 * n) = Num(0)
    BY <2>2
  <2> HIDE DEF At, b
  <2>4. QED
    BY <1>2, <2>1, <2>3
<1>7. QED
  BY <1>4, <1>5, <1>6

LEMMA BodyIsSeq == ASSUME NEW k \in Nat PROVE Body(k) \in Seq(Data)
  BY BodyUnits

LEMMA BodyLength == ASSUME NEW k \in Nat PROVE Len(Body(k)) = 10 + 3 * k
  BY BodyUnits

LEMMA BodyHead == ASSUME NEW k \in Nat PROVE \A i \in 1..10 : Body(k)[i] = Header[i]
  BY BodyUnits

LEMMA BodyRecords ==
    ASSUME NEW k \in Nat, NEW n \in 0..(k - 1)
    PROVE  /\ Body(k)[11 + 3 * n] = Num(n + 1) /\ Body(k)[12 + 3 * n] = Num(0)
           /\ Body(k)[13 + 3 * n] = Num(0)
  BY BodyUnits

\* A place in the records is a tick's, its high word's or a length's.
LEMMA BodyPlace ==
    ASSUME NEW k \in Nat, NEW i \in 11..(10 + 3 * k)
    PROVE  \E n \in 0..(k - 1) : i \in {11 + 3 * n, 12 + 3 * n, 13 + 3 * n}
<1> DEFINE n == (i - 11) \div 3
<1>1. n \in 0..(k - 1) /\ i - 11 \in {3 * n, 3 * n + 1, 3 * n + 2}
  OBVIOUS
<1>2. QED
  BY <1>1

\* The same bodies have the same units.
LEMMA BodyIs ==
    ASSUME NEW k \in Nat, NEW b, b = [i \in 1..(10 + 3 * k) |-> b[i]],
           \A i \in 1..10 : b[i] = Header[i],
           \A n \in 0..(k - 1) : b[11 + 3 * n] = Num(n + 1) /\ b[12 + 3 * n] = Num(0) /\ b[13 + 3 * n] = Num(0)
    PROVE  b = Body(k)
<1>1. ASSUME NEW i \in 1..(10 + 3 * k) PROVE b[i] = Body(k)[i]
  <2>1. CASE i <= 10
    <3>1. i \in 1..10
      BY <2>1
    <3>2. QED
      BY <3>1, BodyHead
  <2>2. CASE i > 10
    <3>1. i \in 11..(10 + 3 * k)
      BY <2>2
    <3>2. PICK n \in 0..(k - 1) : i \in {11 + 3 * n, 12 + 3 * n, 13 + 3 * n}
      BY <3>1, BodyPlace
    <3>3. QED
      BY <3>2, BodyRecords
  <2>3. QED
    BY <2>1, <2>2
<1>2. Body(k) = [i \in 1..(10 + 3 * k) |-> Body(k)[i]]
  <2>1. \A T : \A s \in Seq(T) : s = [i \in 1..Len(s) |-> s[i]]
    OBVIOUS
  <2>2. Body(k) = [i \in 1..Len(Body(k)) |-> Body(k)[i]]
    BY <2>1, BodyIsSeq
  <2>3. QED
    BY <2>2, BodyLength
<1>3. QED
  BY <1>1, <1>2

\* Created, the recorder's file is the header; each tick's record makes it the
\* body of one tick more.
LEMMA BodyBegins == Body(0) = Header
<1>1. Header = [i \in 1..(10 + 3 * 0) |-> Header[i]]
  <2>1. \A T : \A s \in Seq(T) : s = [i \in 1..Len(s) |-> s[i]]
    OBVIOUS
  <2>2. Header = [i \in 1..Len(Header) |-> Header[i]]
    BY <2>1, HeaderUnits
  <2>3. Len(Header) = 10 + 3 * 0
    BY HeaderUnits DEF HeaderSize
  <2>4. QED
    BY <2>2, <2>3
<1>2. 0..(0 - 1) = {}
  OBVIOUS
<1>3. QED
  BY <1>1, <1>2, BodyIs

LEMMA BodyGrows ==
    ASSUME NEW k \in Nat
    PROVE  Body(k) \o FrameRecord(k + 1, <<>>) = Body(k + 1)
<1> DEFINE r == <<Num(k + 1), Num(0), Num(0)>>
           b == Body(k) \o r
<1>1. FrameRecord(k + 1, <<>>) = r
  <2> HIDE DEF r
  <2>1. Len(<<>>) = 0
    OBVIOUS
  <2>2. ASSUME NEW x \in Data, NEW y \in Data, NEW z \in Data
        PROVE  (<<x, y>> \o <<z>>) \o <<>> = <<x, y, z>>
    <3>1. <<x, y>> \o <<z>> = <<x, y, z>>
      <4> DEFINE p == <<x, y>>
                 q == <<z>>
                 u == p \o q
                 v == <<x, y, z>>
      <4>1. p \in Seq(Data) /\ q \in Seq(Data) /\ v \in Seq(Data)
        OBVIOUS
      <4>2. p[1] = x /\ p[2] = y /\ q[1] = z /\ v[1] = x /\ v[2] = y /\ v[3] = z
        OBVIOUS
      <4>3. Len(p) = 2 /\ Len(q) = 1 /\ Len(v) = 3
        OBVIOUS
      <4>4. /\ u \in Seq(Data) /\ Len(u) = Len(p) + Len(q)
            /\ \A i \in 1..Len(p) : u[i] = p[i]
            /\ \A i \in 1..Len(q) : u[Len(p) + i] = q[i]
        <5> HIDE DEF p, q
        <5>1. QED
          BY <4>1, Joined
      <4> HIDE DEF p, q, u, v
      <4>5. Len(u) = Len(v) /\ u[1] = p[1] /\ u[2] = p[2] /\ u[2 + 1] = q[1]
        BY <4>3, <4>4
      <4>6. \A i \in 1..Len(v) : u[i] = v[i]
        BY <4>2, <4>3, <4>5
      <4>7. u = v
        BY <4>1, <4>4, <4>5, <4>6, SameSeq
      <4>8. QED
        BY <4>7 DEF p, q, u, v
    <3>2. <<x, y, z>> \in Seq(Data)
      OBVIOUS
    <3>3. <<x, y, z>> \o <<>> = <<x, y, z>>
      BY <3>2, ConcatEmptySeq
    <3>4. QED
      BY <3>1, <3>3
  <2>3. FrameRecord(k + 1, <<>>) = (<<Num(k + 1), Num(0)>> \o <<Num(0)>>) \o <<>>
    BY <2>1 DEF FrameRecord, U64
  <2>4. Num(k + 1) \in Data /\ Num(0) \in Data
    BY DEF Num, Data
  <2>5. QED
    BY <2>2, <2>3, <2>4 DEF r
<1>2. r \in Seq(Data) /\ Len(r) = 3 /\ r[1] = Num(k + 1) /\ r[2] = Num(0) /\ r[3] = Num(0)
  <2>1. Num(k + 1) \in Data /\ Num(0) \in Data
    BY DEF Num, Data
  <2>2. QED
    BY <2>1
<1> HIDE DEF r
<1>3. Body(k) \in Seq(Data) /\ Len(Body(k)) = 10 + 3 * k
  BY BodyUnits
<1>4. /\ b \in Seq(Data) /\ Len(b) = Len(Body(k)) + Len(r)
      /\ \A i \in 1..Len(Body(k)) : b[i] = Body(k)[i]
      /\ \A i \in 1..Len(r) : b[Len(Body(k)) + i] = r[i]
  <2>1. Body(k) \in Seq(Data) /\ r \in Seq(Data)
    BY <1>3, <1>2
  <2>2. QED
    BY ONLY <2>1, Joined DEF b
<1> HIDE DEF b
<1>5. /\ Len(b) = 10 + 3 * (k + 1)
      /\ \A i \in 1..(10 + 3 * k) : b[i] = Body(k)[i]
      /\ \A i \in 1..3 : b[10 + 3 * k + i] = r[i]
  BY <1>3, <1>2, <1>4
<1>6. ASSUME NEW i \in 1..10 PROVE b[i] = Header[i]
  <2>1. i \in 1..(10 + 3 * k)
    OBVIOUS
  <2>2. b[i] = Body(k)[i]
    BY <1>5, <2>1
  <2>3. QED
    BY <2>2, BodyHead
<1>7. ASSUME NEW n \in 0..k
      PROVE  b[11 + 3 * n] = Num(n + 1) /\ b[12 + 3 * n] = Num(0) /\ b[13 + 3 * n] = Num(0)
  <2>1. CASE n = k
    <3>1. 11 + 3 * n = 10 + 3 * k + 1 /\ 12 + 3 * n = 10 + 3 * k + 2 /\ 13 + 3 * n = 10 + 3 * k + 3
      BY <2>1
    <3>2. b[10 + 3 * k + 1] = r[1] /\ b[10 + 3 * k + 2] = r[2] /\ b[10 + 3 * k + 3] = r[3]
      BY <1>5
    <3>3. QED
      BY <1>2, <2>1, <3>1, <3>2
  <2>2. CASE n < k
    <3>1. n \in 0..(k - 1) /\ 11 + 3 * n \in 1..(10 + 3 * k) /\ 12 + 3 * n \in 1..(10 + 3 * k)
          /\ 13 + 3 * n \in 1..(10 + 3 * k)
      BY <2>2
    <3>2. QED
      BY <1>5, <3>1, BodyRecords
  <2>3. QED
    BY <2>1, <2>2
<1>8. b = Body(k + 1)
  <2>1. k + 1 \in Nat /\ (k + 1) - 1 = k
    OBVIOUS
  <2>2. \A T : \A s \in Seq(T) : s = [i \in 1..Len(s) |-> s[i]]
    OBVIOUS
  <2>3. b = [i \in 1..Len(b) |-> b[i]]
    BY <1>4, <2>2
  <2>4. b = [i \in 1..(10 + 3 * (k + 1)) |-> b[i]]
    BY <1>5, <2>3
  <2>5. \A i \in 1..10 : b[i] = Header[i]
    BY <1>6
  <2>6. \A n \in 0..((k + 1) - 1) :
           b[11 + 3 * n] = Num(n + 1) /\ b[12 + 3 * n] = Num(0) /\ b[13 + 3 * n] = Num(0)
    BY <1>7, <2>1
  <2>7. k + 1 \in Nat
    OBVIOUS
  <2>8. QED
    BY ONLY <2>4, <2>5, <2>6, <2>7, BodyIs
<1>9. QED
  BY <1>1, <1>8 DEF b

\* The units of a whole log.
LEMMA LogUnits ==
    ASSUME NEW k \in Nat
    PROVE  /\ WholeLog(k) \in Seq(Units) /\ Len(WholeLog(k)) = 14 + 3 * k
           /\ \A i \in 1..(10 + 3 * k) : WholeLog(k)[i] = Body(k)[i]
           /\ WholeLog(k)[11 + 3 * k] = Num(k) /\ WholeLog(k)[12 + 3 * k] = Num(0)
           /\ WholeLog(k)[13 + 3 * k] = <<"low hash", Body(k)>>
           /\ WholeLog(k)[14 + 3 * k] = <<"high hash", Body(k)>>
<1> DEFINE b == Body(k)
           t == Trailer(k, Hash(Body(k)))
<1>1. b \in Seq(Data) /\ Len(b) = 10 + 3 * k
  BY BodyUnits
<1>2. b \in Seq(Units)
  <2>1. Data \subseteq Units
    BY DEF Units
  <2>2. \A i \in 1..Len(b) : b[i] \in Units
    BY <1>1, <2>1, ElementOfSeq
  <2> HIDE DEF b
  <2>3. b \in [1..Len(b) -> Units] /\ Len(b) \in Nat
    BY <1>1, <2>2
  <2>4. QED
    BY <2>3
<1>3. t \in Seq(Units) /\ Len(t) = 4 /\ t[1] = Num(k) /\ t[2] = Num(0)
      /\ t[3] = <<"low hash", b>> /\ t[4] = <<"high hash", b>>
  <2> DEFINE c == <<Num(k), Num(0)>>
             h == <<<<"low hash", b>>, <<"high hash", b>>>>
  <2>1. Num(k) \in Units /\ Num(0) \in Units
    BY DEF Num, Data, Units
  <2>2. <<"low hash", b>> \in Units /\ <<"high hash", b>> \in Units
    <3> HIDE DEF b
    <3>1. QED
      BY <1>1 DEF Units
  <2>3. t = c \o h
    BY DEF Trailer, U64, Hash
  <2>4. c \in Seq(Units) /\ Len(c) = 2 /\ c[1] = Num(k) /\ c[2] = Num(0)
    BY <2>1
  <2>5. h \in Seq(Units) /\ Len(h) = 2 /\ h[1] = <<"low hash", b>> /\ h[2] = <<"high hash", b>>
    <3>1. \A x, y \in Units : /\ <<x, y>> \in Seq(Units) /\ Len(<<x, y>>) = 2
                              /\ <<x, y>>[1] = x /\ <<x, y>>[2] = y
      OBVIOUS
    <3>2. QED
      BY ONLY <2>2, <3>1
  <2> HIDE DEF c, h, t, b
  <2>6. /\ t \in Seq(Units) /\ Len(t) = Len(c) + Len(h)
        /\ \A i \in 1..Len(c) : t[i] = c[i]
        /\ \A i \in 1..Len(h) : t[Len(c) + i] = h[i]
    <3>1. c \in Seq(Units) /\ h \in Seq(Units)
      BY <2>4, <2>5
    <3>2. QED
      BY ONLY <2>3, <3>1, Joined
  <2>7. Len(c) = 2 /\ Len(h) = 2
    BY <2>4, <2>5
  <2>8. /\ Len(t) = Len(c) + Len(h)
        /\ \A i \in 1..Len(c) : t[i] = c[i]
        /\ \A i \in 1..Len(h) : t[Len(c) + i] = h[i]
    BY <2>6
  <2>9. t[1] = c[1] /\ t[2] = c[2] /\ t[2 + 1] = h[1] /\ t[2 + 2] = h[2] /\ Len(t) = 4
    BY ONLY <2>7, <2>8
  <2>10. t[3] = h[1] /\ t[4] = h[2]
    BY <2>9
  <2>11. QED
    BY <2>4, <2>5, <2>6, <2>9, <2>10
<1>4. WholeLog(k) = b \o t
  BY DEF WholeLog
<1> HIDE DEF b, t
<1> DEFINE log == WholeLog(k)
<1>5. /\ log \in Seq(Units) /\ Len(log) = Len(b) + Len(t)
      /\ \A i \in 1..Len(b) : log[i] = b[i]
      /\ \A i \in 1..Len(t) : log[Len(b) + i] = t[i]
  <2>1. b \in Seq(Units) /\ t \in Seq(Units)
    BY <1>2, <1>3
  <2>2. QED
    BY ONLY <1>4, <2>1, Joined
<1> HIDE DEF log
<1>6. /\ Len(log) = 14 + 3 * k
      /\ \A i \in 1..(10 + 3 * k) : log[i] = b[i]
      /\ log[10 + 3 * k + 1] = t[1] /\ log[10 + 3 * k + 2] = t[2]
      /\ log[10 + 3 * k + 3] = t[3] /\ log[10 + 3 * k + 4] = t[4]
  <2>1. Len(b) = 10 + 3 * k /\ Len(t) = 4
    BY <1>1, <1>3
  <2>2. /\ Len(log) = Len(b) + Len(t)
        /\ \A i \in 1..Len(b) : log[i] = b[i]
        /\ \A i \in 1..Len(t) : log[Len(b) + i] = t[i]
    BY <1>5
  <2>3. k \in Nat
    OBVIOUS
  <2>4. QED
    BY ONLY <2>1, <2>2, <2>3
<1>7. /\ 11 + 3 * k = 10 + 3 * k + 1 /\ 12 + 3 * k = 10 + 3 * k + 2
      /\ 13 + 3 * k = 10 + 3 * k + 3 /\ 14 + 3 * k = 10 + 3 * k + 4
  OBVIOUS
<1>8. QED
  BY <1>3, <1>5, <1>6, <1>7 DEF b, log

\* Two units in a row, and the beginning of a sequence.
LEMMA PairAt ==
    ASSUME NEW S, NEW s \in Seq(S), NEW p \in Nat \ {0}, p + 1 <= Len(s)
    PROVE  SubSeq(s, p, p + 1) = <<s[p], s[p + 1]>>
<1> DEFINE u == SubSeq(s, p, p + 1)
           v == <<s[p], s[p + 1]>>
<1>1. p \in 1..Len(s) /\ p + 1 \in 1..Len(s) /\ Len(s) \in Nat
  OBVIOUS
<1>2. s[p] \in S /\ s[p + 1] \in S
  BY <1>1, ElementOfSeq
<1>3. v \in Seq(S) /\ v[1] = s[p] /\ v[2] = s[p + 1] /\ Len(v) = 2
  BY <1>2
<1>4. \A i \in p..(p + 1) : s[i] \in S
  BY <1>2
<1>5. u = [i \in 1..2 |-> s[p + i - 1]]
  <2>1. (p + 1) - p + 1 = 2
    OBVIOUS
  <2>2. u = [i \in 1..((p + 1) - p + 1) |-> s[i + p - 1]]
    OBVIOUS
  <2>3. QED
    BY <2>1, <2>2
<1>6. p + 1 - 1 = p /\ p + 2 - 1 = p + 1 /\ 1..2 = {1, 2}
  OBVIOUS
<1>7. v = [i \in 1..2 |-> v[i]]
  OBVIOUS
<1> HIDE DEF u, v
<1>8. \A i \in 1..2 : s[p + i - 1] = v[i]
  BY <1>3, <1>6
<1>9. u = v
  BY <1>5, <1>7, <1>8
<1>10. QED
  BY <1>9 DEF u, v

LEMMA PrefixIs ==
    ASSUME NEW S, NEW s \in Seq(S), NEW T, NEW b \in Seq(T), Len(b) <= Len(s),
           \A i \in 1..Len(b) : s[i] = b[i]
    PROVE  SubSeq(s, 1, Len(b)) = b
<1>1. b = [i \in 1..Len(b) |-> b[i]] /\ Len(b) \in Nat /\ Len(s) \in Nat
  OBVIOUS
<1>2. ASSUME NEW n \in Nat, n <= Len(s) PROVE SubSeq(s, 1, n) = [i \in 1..n |-> s[i]]
  <2>1. SubSeq(s, 1, n) = [i \in 1..(n - 1 + 1) |-> s[i + 1 - 1]]
    OBVIOUS
  <2>2. n - 1 + 1 = n /\ \A i \in 1..n : i + 1 - 1 = i
    OBVIOUS
  <2>3. QED
    BY <2>1, <2>2
<1>3. SubSeq(s, 1, Len(b)) = [i \in 1..Len(b) |-> s[i]]
  BY <1>1, <1>2
<1>4. [i \in 1..Len(b) |-> s[i]] = [i \in 1..Len(b) |-> b[i]]
  OBVIOUS
<1>5. QED
  BY <1>1, <1>3, <1>4

\* One turn of the reader's loop at p, if rest are the records behind; and the
\* whole loop, if f reads those.
Turn(file, end, p, rest) ==
    LET room == end - p + 1
        len == file[p + 2]
    IN  IF /\ room >= FrameOverhead
           /\ len[1] = "number"
           /\ len[2] <= MaxFrameData
           /\ room >= FrameOverhead + len[2]
           /\ rest.ok
        THEN [ok |-> TRUE,
              frames |-> <<[tick |-> SubSeq(file, p, p + 1),
                            data |-> SubSeq(file, p + FrameOverhead,
                                p + FrameOverhead + len[2] - 1)]>>
                         \o rest.frames]
        ELSE Malformed
Behind(file, p) == p + FrameOverhead + file[p + 2][2]
RecordAt(file, end, p, f) ==
    IF p > end THEN [ok |-> TRUE, frames |-> <<>>] ELSE Turn(file, end, p, f[Behind(file, p)])
Reads(file, end, f) == f = [p \in Nat |-> RecordAt(file, end, p, f)]

\* A turn looks only at what is behind.
LEMMA RecordAtSame ==
    ASSUME NEW file, NEW end \in Nat, NEW p \in Nat, NEW f, NEW g,
           p <= end => f[Behind(file, p)] = g[Behind(file, p)]
    PROVE  RecordAt(file, end, p, f) = RecordAt(file, end, p, g)
<1>1. CASE p > end
  BY <1>1 DEF RecordAt
<1>2. CASE p <= end
  <2>1. f[Behind(file, p)] = g[Behind(file, p)]
    BY <1>2
  <2>2. QED
    BY <1>2, <2>1 DEF RecordAt
<1>3. QED
  BY <1>1, <1>2

\* Where lengths are numbers there is such a reader, so RecordsOf chooses one.
LEMMA ReaderExists ==
    ASSUME NEW file, NEW end \in Nat, \A p \in 0..end : file[p + 2][2] \in Nat
    PROVE  \E f : Reads(file, end, f)
<1> DEFINE n == end + 1
           From(m, f) == \A p \in Nat : p > end - m => f[p] = RecordAt(file, end, p, f)
           T == {m \in 1..n : \E f : f = [p \in Nat |-> f[p]] /\ From(m, f)}
<1>1. ASSUME NEW p \in Nat, p <= end PROVE Behind(file, p) \in Nat /\ Behind(file, p) > p
  <2>1. file[p + 2][2] \in Nat
    BY <1>1
  <2>2. QED
    BY <2>1 DEF FrameOverhead, Behind
<1>2. ASSUME NEW m \in 1..n, m = 1 \/ m - 1 \in T PROVE m \in T
  <2>1. \E g : From(m - 1, g)
    <3>1. CASE m = 1
      <4> DEFINE g == [p \in Nat |-> [ok |-> TRUE, frames |-> <<>>]]
      <4>1. ASSUME NEW p \in Nat, p > end - 0 PROVE g[p] = RecordAt(file, end, p, g)
        BY <4>1 DEF RecordAt
      <4>2. From(0, g)
        BY <4>1
      <4>3. m - 1 = 0
        BY <3>1
      <4>4. QED
        BY <4>2, <4>3
    <3>2. CASE m # 1
      BY <1>2, <3>2
    <3>3. QED
      BY <3>1, <3>2
  <2>2. PICK g : From(m - 1, g)
    BY <2>1
  <2> DEFINE f == [p \in Nat |-> IF p > end - (m - 1) THEN g[p] ELSE RecordAt(file, end, p, g)]
  <2>3. ASSUME NEW p \in Nat, p > end - m PROVE f[p] = RecordAt(file, end, p, f)
    <3>1. f[p] = RecordAt(file, end, p, g)
      BY <2>2
    <3>2. ASSUME p <= end PROVE f[Behind(file, p)] = g[Behind(file, p)]
      <4>1. Behind(file, p) \in Nat /\ Behind(file, p) > end - (m - 1)
        BY <1>1, <2>3, <3>2
      <4>2. QED
        BY <4>1
    <3> HIDE DEF f
    <3>3. RecordAt(file, end, p, f) = RecordAt(file, end, p, g)
      BY <3>2, RecordAtSame
    <3>4. QED
      BY <3>1, <3>3
  <2>4. f = [p \in Nat |-> f[p]]
    OBVIOUS
  <2> HIDE DEF f
  <2>5. From(m, f)
    BY <2>3
  <2>6. QED
    BY <2>4, <2>5
<1>3. T = 1..n
  <2>1. T \in SUBSET (1..n) /\ n \in Nat
    OBVIOUS
  <2>2. \A m \in 1..n : (m = 1 \/ m - 1 \in T) => m \in T
    BY <1>2
  <2> HIDE DEF T, n
  <2>3. QED
    BY <2>1, <2>2, AllBut
<1>4. n \in T
  BY <1>3
<1>5. PICK f : f = [p \in Nat |-> f[p]] /\ From(n, f)
  BY <1>4
<1>6. \A p \in Nat : f[p] = RecordAt(file, end, p, f)
  BY <1>5
<1>7. f = [p \in Nat |-> RecordAt(file, end, p, f)]
  BY <1>5, <1>6
<1>8. QED
  BY <1>7 DEF Reads

LEMMA RecordsOfReads ==
    ASSUME NEW file, NEW end \in Nat, \A p \in 0..end : file[p + 2][2] \in Nat
    PROVE  \E f : Reads(file, end, f) /\ RecordsOf(file, end) = f[HeaderSize + 1]
<1> DEFINE f == CHOOSE f : Reads(file, end, f)
<1>1. Reads(file, end, f)
  BY ReaderExists
<1>2. RecordsOf(file, end) = f[HeaderSize + 1]
  BY DEF RecordsOf, Reads, RecordAt, Turn, Behind
<1>3. QED
  BY <1>1, <1>2

\* The reader, given the header and k records, reads k frames in tick order
\* whatever the trailer's count is.
LEMMA TurnOfRecord ==
    ASSUME NEW file, NEW k \in Nat, NEW n \in 0..(k - 1), NEW rest, rest.ok,
           NEW S, file \in Seq(S), 13 + 3 * k <= Len(file),
           file[11 + 3 * n] = Num(n + 1), file[12 + 3 * n] = Num(0), file[13 + 3 * n] = Num(0)
    PROVE  /\ Behind(file, 11 + 3 * n) = 11 + 3 * (n + 1)
           /\ Turn(file, 10 + 3 * k, 11 + 3 * n, rest) =
                [ok |-> TRUE,
                 frames |-> <<[tick |-> U64(n + 1), data |-> SubSeq(file, 14 + 3 * n, 13 + 3 * n)]>>
                            \o rest.frames]
<1> DEFINE p == 11 + 3 * n
<1>1. file[p + 2][1] = "number" /\ file[p + 2][2] = 0
  <2>1. p + 2 = 13 + 3 * n
    OBVIOUS
  <2>2. QED
    BY <2>1 DEF Num
<1>2. SubSeq(file, p, p + 1) = U64(n + 1)
  <2>1. p \in Nat \ {0} /\ p + 1 <= Len(file)
    OBVIOUS
  <2>2. SubSeq(file, p, p + 1) = <<file[p], file[p + 1]>>
    BY <2>1, PairAt
  <2>3. p + 1 = 12 + 3 * n
    OBVIOUS
  <2>4. QED
    BY <2>2, <2>3 DEF U64
<1>3. FrameOverhead = 3 /\ 0 <= MaxFrameData
  BY EngineAssumption DEF FrameOverhead
<1>4. p + 3 + 0 = 11 + 3 * (n + 1) /\ p + 3 = 14 + 3 * n /\ p + 3 + 0 - 1 = 13 + 3 * n
  OBVIOUS
<1>5. (10 + 3 * k) - p + 1 >= 3 /\ (10 + 3 * k) - p + 1 >= 3 + 0
  OBVIOUS
<1> HIDE DEF p
<1>6. Behind(file, p) = 11 + 3 * (n + 1)
  BY <1>1, <1>3, <1>4 DEF Behind
<1>7. Turn(file, 10 + 3 * k, p, rest) =
        [ok |-> TRUE,
         frames |-> <<[tick |-> U64(n + 1), data |-> SubSeq(file, 14 + 3 * n, 13 + 3 * n)]>>
                    \o rest.frames]
  BY <1>1, <1>2, <1>3, <1>4, <1>5 DEF Turn
<1>8. QED
  BY <1>6, <1>7 DEF p

LEMMA ReadsBody ==
    ASSUME NEW k \in Nat, NEW S, NEW file \in Seq(S), 14 + 3 * k = Len(file),
           \A i \in 1..(10 + 3 * k) : file[i] = Body(k)[i],
           file[11 + 3 * k][2] \in Nat, file[12 + 3 * k][2] \in Nat
    PROVE  LET read == RecordsOf(file, 10 + 3 * k)
           IN  read.ok /\ Len(read.frames) = k /\ InTickOrder(read.frames)
<1> DEFINE end == 10 + 3 * k
           Rec(n) == [tick |-> U64(n + 1), data |-> SubSeq(file, 14 + 3 * n, 13 + 3 * n)]
           R == {Rec(n) : n \in Nat}
<1>1. end \in Nat /\ \A p \in 0..end : file[p + 2][2] \in Nat
  <2>1. ASSUME NEW p \in 0..end PROVE file[p + 2][2] \in Nat
    <3>1. CASE p + 2 <= end
      <4>1. p + 2 \in 1..end
        BY <3>1
      <4>2. Body(k)[p + 2] \in Data
        BY <4>1, BodyIsSeq, BodyLength, ElementOfSeq
      <4>3. file[p + 2] \in Data
        BY <4>1, <4>2
      <4>4. QED
        BY <4>3 DEF Data
    <3>2. CASE p + 2 = 11 + 3 * k
      BY <3>2
    <3>3. CASE p + 2 = 12 + 3 * k
      BY <3>3
    <3>4. QED
      BY <3>1, <3>2, <3>3
  <2>2. QED
    BY <2>1
<1>2. PICK f : Reads(file, end, f) /\ RecordsOf(file, end) = f[HeaderSize + 1]
  <2> HIDE DEF end
  <2>1. QED
    BY <1>1, RecordsOfReads
<1>3. ASSUME NEW p \in Nat PROVE f[p] = RecordAt(file, end, p, f)
  BY <1>2 DEF Reads
<1> DEFINE Read(m, r) == /\ r.ok /\ r.frames \in Seq(R) /\ Len(r.frames) = m
                         /\ \A i \in 1..m : r.frames[i] = Rec(k - m + i - 1)
           T == {j \in 1..(k + 1) : Read(j - 1, f[11 + 3 * (k - (j - 1))])}
<1>4. Read(0, f[11 + 3 * (k - 0)])
  <2>1. 11 + 3 * (k - 0) \in Nat /\ 11 + 3 * (k - 0) > end
    OBVIOUS
  <2>2. f[11 + 3 * (k - 0)] = [ok |-> TRUE, frames |-> <<>>]
    BY <1>3, <2>1 DEF RecordAt
  <2>3. <<>> \in Seq(R) /\ Len(<<>>) = 0 /\ 1..0 = {}
    OBVIOUS
  <2> HIDE DEF R, Rec
  <2>4. QED
    BY <2>2, <2>3
<1>5. ASSUME NEW m \in 0..(k - 1), Read(m, f[11 + 3 * (k - m)])
      PROVE  Read(m + 1, f[11 + 3 * (k - (m + 1))])
  <2> DEFINE n == k - (m + 1)
             rest == f[11 + 3 * (k - m)]
             this == f[11 + 3 * n]
             one == <<Rec(n)>>
  <2>1. n \in 0..(k - 1) /\ n + 1 = k - m /\ 11 + 3 * n \in Nat /\ ~(11 + 3 * n > end)
    OBVIOUS
  <2>2. file[11 + 3 * n] = Num(n + 1) /\ file[12 + 3 * n] = Num(0) /\ file[13 + 3 * n] = Num(0)
    <3>1. 11 + 3 * n \in 1..(10 + 3 * k) /\ 12 + 3 * n \in 1..(10 + 3 * k)
          /\ 13 + 3 * n \in 1..(10 + 3 * k)
      OBVIOUS
    <3>2. QED
      <4> HIDE DEF n
      <4>1. QED
        BY <2>1, <3>1, BodyRecords
  <2>3. 13 + 3 * k <= Len(file)
    OBVIOUS
  <2>4. rest.ok /\ rest.frames \in Seq(R) /\ Len(rest.frames) = m
        /\ \A i \in 1..m : rest.frames[i] = Rec(k - m + i - 1)
    BY <1>5
  <2>5. rest.ok
    BY <2>4
  <2>6. /\ Behind(file, 11 + 3 * n) = 11 + 3 * (n + 1)
        /\ Turn(file, end, 11 + 3 * n, rest) = [ok |-> TRUE, frames |-> one \o rest.frames]
    <3>1. file \in Seq(S) /\ k \in Nat
      OBVIOUS
    <3> HIDE DEF n, rest
    <3>2. QED
      BY ONLY <2>1, <2>2, <2>3, <2>5, <3>1, TurnOfRecord
  <2>7. this = [ok |-> TRUE, frames |-> one \o rest.frames]
    <3>1. this = RecordAt(file, end, 11 + 3 * n, f)
      BY <1>3, <2>1
    <3>2. f[Behind(file, 11 + 3 * n)] = rest
      BY <2>1, <2>6
    <3> HIDE DEF n, rest, end, one, this
    <3>3. QED
      BY <2>1, <2>6, <3>1, <3>2 DEF RecordAt
  <2>8. one \in Seq(R) /\ Len(one) = 1 /\ one[1] = Rec(n)
    <3>1. Rec(n) \in R
      <4>1. \A x \in Nat : Rec(x) \in R
        OBVIOUS
      <4>2. n \in Nat
        BY <2>1
      <4> HIDE DEF R, Rec, n
      <4>3. QED
        BY <4>1, <4>2
    <3> HIDE DEF R, Rec, n
    <3>2. QED
      BY <3>1
  <2> DEFINE both == one \o rest.frames
  <2>9. this.ok /\ this.frames = both
    <3> HIDE DEF one, rest, this
    <3>1. QED
      BY <2>7
  <2>10. /\ both \in Seq(R) /\ Len(both) = Len(one) + Len(rest.frames)
         /\ \A i \in 1..Len(one) : both[i] = one[i]
         /\ \A i \in 1..Len(rest.frames) : both[Len(one) + i] = rest.frames[i]
    <3> HIDE DEF one, rest, R
    <3>1. one \in Seq(R) /\ rest.frames \in Seq(R)
      BY <2>4, <2>8
    <3>2. QED
      BY ONLY <3>1, Joined
  <2> HIDE DEF both, one, rest, this, R
  <2>11. /\ Len(both) = m + 1 /\ both[1] = Rec(n)
         /\ \A i \in 1..m : both[1 + i] = Rec(k - m + i - 1)
    <3> HIDE DEF Rec, n
    <3>1. Len(one) = 1 /\ Len(rest.frames) = m /\ one[1] = Rec(n)
          /\ \A i \in 1..m : rest.frames[i] = Rec(k - m + i - 1)
      BY <2>4, <2>8
    <3>2. /\ Len(both) = Len(one) + Len(rest.frames)
          /\ \A i \in 1..Len(one) : both[i] = one[i]
          /\ \A i \in 1..Len(rest.frames) : both[Len(one) + i] = rest.frames[i]
      BY <2>10
    <3>3. Len(both) = 1 + m /\ both[1] = Rec(n) /\ \A i \in 1..m : both[1 + i] = rest.frames[i]
      BY ONLY <3>1, <3>2
    <3>4. 1 + m = m + 1
      OBVIOUS
    <3>5. QED
      BY <3>1, <3>3, <3>4
  <2>12. ASSUME NEW i \in 1..(m + 1) PROVE both[i] = Rec(k - (m + 1) + i - 1)
    <3> HIDE DEF Rec
    <3>1. CASE i = 1
      <4>1. k - (m + 1) + i - 1 = n
        BY <3>1
      <4>2. QED
        BY <2>11, <3>1, <4>1
    <3>2. CASE i # 1
      <4>1. i - 1 \in 1..m /\ 1 + (i - 1) = i /\ k - (m + 1) + i - 1 = k - m + (i - 1) - 1
        BY <3>2
      <4>2. QED
        BY <2>11, <4>1
    <3>3. QED
      BY <3>1, <3>2
  <2> HIDE DEF Rec
  <2>13. this.ok /\ this.frames \in Seq(R) /\ Len(this.frames) = m + 1
         /\ \A i \in 1..(m + 1) : this.frames[i] = Rec(k - (m + 1) + i - 1)
    BY <2>9, <2>10, <2>11, <2>12
  <2>14. QED
    BY <2>13 DEF this
<1> HIDE DEF Read
<1>6. ASSUME NEW j \in 1..(k + 1), j = 1 \/ j - 1 \in T PROVE j \in T
  <2>1. CASE j = 1
    <3>1. j - 1 = 0
      BY <2>1
    <3>2. QED
      BY <1>4, <3>1
  <2>2. CASE j # 1
    <3>1. j - 1 \in T
      BY <1>6, <2>2
    <3>2. Read((j - 1) - 1, f[11 + 3 * (k - ((j - 1) - 1))])
      BY <3>1
    <3>3. (j - 1) - 1 \in 0..(k - 1) /\ ((j - 1) - 1) + 1 = j - 1
      BY <2>2
    <3>4. Read(((j - 1) - 1) + 1, f[11 + 3 * (k - (((j - 1) - 1) + 1))])
      BY <1>5, <3>2, <3>3
    <3>5. QED
      BY <3>3, <3>4
  <2>3. QED
    BY <2>1, <2>2
<1>7. T = 1..(k + 1)
  <2>1. T \in SUBSET (1..(k + 1)) /\ k + 1 \in Nat
    OBVIOUS
  <2>2. \A j \in 1..(k + 1) : (j = 1 \/ j - 1 \in T) => j \in T
    BY <1>6
  <2> HIDE DEF T
  <2>3. QED
    BY <2>1, <2>2, AllBut
<1>8. Read(k, f[11])
  <2>1. k + 1 \in T
    <3> HIDE DEF T
    <3>1. k + 1 \in 1..(k + 1)
      OBVIOUS
    <3>2. QED
      BY <1>7, <3>1
  <2>2. (k + 1) - 1 = k /\ 11 + 3 * (k - k) = 11
    OBVIOUS
  <2>3. Read((k + 1) - 1, f[11 + 3 * (k - ((k + 1) - 1))])
    BY <2>1
  <2>4. QED
    BY <2>2, <2>3
<1>9. f[11].ok /\ Len(f[11].frames) = k /\ f[11].frames \in Seq(R)
      /\ \A i \in 1..k : f[11].frames[i] = Rec(k - k + i - 1)
  BY <1>8 DEF Read
<1>10. InTickOrder(f[11].frames)
  <2>1. DOMAIN f[11].frames = 1..k
    BY <1>9
  <2>2. ASSUME NEW i \in 1..k PROVE f[11].frames[i].tick = U64(i)
    <3>1. k - k + i - 1 = i - 1 /\ (i - 1) + 1 = i
      OBVIOUS
    <3>2. f[11].frames[i] = Rec(i - 1)
      BY <1>9, <3>1
    <3>3. QED
      BY <3>1, <3>2
  <2>3. QED
    BY <2>1, <2>2 DEF InTickOrder
<1>11. HeaderSize + 1 = 11
  BY DEF HeaderSize
<1>12. QED
  BY <1>2, <1>9, <1>10, <1>11

LEMMA LogIsSeq == ASSUME NEW k \in Nat PROVE WholeLog(k) \in Seq(Units)
  BY LogUnits

LEMMA LogLength == ASSUME NEW k \in Nat PROVE Len(WholeLog(k)) = 14 + 3 * k
  BY LogUnits

LEMMA LogBody == ASSUME NEW k \in Nat PROVE \A i \in 1..(10 + 3 * k) : WholeLog(k)[i] = Body(k)[i]
  BY LogUnits

LEMMA LogTrailer ==
    ASSUME NEW k \in Nat
    PROVE  /\ WholeLog(k)[11 + 3 * k] = Num(k) /\ WholeLog(k)[12 + 3 * k] = Num(0)
           /\ WholeLog(k)[13 + 3 * k] = <<"low hash", Body(k)>>
           /\ WholeLog(k)[14 + 3 * k] = <<"high hash", Body(k)>>
  BY LogUnits

\* The beginning of a sequence.
LEMMA CutIs ==
    ASSUME NEW S, NEW s \in Seq(S), NEW n \in 0..Len(s)
    PROVE  /\ SubSeq(s, 1, n) \in Seq(S) /\ Len(SubSeq(s, 1, n)) = n
           /\ \A i \in 1..n : SubSeq(s, 1, n)[i] = s[i]
<1>1. Len(s) \in Nat /\ n \in Nat /\ n <= Len(s)
  OBVIOUS
<1>2. SubSeq(s, 1, n) = [i \in 1..n |-> s[i]]
  <2>1. SubSeq(s, 1, n) = [i \in 1..(n - 1 + 1) |-> s[i + 1 - 1]]
    OBVIOUS
  <2>2. n - 1 + 1 = n /\ \A i \in 1..n : i + 1 - 1 = i
    BY <1>1
  <2>3. QED
    BY <2>1, <2>2
<1>3. \A i \in 1..n : s[i] \in S
  BY <1>1, ElementOfSeq
<1>4. QED
  BY <1>1, <1>2, <1>3

\* What the reader accepts ends with the hash of what is before the trailer and
\* the count of its records.
LEMMA AcceptedEnd ==
    ASSUME NEW S, NEW file \in Seq(S), Parse(file).ok
    PROVE  LET end == Len(file) - 4
           IN  /\ end >= 10 /\ Parse(file) = RecordsOf(file, end)
               /\ file[end + 1] = Num(Len(RecordsOf(file, end).frames)) /\ file[end + 2] = Num(0)
               /\ file[end + 3] = <<"low hash", SubSeq(file, 1, end)>>
               /\ file[end + 4] = <<"high hash", SubSeq(file, 1, end)>>
<1> DEFINE end == Len(file) - 4
<1>1. HeaderSize = 10 /\ TrailerSize = 4 /\ ~Malformed.ok
  BY DEF HeaderSize, TrailerSize, Malformed
<1>2. /\ end >= 10 /\ Parse(file) = RecordsOf(file, end)
      /\ SubSeq(file, end + 1, end + 2) = U64(Len(RecordsOf(file, end).frames))
      /\ SubSeq(file, end + 3, end + 4) = Hash(SubSeq(file, 1, end))
  BY <1>1 DEF Parse
<1>3. end \in Int /\ Len(file) \in Nat /\ Len(file) = end + 4
  OBVIOUS
<1> HIDE DEF end
<1>4. /\ end + 1 \in Nat \ {0} /\ (end + 1) + 1 <= Len(file) /\ (end + 1) + 1 = end + 2
      /\ end + 3 \in Nat \ {0} /\ (end + 3) + 1 <= Len(file) /\ (end + 3) + 1 = end + 4
  BY <1>2, <1>3
<1>5. /\ SubSeq(file, end + 1, end + 2) = <<file[end + 1], file[end + 2]>>
      /\ SubSeq(file, end + 3, end + 4) = <<file[end + 3], file[end + 4]>>
  <2>1. SubSeq(file, end + 1, (end + 1) + 1) = <<file[end + 1], file[(end + 1) + 1]>>
    BY <1>4, PairAt
  <2>2. SubSeq(file, end + 3, (end + 3) + 1) = <<file[end + 3], file[(end + 3) + 1]>>
    BY <1>4, PairAt
  <2>3. QED
    BY ONLY <1>4, <2>1, <2>2
<1>6. /\ <<file[end + 1], file[end + 2]>> = <<Num(Len(RecordsOf(file, end).frames)), Num(0)>>
      /\ <<file[end + 3], file[end + 4]>>
           = <<<<"low hash", SubSeq(file, 1, end)>>, <<"high hash", SubSeq(file, 1, end)>>>>
  BY <1>2, <1>5 DEF U64, Hash
<1>7. \A a, b, c, d : <<a, b>> = <<c, d>> => a = c /\ b = d
  OBVIOUS
<1>8. QED
  BY <1>2, <1>6, <1>7 DEF end

\* The reader accepts a whole log, and reads a frame per record.
LEMMA LogParses ==
    ASSUME NEW k \in Nat
    PROVE  Parse(WholeLog(k)).ok /\ Len(Parse(WholeLog(k)).frames) = k
<1> DEFINE file == WholeLog(k)
           end == 10 + 3 * k
           body == RecordsOf(file, end)
<1>1. file \in Seq(Units)
  BY LogIsSeq
<1>2. Len(file) = 14 + 3 * k
  BY LogLength
<1>3. \A i \in 1..end : file[i] = Body(k)[i]
  BY LogBody
<1>4. /\ file[11 + 3 * k] = Num(k) /\ file[12 + 3 * k] = Num(0)
      /\ file[13 + 3 * k] = <<"low hash", Body(k)>>
      /\ file[14 + 3 * k] = <<"high hash", Body(k)>>
  BY LogTrailer
<1> HIDE DEF file
<1>5. body.ok /\ Len(body.frames) = k /\ InTickOrder(body.frames)
  <2>1. Num(k)[2] \in Nat /\ Num(0)[2] \in Nat
    BY DEF Num
  <2>2. file[11 + 3 * k][2] \in Nat /\ file[12 + 3 * k][2] \in Nat
    BY <1>4, <2>1
  <2>3. 14 + 3 * k = Len(file)
    BY <1>2
  <2>4. QED
    BY <1>1, <1>3, <2>2, <2>3, ReadsBody
<1>6. SubSeq(file, 1, 2) = Magic /\ Len(Magic) = 2
  <2>1. 1 \in Nat \ {0} /\ 1 + 1 <= Len(file) /\ 1 + 1 = 2 /\ 1 \in 1..end /\ 2 \in 1..end
        /\ 1 \in 1..10 /\ 2 \in 1..10
    BY <1>2
  <2>2. SubSeq(file, 1, 1 + 1) = <<file[1], file[1 + 1]>>
    BY <1>1, <2>1, PairAt
  <2>3. file[1] = <<"magic", 1>> /\ file[2] = <<"version", 1>>
    BY <1>3, <2>1, BodyHead, HeaderUnits
  <2>4. QED
    BY <2>1, <2>2, <2>3 DEF Magic
<1>7. SubSeq(file, end + 1, end + 2) = U64(k)
  <2>1. end + 1 \in Nat \ {0} /\ (end + 1) + 1 <= Len(file) /\ (end + 1) + 1 = end + 2
        /\ end + 1 = 11 + 3 * k /\ end + 2 = 12 + 3 * k
    BY <1>2
  <2>2. SubSeq(file, end + 1, (end + 1) + 1) = <<file[end + 1], file[(end + 1) + 1]>>
    BY <1>1, <2>1, PairAt
  <2>3. QED
    BY <1>4, <2>1, <2>2 DEF U64
<1>8. SubSeq(file, end + 3, end + 4) = Hash(Body(k))
  <2>1. end + 3 \in Nat \ {0} /\ (end + 3) + 1 <= Len(file) /\ (end + 3) + 1 = end + 4
        /\ end + 3 = 13 + 3 * k /\ end + 4 = 14 + 3 * k
    BY <1>2
  <2>2. SubSeq(file, end + 3, (end + 3) + 1) = <<file[end + 3], file[(end + 3) + 1]>>
    BY <1>1, <2>1, PairAt
  <2>3. QED
    BY <1>4, <2>1, <2>2 DEF Hash
<1>9. SubSeq(file, 1, end) = Body(k)
  <2>1. Len(Body(k)) = end
    BY BodyLength
  <2>2. end <= Len(file)
    BY <1>2
  <2>3. Body(k) \in Seq(Data)
    BY BodyIsSeq
  <2> HIDE DEF end
  <2>4. Len(Body(k)) <= Len(file) /\ \A i \in 1..Len(Body(k)) : file[i] = Body(k)[i]
    BY <1>3, <2>1, <2>2
  <2>5. SubSeq(file, 1, Len(Body(k))) = Body(k)
    BY ONLY <1>1, <2>3, <2>4, PrefixIs
  <2>6. QED
    BY <2>1, <2>5
<1>10. Len(file) - TrailerSize = end /\ end >= HeaderSize
  BY <1>2 DEF TrailerSize, HeaderSize
<1>11. Parse(file) = body
  <2> HIDE DEF end
  <2>1. QED
    BY <1>5, <1>6, <1>7, <1>8, <1>9, <1>10 DEF Parse
<1>12. QED
  BY <1>5, <1>11 DEF file

\* The reader refuses a file whose last unit is no hash.
LEMMA HashIsLast ==
    ASSUME NEW S, NEW file \in Seq(S), Parse(file).ok
    PROVE  Len(file) # 0 /\ file[Len(file)][1] = "high hash"
<1> DEFINE end == Len(file) - 4
<1>1. Len(file) \in Nat
  OBVIOUS
<1>2. end >= 10
  BY AcceptedEnd
<1>3. file[end + 4] = <<"high hash", SubSeq(file, 1, end)>>
  BY AcceptedEnd
<1>4. end + 4 = Len(file) /\ Len(file) # 0
  BY <1>1, <1>2
<1> HIDE DEF end
<1>5. \A x : <<"high hash", x>>[1] = "high hash"
  OBVIOUS
<1>6. QED
  BY ONLY <1>3, <1>4, <1>5

LEMMA NoHashRefused ==
    ASSUME NEW S, NEW file \in Seq(S), Len(file) = 0 \/ file[Len(file)][1] # "high hash"
    PROVE  ~Parse(file).ok
  BY HashIsLast

LEMMA BodyCutRefused ==
    ASSUME NEW k \in Nat, NEW n \in 0..Len(Body(k))
    PROVE  ~Parse(SubSeq(Body(k), 1, n)).ok
<1> DEFINE cut == SubSeq(Body(k), 1, n)
<1>1. cut \in Seq(Data) /\ Len(cut) = n
  BY BodyIsSeq, CutIs
<1> HIDE DEF cut
<1>2. n # 0 => cut[n] \in Data
  <2>1. n # 0 => n \in 1..Len(cut)
    BY <1>1
  <2>2. QED
    BY <1>1, <2>1, ElementOfSeq
<1>3. Len(cut) = 0 \/ cut[Len(cut)][1] # "high hash"
  <2>1. \A x \in Data : x[1] # "high hash"
    BY DEF Data
  <2>2. QED
    BY <1>1, <1>2, <2>1
<1>4. QED
  BY <1>1, <1>3, NoHashRefused DEF cut

LEMMA CutRefused ==
    ASSUME NEW k \in Nat, NEW n \in 0..(Len(WholeLog(k)) - 1)
    PROVE  ~Parse(SubSeq(WholeLog(k), 1, n)).ok
<1> DEFINE file == WholeLog(k)
           cut == SubSeq(file, 1, n)
<1>1. file \in Seq(Units)
  BY LogIsSeq
<1>2. Len(file) = 14 + 3 * k
  BY LogLength
<1>3. n \in 0..(13 + 3 * k)
  BY <1>2
<1>4. n \in 0..Len(file)
  BY <1>2
<1> HIDE DEF file
<1>5. cut \in Seq(Units) /\ Len(cut) = n /\ \A i \in 1..n : cut[i] = file[i]
  BY <1>1, <1>4, CutIs
<1> HIDE DEF cut
<1>6. ASSUME n # 0 PROVE file[n][1] # "high hash"
  <2>1. CASE n <= 10 + 3 * k
    <3>1. n \in 1..(10 + 3 * k)
      BY <1>3, <1>6, <2>1
    <3>2. file[n] = Body(k)[n]
      BY <3>1, LogBody DEF file
    <3>3. Body(k)[n] \in Data
      BY <3>1, BodyIsSeq, BodyLength, ElementOfSeq
    <3>4. \A x \in Data : x[1] # "high hash"
      BY DEF Data
    <3>5. QED
      BY <3>2, <3>3, <3>4
  <2>2. CASE n \in {11 + 3 * k, 12 + 3 * k, 13 + 3 * k}
    <3>1. /\ file[11 + 3 * k] = Num(k) /\ file[12 + 3 * k] = Num(0)
          /\ file[13 + 3 * k] = <<"low hash", Body(k)>>
      BY LogTrailer DEF file
    <3>2. Num(k)[1] = "number" /\ Num(0)[1] = "number"
      BY DEF Num
    <3>3. \A x : <<"low hash", x>>[1] = "low hash"
      OBVIOUS
    <3>4. QED
      BY <2>2, <3>1, <3>2, <3>3
  <2>3. n <= 10 + 3 * k \/ n \in {11 + 3 * k, 12 + 3 * k, 13 + 3 * k}
    BY <1>3
  <2>4. QED
    BY <2>1, <2>2, <2>3
<1>7. Len(cut) = 0 \/ cut[Len(cut)][1] # "high hash"
  <2>1. n # 0 => n \in 1..n
    BY <1>3
  <2>2. QED
    BY <1>5, <1>6, <2>1
<1>8. QED
  BY <1>5, <1>7, NoHashRefused DEF cut, file

\* The reader refuses a log with one unit changed.
LEMMA ChangedRefused ==
    ASSUME NEW k \in Nat, NEW i \in DOMAIN WholeLog(k), NEW unit \in Noise \ {WholeLog(k)[i]}
    PROVE  ~Parse([WholeLog(k) EXCEPT ![i] = unit]).ok
<1> DEFINE file == WholeLog(k)
           changed == [file EXCEPT ![i] = unit]
           end == 10 + 3 * k
<1>1. file \in Seq(Units)
  BY LogIsSeq
<1>2. Len(file) = 14 + 3 * k
  BY LogLength
<1>3. i \in 1..Len(file)
  BY <1>1
<1>4. i \in 1..(14 + 3 * k) /\ unit # file[i]
  BY <1>2, <1>3
<1>5. unit \in Data /\ unit \in Units /\ unit[2] \in Nat /\ unit[1] \notin {"low hash", "high hash"}
  <2>1. unit \in Noise
    OBVIOUS
  <2>2. Noise \subseteq Data
    BY DEF Noise, Num, Data
  <2>3. \A x \in Data : x[2] \in Nat /\ x[1] \notin {"low hash", "high hash"}
    BY DEF Data
  <2>4. Data \subseteq Units
    BY DEF Units
  <2>5. QED
    BY <2>1, <2>2, <2>3, <2>4
<1> HIDE DEF file
<1>6. /\ changed \in Seq(Units) /\ Len(changed) = Len(file) /\ changed[i] = unit
      /\ \A j \in 1..Len(file) : j # i => changed[j] = file[j]
  <2>1. \A T : \A s \in Seq(T), x \in T : \A j \in 1..Len(s) :
           /\ [s EXCEPT ![j] = x] \in Seq(T) /\ Len([s EXCEPT ![j] = x]) = Len(s)
           /\ [s EXCEPT ![j] = x][j] = x
           /\ \A l \in 1..Len(s) : l # j => [s EXCEPT ![j] = x][l] = s[l]
    OBVIOUS
  <2>2. unit \in Units
    BY <1>5
  <2>3. QED
    BY ONLY <1>1, <1>3, <2>1, <2>2 DEF changed
<1>7. changed \in Seq(Units)
  BY <1>6
<1>8. Len(changed) = 14 + 3 * k /\ changed[i] = unit
      /\ \A j \in 1..(14 + 3 * k) : j # i => changed[j] = file[j]
  BY <1>2, <1>6
<1> HIDE DEF changed
<1> SUFFICES ASSUME Parse(changed).ok PROVE FALSE
  BY DEF changed, file
<1>9. /\ changed[end + 1] = Num(Len(RecordsOf(changed, end).frames)) /\ changed[end + 2] = Num(0)
      /\ changed[end + 3] = <<"low hash", SubSeq(changed, 1, end)>>
      /\ changed[end + 4] = <<"high hash", SubSeq(changed, 1, end)>>
  <2>1. Len(changed) - 4 = end
    BY <1>8
  <2> HIDE DEF end
  <2>2. QED
    BY <1>7, <2>1, AcceptedEnd
<1>10. end + 1 = 11 + 3 * k /\ end + 2 = 12 + 3 * k /\ end + 3 = 13 + 3 * k /\ end + 4 = 14 + 3 * k
  OBVIOUS
<1>11. CASE i <= end
  <2>1. i \in 1..end /\ 14 + 3 * k # i /\ 14 + 3 * k \in 1..(14 + 3 * k) /\ end \in 0..Len(changed)
    BY <1>4, <1>8, <1>11
  <2>2. changed[14 + 3 * k] = <<"high hash", Body(k)>>
    <3>1. changed[14 + 3 * k] = file[14 + 3 * k]
      BY <1>8, <2>1
    <3>2. file[14 + 3 * k] = <<"high hash", Body(k)>>
      BY LogTrailer DEF file
    <3>3. QED
      BY <3>1, <3>2
  <2>3. SubSeq(changed, 1, end) = Body(k)
    <3>1. <<"high hash", SubSeq(changed, 1, end)>> = <<"high hash", Body(k)>>
      BY <1>9, <1>10, <2>2
    <3>2. \A a, b, c, d : <<a, b>> = <<c, d>> => b = d
      OBVIOUS
    <3>3. QED
      BY <3>1, <3>2
  <2>4. SubSeq(changed, 1, end)[i] = changed[i]
    <3> HIDE DEF end
    <3>1. QED
      BY <1>7, <2>1, CutIs
  <2>5. Body(k)[i] = file[i]
    BY <2>1, LogBody DEF file
  <2>6. QED
    BY <1>4, <1>8, <2>3, <2>4, <2>5
<1>12. CASE i \in {11 + 3 * k, 12 + 3 * k}
  <2>1. \A j \in 1..end : changed[j] = Body(k)[j]
    <3>1. ASSUME NEW j \in 1..end PROVE changed[j] = file[j]
      <4>1. j \in 1..(14 + 3 * k) /\ j # i
        BY <1>12
      <4>2. QED
        BY <1>8, <4>1
    <3>2. QED
      BY <3>1, LogBody DEF file
  <2>2. \A j \in {11 + 3 * k, 12 + 3 * k} : changed[j] = file[j] \/ changed[j] = unit
    <3>1. \A j \in {11 + 3 * k, 12 + 3 * k} : j \in 1..(14 + 3 * k)
      OBVIOUS
    <3>2. QED
      BY <1>8, <3>1
  <2>3. file[11 + 3 * k] = Num(k) /\ file[12 + 3 * k] = Num(0)
    BY LogTrailer DEF file
  <2>4. changed[11 + 3 * k][2] \in Nat /\ changed[12 + 3 * k][2] \in Nat
    <3>1. Num(k)[2] \in Nat /\ Num(0)[2] \in Nat
      BY DEF Num
    <3>2. QED
      BY <1>5, <2>2, <2>3, <3>1
  <2>5. Len(RecordsOf(changed, end).frames) = k
    <3>1. 14 + 3 * k = Len(changed)
      BY <1>8
    <3>2. QED
      BY <1>7, <2>1, <2>4, <3>1, ReadsBody
  <2>6. changed[11 + 3 * k] = Num(k) /\ changed[12 + 3 * k] = Num(0)
    BY <1>9, <1>10, <2>5
  <2>7. QED
    BY <1>4, <1>8, <1>12, <2>3, <2>6
<1>13. CASE i \in {13 + 3 * k, 14 + 3 * k}
  <2>1. unit \in {<<"low hash", SubSeq(changed, 1, end)>>, <<"high hash", SubSeq(changed, 1, end)>>}
    BY <1>8, <1>9, <1>10, <1>13
  <2>2. \A x : <<"low hash", x>>[1] = "low hash" /\ <<"high hash", x>>[1] = "high hash"
    OBVIOUS
  <2>3. QED
    BY <1>5, <2>1, <2>2
<1>14. QED
  BY <1>4, <1>11, <1>12, <1>13

-----------------------------------------------------------------------------
(* Every step *)

LEMMA MakeKeeps == ASSUME EngineInv, Make PROVE EngineInv'
<1>1. rec = NoRecorder /\ finish = "no" /\ ~rec.made /\ ~rec.open /\ ~rec.finished
  <2>1. ~rec.made
    <3>1. CASE enginePc = "none"
      <4>1. rec = NoRecorder
        BY <3>1 DEF EngineInv, RestInv
      <4>2. QED
        BY <4>1 DEF NoRecorder
    <3>2. CASE enginePc = "shut"
      <4>1. enginePc \in ShuttingDown
        BY <3>2 DEF ShuttingDown
      <4>2. QED
        BY <4>1 DEF EngineInv, FileInv
    <3>3. QED
      BY <3>1, <3>2 DEF Make
  <2>2. QED
    BY <2>1 DEF EngineInv, RecorderInv, RecorderTypes, NoRecorder
<1>2. rec' = rec /\ finish' = finish /\ tmp' = tmp /\ final' = final /\ enginePc' = "made"
  BY DEF Make, recorderVars
<1>3. RecorderInv'
  <2>1. RecorderTypes'
    BY <1>2 DEF EngineInv, RecorderInv, RecorderTypes
  <2>2. QED
    BY <1>1, <1>2, <2>1 DEF RecorderInv
<1>4. RunInv'
  <2>1. /\ replayFail' = "ok" /\ runStatus' = "none" /\ target' = 0 /\ tick' = 0 /\ ticksLeft' = 0
        /\ failedAt' = 0
    BY DEF Make
  <2>2. rec'.error = "ok"
    BY <1>1, <1>2 DEF NoRecorder
  <2>3. rec'.made = FALSE
    BY <1>1, <1>2
  <2>4. QED
    BY <1>2, <2>1, <2>2, <2>3, EngineAssumption DEF RunInv, SettingUp, Looping, Running, Errors,
       Statuses
<1>5. FileInv'
  <2>1. recording' = FALSE /\ before' = final
    BY DEF Make
  <2>2. final = <<>> \/ \E k \in Nat : final = WholeLog(k)
    BY DEF EngineInv, FileInv
  <2>3. QED
    BY <1>1, <1>2, <2>1, <2>2 DEF FileInv, SettingUp, Looping, Running, Ended, ShuttingDown
<1>6. EventsInv'
  BY DEF EngineInv, EventsInv, EventsTell, Alive, Make, recorderVars, SettingUp, Looping, Running,
     Ended, ShuttingDown
<1>7. RestInv'
  <2>1. made' \in 0..MaxEngines
    <3>1. made \in 0..MaxEngines /\ made < MaxEngines /\ made' = made + 1
      BY DEF EngineInv, RestInv, Make
    <3>2. QED
      BY <3>1, EngineAssumption
  <2>2. live' = {"world", "profiler"} /\ stale' = FALSE /\ recording' = FALSE /\ report' = "no"
    BY DEF Make
  <2>3. retired' \in BOOLEAN
    BY DEF EngineInv, RestInv, Make
  <2>4. QED
    BY <1>2, <2>1, <2>3, <2>2 DEF RestInv, SettingUp, Running, Ended
<1>8. QED
  BY <1>3, <1>4, <1>5, <1>6, <1>7 DEF EngineInv

LEMMA StartProfileReportKeeps == ASSUME EngineInv, StartProfileReport PROVE EngineInv'
<1>1. RecorderInv'
  BY DEF EngineInv, RecorderInv, RecorderTypes, StartProfileReport, InUserCode, Log, recorderVars
<1>2. RunInv'
  BY DEF EngineInv, RunInv, StartProfileReport, InUserCode, Log, recorderVars, SettingUp, Looping,
     Running
<1>3. FileInv'
  BY DEF EngineInv, FileInv, StartProfileReport, InUserCode, Log, recorderVars, SettingUp,
     Looping, Running, Ended, ShuttingDown
<1>4. EventsInv'
  BY DEF EngineInv, EventsInv, EventsTell, Outcomes, ReportOutcomes, Alive, StartProfileReport,
     InUserCode, Log, recorderVars, SettingUp, Looping, Running, Ended, ShuttingDown
<1>5. RestInv'
  BY DEF EngineInv, RestInv, StartProfileReport, InUserCode, Log, recorderVars, SettingUp,
     Looping, Running, Ended, ShuttingDown
<1>6. QED
  BY <1>1, <1>2, <1>3, <1>4, <1>5 DEF EngineInv

LEMMA RegisterLateKeeps == ASSUME EngineInv, RegisterLate PROVE EngineInv'
<1>1. RecorderInv'
  BY DEF EngineInv, RecorderInv, RecorderTypes, RegisterLate, recorderVars, lifeHistory
<1>2. RunInv'
  BY DEF EngineInv, RunInv, RegisterLate, recorderVars, lifeHistory, SettingUp, Looping, Running
<1>3. FileInv'
  BY DEF EngineInv, FileInv, RegisterLate, recorderVars, lifeHistory, SettingUp, Looping, Running,
     Ended, ShuttingDown
<1>4. EventsInv'
  BY DEF EngineInv, EventsInv, EventsTell, Alive, RegisterLate, recorderVars, lifeHistory,
     SettingUp, Looping, Running, Ended, ShuttingDown
<1>5. RestInv'
  BY DEF EngineInv, RestInv, RegisterLate, recorderVars, lifeHistory, SettingUp, Looping, Running,
     Ended, ShuttingDown
<1>6. QED
  BY <1>1, <1>2, <1>3, <1>4, <1>5 DEF EngineInv

LEMMA RunKeeps == ASSUME EngineInv, Run PROVE EngineInv'
<1>1. RecorderInv'
  BY DEF EngineInv, RecorderInv, RecorderTypes, Run, Log, recorderVars
<1>2. RunInv'
  <2>1. /\ UNCHANGED <<rec, replayFail, tick, ticksLeft, failedAt>>
        /\ enginePc' = "schedule" /\ runStatus' = "ok" /\ target' \in Targets
    BY DEF Run, recorderVars
  <2>2. target' \in Nat /\ FrameBudget > 0
    BY <2>1, EngineAssumption
  <2>3. RunInv /\ enginePc = "made"
    BY DEF EngineInv, Run
  <2>4. tick = 0 /\ ticksLeft = 0
    BY <2>3 DEF RunInv, SettingUp
  <2>5. target' # 0 => tick' + ticksLeft' < target' + FrameBudget
    <3>1. tick' = 0 /\ ticksLeft' = 0
      BY <2>1, <2>4
    <3>2. \A t \in Nat : 0 + 0 < t + FrameBudget
      BY EngineAssumption
    <3>3. tick' + ticksLeft' = 0 + 0
      BY <3>1
    <3>4. QED
      BY <2>2, <3>2, <3>3
  <2>6. QED
    BY <2>1, <2>3, <2>5 DEF RunInv, SettingUp, Looping, Running, Errors, Statuses
<1>3. FileInv'
  BY DEF EngineInv, FileInv, Run, Log, recorderVars, SettingUp, Looping, Running, Ended,
     ShuttingDown
<1>4. EventsInv'
  BY DEF EngineInv, EventsInv, EventsTell, Outcomes, ReportOutcomes, Alive, Run, Log,
     recorderVars, SettingUp, Looping, Running, Ended, ShuttingDown
<1>5. RestInv'
  BY DEF EngineInv, RestInv, Run, Log, recorderVars, SettingUp, Looping, Running, Ended,
     ShuttingDown
<1>6. QED
  BY <1>1, <1>2, <1>3, <1>4, <1>5 DEF EngineInv

LEMMA ShutdownBeforeRunKeeps == ASSUME EngineInv, ShutdownBeforeRun PROVE EngineInv'
<1>1. RecorderInv'
  BY DEF EngineInv, RecorderInv, RecorderTypes, ShutdownBeforeRun, recorderVars, lifeHistory
<1>2. RunInv'
  BY DEF EngineInv, RunInv, ShutdownBeforeRun, recorderVars, lifeHistory, SettingUp, Looping,
     Running
<1>3. FileInv'
  BY EngineAssumption DEF EngineInv, RecorderInv, RecorderTypes, RunInv, FileInv, EventsInv,
     EventsTell, Outcomes, ReportOutcomes, Alive, RestInv, ShutdownBeforeRun, recorderVars,
     lifeHistory, SettingUp, Looping, Running, Ended, ShuttingDown, NoRecorder, Errors, Statuses
<1>4. EventsInv'
  BY DEF EngineInv, EventsInv, EventsTell, Outcomes, ReportOutcomes, Alive, FileInv, RestInv,
     ShutdownBeforeRun, recorderVars, lifeHistory, SettingUp, Looping, Running, Ended,
     ShuttingDown
<1>5. RestInv'
  BY DEF EngineInv, RestInv, ShutdownBeforeRun, recorderVars, lifeHistory, SettingUp, Looping,
     Running, Ended, ShuttingDown
<1>6. QED
  BY <1>1, <1>2, <1>3, <1>4, <1>5 DEF EngineInv

LEMMA FrameBeginZeroKeeps == ASSUME EngineInv, FrameBegin(0) PROVE EngineInv'
<1>1. RecorderInv'
  BY DEF EngineInv, RecorderInv, RecorderTypes, FrameBegin, TargetReached, recorderVars,
     lifeHistory
<1>2. RunInv'
  BY EngineAssumption DEF EngineInv, RunInv, FrameBegin, TargetReached, recorderVars, lifeHistory,
     SettingUp, Looping, Running, Errors, Statuses
<1>3. FileInv'
  BY DEF EngineInv, FileInv, FrameBegin, TargetReached, recorderVars, lifeHistory, SettingUp,
     Looping, Running, Ended, ShuttingDown
<1>4. EventsInv'
  BY DEF EngineInv, EventsInv, EventsTell, Alive, FrameBegin, TargetReached, recorderVars,
     lifeHistory, SettingUp, Looping, Running, Ended, ShuttingDown
<1>5. RestInv'
  BY DEF EngineInv, RestInv, FrameBegin, TargetReached, recorderVars, lifeHistory, SettingUp,
     Looping, Running, Ended, ShuttingDown
<1>6. QED
  BY <1>1, <1>2, <1>3, <1>4, <1>5 DEF EngineInv

LEMMA SetUpFailsKeeps == ASSUME EngineInv, SetUpFails PROVE EngineInv'
<1>1. RecorderInv'
  BY DEF EngineInv, RecorderInv, RecorderTypes, SetUpFails, EndRun, recorderVars, lifeHistory
<1>2. RunInv'
  BY EngineAssumption DEF EngineInv, RunInv, SetUpFails, EndRun, recorderVars, lifeHistory,
     SettingUp, Looping, Running, Errors, Statuses
<1>3. FileInv'
  BY DEF EngineInv, FileInv, SetUpFails, EndRun, recorderVars, lifeHistory, SettingUp, Looping,
     Running, Ended, ShuttingDown
<1>4. EventsInv'
  BY DEF EngineInv, EventsInv, EventsTell, Alive, SetUpFails, EndRun, recorderVars, lifeHistory,
     SettingUp, Looping, Running, Ended, ShuttingDown
<1>5. RestInv'
  BY DEF EngineInv, RestInv, SetUpFails, EndRun, recorderVars, lifeHistory, SettingUp, Looping,
     Running, Ended, ShuttingDown
<1>6. QED
  BY <1>1, <1>2, <1>3, <1>4, <1>5 DEF EngineInv

LEMMA CreateLoopKeeps == ASSUME EngineInv, CreateLoop PROVE EngineInv'
<1>1. RecorderInv'
  BY DEF EngineInv, RecorderInv, RecorderTypes, CreateLoop, recorderVars, lifeHistory
<1>2. RunInv'
  BY DEF EngineInv, RunInv, CreateLoop, recorderVars, lifeHistory, SettingUp, Looping, Running
<1>3. FileInv'
  BY DEF EngineInv, FileInv, CreateLoop, recorderVars, lifeHistory, SettingUp, Looping, Running,
     Ended, ShuttingDown
<1>4. EventsInv'
  BY DEF EngineInv, EventsInv, EventsTell, Alive, CreateLoop, recorderVars, lifeHistory,
     SettingUp, Looping, Running, Ended, ShuttingDown
<1>5. RestInv'
  BY DEF EngineInv, RestInv, CreateLoop, recorderVars, lifeHistory, SettingUp, Looping, Running,
     Ended, ShuttingDown
<1>6. QED
  BY <1>1, <1>2, <1>3, <1>4, <1>5 DEF EngineInv

LEMMA CreateSnapshotKeeps == ASSUME EngineInv, CreateSnapshot PROVE EngineInv'
<1>1. RecorderInv'
  BY DEF EngineInv, RecorderInv, RecorderTypes, CreateSnapshot, EndRun, recorderVars, lifeHistory
<1>2. RunInv'
  BY EngineAssumption DEF EngineInv, RunInv, CreateSnapshot, EndRun, recorderVars, lifeHistory,
     SettingUp, Looping, Running, Errors, Statuses
<1>3. FileInv'
  BY DEF EngineInv, FileInv, CreateSnapshot, EndRun, recorderVars, lifeHistory, SettingUp,
     Looping, Running, Ended, ShuttingDown
<1>4. EventsInv'
  BY DEF EngineInv, EventsInv, EventsTell, Alive, CreateSnapshot, EndRun, recorderVars,
     lifeHistory, SettingUp, Looping, Running, Ended, ShuttingDown
<1>5. RestInv'
  BY DEF EngineInv, RestInv, CreateSnapshot, EndRun, recorderVars, lifeHistory, SettingUp,
     Looping, Running, Ended, ShuttingDown
<1>6. QED
  BY <1>1, <1>2, <1>3, <1>4, <1>5 DEF EngineInv

LEMMA TickIsDueKeeps == ASSUME EngineInv, TickIsDue PROVE EngineInv'
<1>1. RecorderInv'
  BY DEF EngineInv, RecorderInv, RecorderTypes, TickIsDue, FrameBegin, TargetReached,
     recorderVars, lifeHistory
<1>2. RunInv'
  BY EngineAssumption DEF EngineInv, RunInv, TickIsDue, FrameBegin, TargetReached, recorderVars,
     lifeHistory, SettingUp, Looping, Running, Errors, Statuses
<1>3. FileInv'
  BY DEF EngineInv, FileInv, TickIsDue, FrameBegin, TargetReached, recorderVars, lifeHistory,
     SettingUp, Looping, Running, Ended, ShuttingDown
<1>4. EventsInv'
  BY DEF EngineInv, EventsInv, EventsTell, Alive, TickIsDue, FrameBegin, TargetReached,
     recorderVars, lifeHistory, SettingUp, Looping, Running, Ended, ShuttingDown
<1>5. RestInv'
  BY DEF EngineInv, RestInv, TickIsDue, FrameBegin, TargetReached, recorderVars, lifeHistory,
     SettingUp, Looping, Running, Ended, ShuttingDown
<1>6. QED
  BY <1>1, <1>2, <1>3, <1>4, <1>5 DEF EngineInv

LEMMA TickBeginKeeps == ASSUME EngineInv, TickBegin PROVE EngineInv'
<1>1. RecorderInv'
  BY DEF EngineInv, RecorderInv, RecorderTypes, TickBegin, recorderVars, lifeHistory
<1>2. RunInv'
  BY DEF EngineInv, RunInv, TickBegin, recorderVars, lifeHistory, SettingUp, Looping, Running
<1>3. FileInv'
  BY DEF EngineInv, FileInv, TickBegin, recorderVars, lifeHistory, SettingUp, Looping, Running,
     Ended, ShuttingDown
<1>4. EventsInv'
  BY DEF EngineInv, EventsInv, EventsTell, Alive, TickBegin, recorderVars, lifeHistory, SettingUp,
     Looping, Running, Ended, ShuttingDown
<1>5. RestInv'
  BY DEF EngineInv, RestInv, TickBegin, recorderVars, lifeHistory, SettingUp, Looping, Running,
     Ended, ShuttingDown
<1>6. QED
  BY <1>1, <1>2, <1>3, <1>4, <1>5 DEF EngineInv

LEMMA FrameFailsKeeps == ASSUME EngineInv, FrameFails PROVE EngineInv'
<1>1. RecorderInv'
  BY DEF EngineInv, RecorderInv, RecorderTypes, FrameFails, EndRun, recorderVars, lifeHistory
<1>2. RunInv'
  BY EngineAssumption DEF EngineInv, RunInv, FrameFails, EndRun, recorderVars, lifeHistory,
     SettingUp, Looping, Running, Errors, Statuses
<1>3. FileInv'
  BY DEF EngineInv, FileInv, FrameFails, EndRun, recorderVars, lifeHistory, SettingUp, Looping,
     Running, Ended, ShuttingDown
<1>4. EventsInv'
  BY DEF EngineInv, EventsInv, EventsTell, Alive, FrameFails, EndRun, recorderVars, lifeHistory,
     SettingUp, Looping, Running, Ended, ShuttingDown
<1>5. RestInv'
  BY DEF EngineInv, RestInv, FrameFails, EndRun, recorderVars, lifeHistory, SettingUp, Looping,
     Running, Ended, ShuttingDown
<1>6. QED
  BY <1>1, <1>2, <1>3, <1>4, <1>5 DEF EngineInv

LEMMA AfterFrameKeeps == ASSUME EngineInv, AfterFrame PROVE EngineInv'
<1>1. RecorderInv'
  BY DEF EngineInv, RecorderInv, RecorderTypes, AfterFrame, TargetReached, EndRun, recorderVars,
     lifeHistory
<1>2. RunInv'
  BY EngineAssumption DEF EngineInv, RunInv, AfterFrame, TargetReached, EndRun, recorderVars,
     lifeHistory, SettingUp, Looping, Running, Errors, Statuses
<1>3. FileInv'
  BY DEF EngineInv, FileInv, AfterFrame, TargetReached, EndRun, recorderVars, lifeHistory,
     SettingUp, Looping, Running, Ended, ShuttingDown
<1>4. EventsInv'
  BY DEF EngineInv, EventsInv, EventsTell, Alive, AfterFrame, TargetReached, EndRun, recorderVars,
     lifeHistory, SettingUp, Looping, Running, Ended, ShuttingDown
<1>5. RestInv'
  BY DEF EngineInv, RestInv, AfterFrame, TargetReached, EndRun, recorderVars, lifeHistory,
     SettingUp, Looping, Running, Ended, ShuttingDown
<1>6. QED
  BY <1>1, <1>2, <1>3, <1>4, <1>5 DEF EngineInv

LEMMA NothingToFinishKeeps == ASSUME EngineInv, NothingToFinish PROVE EngineInv'
<1>1. RecorderInv'
  BY DEF EngineInv, RecorderInv, RecorderTypes, NothingToFinish, MustFinish, recorderVars,
     lifeHistory
<1>2. RunInv'
  BY DEF EngineInv, RunInv, NothingToFinish, MustFinish, recorderVars, lifeHistory, SettingUp,
     Looping, Running
<1>3. FileInv'
  BY EngineAssumption DEF EngineInv, RecorderInv, RecorderTypes, RunInv, FileInv, EventsInv,
     EventsTell, Outcomes, ReportOutcomes, Alive, RestInv, NothingToFinish, MustFinish,
     recorderVars, lifeHistory, SettingUp, Looping, Running, Ended, ShuttingDown, NoRecorder,
     Errors, Statuses
<1>4. EventsInv'
  BY DEF EngineInv, EventsInv, EventsTell, Outcomes, ReportOutcomes, Alive, FileInv, RestInv,
     NothingToFinish, MustFinish, recorderVars, lifeHistory, SettingUp, Looping, Running, Ended,
     ShuttingDown
<1>5. RestInv'
  BY DEF EngineInv, RestInv, NothingToFinish, MustFinish, recorderVars, lifeHistory, SettingUp,
     Looping, Running, Ended, ShuttingDown
<1>6. QED
  BY <1>1, <1>2, <1>3, <1>4, <1>5 DEF EngineInv

LEMMA FinishedKeeps == ASSUME EngineInv, Finished PROVE EngineInv'
<1>1. RecorderInv'
  BY DEF EngineInv, RecorderInv, RecorderTypes, Finished, Log, recorderVars
<1>2. RunInv'
  BY EngineAssumption DEF EngineInv, RecorderInv, RecorderTypes, RunInv, FileInv, EventsInv,
     EventsTell, Outcomes, ReportOutcomes, Alive, RestInv, Finished, Log, recorderVars, SettingUp,
     Looping, Running, Ended, ShuttingDown, NoRecorder, Errors, Statuses
<1>3. FileInv'
  BY EngineAssumption DEF EngineInv, RecorderInv, RecorderTypes, RunInv, FileInv, EventsInv,
     EventsTell, Outcomes, ReportOutcomes, Alive, RestInv, Finished, Log, recorderVars, SettingUp,
     Looping, Running, Ended, ShuttingDown, NoRecorder, Errors, Statuses
<1>4. EventsInv'
  BY DEF EngineInv, EventsInv, EventsTell, Outcomes, ReportOutcomes, Alive, FileInv, RestInv,
     Finished, Log, recorderVars, SettingUp, Looping, Running, Ended, ShuttingDown
<1>5. RestInv'
  BY DEF EngineInv, RestInv, Finished, Log, recorderVars, SettingUp, Looping, Running, Ended,
     ShuttingDown
<1>6. QED
  BY <1>1, <1>2, <1>3, <1>4, <1>5 DEF EngineInv

LEMMA ReportKeeps == ASSUME EngineInv, Report PROVE EngineInv'
<1>1. RecorderInv'
  BY DEF EngineInv, RecorderInv, RecorderTypes, Report, Log, recorderVars
<1>2. RunInv'
  BY DEF EngineInv, RunInv, Report, Log, recorderVars, SettingUp, Looping, Running
<1>3. FileInv'
  BY DEF EngineInv, FileInv, Report, Log, recorderVars, SettingUp, Looping, Running, Ended,
     ShuttingDown
<1>4. EventsInv'
  <2>1. EventsInv /\ enginePc = "report" /\ enginePc' = "shut loop"
        /\ UNCHANGED <<recording, retired, rec>>
    BY DEF EngineInv, Report, recorderVars
  <2>2. CASE retired
    <3>1. events' = {}
      BY <2>1, <2>2 DEF EventsInv, Alive, Report, Log
    <3>2. QED
      BY <2>1, <2>2, <3>1 DEF EventsInv, Alive
  <2>3. CASE ~retired
    <3>1. EventsTell
      BY <2>1, <2>3 DEF EventsInv, Alive
    <3>2. CASE report = "asked"
      <4>1. PICK e \in {"report_written", "report_write_failed"} : events' = events \cup {e, "run_finished"}
        BY <2>3, <3>2 DEF Report, Log
      <4>2. report' = "final"
        BY <3>2 DEF Report
      <4>3. ReportOutcomes \cap events' = {e}
        BY <3>1, <3>2, <4>1 DEF EventsTell, ReportOutcomes
      <4>4. Outcomes \cap events' = Outcomes \cap events
        BY <4>1 DEF Outcomes
      <4>5. e \in ReportOutcomes
        BY DEF ReportOutcomes
      <4>6. /\ "record_started" \in events' => "record_started" \in events
            /\ "report_started" \in events' => "report_started" \in events
        BY <4>1
      <4>7. EventsTell'
        BY <2>1, <3>1, <4>2, <4>3, <4>4, <4>5, <4>6
        DEF EventsTell, SettingUp, Looping, Running, Ended, ShuttingDown
      <4>8. QED
        BY <2>1, <2>3, <4>7 DEF EventsInv, Alive
    <3>3. CASE report # "asked"
      <4>1. events' = events \cup {"run_finished"} /\ report' = report
        BY <2>3, <3>3 DEF Report, Log
      <4>2. Outcomes \cap events' = Outcomes \cap events
            /\ ReportOutcomes \cap events' = ReportOutcomes \cap events
        BY <4>1 DEF Outcomes, ReportOutcomes
      <4>3. EventsTell'
        BY <2>1, <3>1, <4>1, <4>2
        DEF EventsTell, SettingUp, Looping, Running, Ended, ShuttingDown
      <4>4. QED
        BY <2>1, <2>3, <4>3 DEF EventsInv, Alive
    <3>4. QED
      BY <3>2, <3>3
  <2>4. QED
    BY <2>2, <2>3
<1>5. RestInv'
  BY DEF EngineInv, RestInv, Report, Log, recorderVars, SettingUp, Looping, Running, Ended,
     ShuttingDown
<1>6. QED
  BY <1>1, <1>2, <1>3, <1>4, <1>5 DEF EngineInv

LEMMA ShutLoopKeeps == ASSUME EngineInv, ShutLoop PROVE EngineInv'
<1>1. RecorderInv'
  BY DEF EngineInv, RecorderInv, RecorderTypes, ShutLoop, recorderVars, lifeHistory
<1>2. RunInv'
  BY DEF EngineInv, RunInv, ShutLoop, recorderVars, lifeHistory, SettingUp, Looping, Running
<1>3. FileInv'
  BY DEF EngineInv, FileInv, ShutLoop, recorderVars, lifeHistory, SettingUp, Looping, Running,
     Ended, ShuttingDown
<1>4. EventsInv'
  BY DEF EngineInv, EventsInv, EventsTell, Alive, ShutLoop, recorderVars, lifeHistory, SettingUp,
     Looping, Running, Ended, ShuttingDown
<1>5. RestInv'
  BY DEF EngineInv, RestInv, ShutLoop, recorderVars, lifeHistory, SettingUp, Looping, Running,
     Ended, ShuttingDown
<1>6. QED
  BY <1>1, <1>2, <1>3, <1>4, <1>5 DEF EngineInv

LEMMA ShutWorldKeeps == ASSUME EngineInv, ShutWorld PROVE EngineInv'
<1>1. RecorderInv'
  BY DEF EngineInv, RecorderInv, RecorderTypes, ShutWorld, recorderVars, lifeHistory
<1>2. RunInv'
  BY DEF EngineInv, RunInv, ShutWorld, recorderVars, lifeHistory, SettingUp, Looping, Running
<1>3. FileInv'
  BY DEF EngineInv, FileInv, ShutWorld, recorderVars, lifeHistory, SettingUp, Looping, Running,
     Ended, ShuttingDown
<1>4. EventsInv'
  BY DEF EngineInv, EventsInv, EventsTell, Alive, ShutWorld, recorderVars, lifeHistory, SettingUp,
     Looping, Running, Ended, ShuttingDown
<1>5. RestInv'
  BY DEF EngineInv, RestInv, ShutWorld, recorderVars, lifeHistory, SettingUp, Looping, Running,
     Ended, ShuttingDown
<1>6. QED
  BY <1>1, <1>2, <1>3, <1>4, <1>5 DEF EngineInv

LEMMA ShutProfilerKeeps == ASSUME EngineInv, ShutProfiler PROVE EngineInv'
<1>1. RecorderInv'
  BY DEF EngineInv, RecorderInv, RecorderTypes, ShutProfiler, Log, recorderVars
<1>2. RunInv'
  BY DEF EngineInv, RunInv, ShutProfiler, Log, recorderVars, SettingUp, Looping, Running
<1>3. FileInv'
  BY DEF EngineInv, FileInv, ShutProfiler, Log, recorderVars, SettingUp, Looping, Running, Ended,
     ShuttingDown
<1>4. EventsInv'
  BY DEF EngineInv, EventsInv, EventsTell, Outcomes, ReportOutcomes, Alive, ShutProfiler, Log,
     recorderVars, SettingUp, Looping, Running, Ended, ShuttingDown
<1>5. RestInv'
  BY DEF EngineInv, RestInv, ShutProfiler, Log, recorderVars, SettingUp, Looping, Running, Ended,
     ShuttingDown
<1>6. QED
  BY <1>1, <1>2, <1>3, <1>4, <1>5 DEF EngineInv

LEMMA ShutLoggerKeeps == ASSUME EngineInv, ShutLogger PROVE EngineInv'
<1>1. RecorderInv'
  BY DEF EngineInv, RecorderInv, RecorderTypes, ShutLogger, recorderVars, lifeHistory
<1>2. RunInv'
  BY DEF EngineInv, RunInv, ShutLogger, recorderVars, lifeHistory, SettingUp, Looping, Running
<1>3. FileInv'
  BY DEF EngineInv, FileInv, ShutLogger, recorderVars, lifeHistory, SettingUp, Looping, Running,
     Ended, ShuttingDown
<1>4. EventsInv'
  BY DEF EngineInv, EventsInv, EventsTell, Alive, ShutLogger, recorderVars, lifeHistory,
     SettingUp, Looping, Running, Ended, ShuttingDown
<1>5. RestInv'
  BY DEF EngineInv, RestInv, ShutLogger, recorderVars, lifeHistory, SettingUp, Looping, Running,
     Ended, ShuttingDown
<1>6. QED
  BY <1>1, <1>2, <1>3, <1>4, <1>5 DEF EngineInv

LEMMA StutterKeeps == ASSUME EngineInv, UNCHANGED engineVars PROVE EngineInv'
<1>1. RecorderInv'
  BY DEF EngineInv, RecorderInv, RecorderTypes, engineVars, recorderVars, lifeVars, lifeHistory
<1>2. RunInv'
  <2>1. UNCHANGED <<rec, replayFail, runStatus, target, tick, ticksLeft, failedAt, enginePc>>
    BY DEF engineVars, recorderVars, lifeVars, lifeHistory
  <2>2. RunInv
    BY DEF EngineInv
  <2>3. QED
    BY <2>1, <2>2 DEF RunInv
<1>3. FileInv'
  BY DEF EngineInv, FileInv, engineVars, recorderVars, lifeVars, lifeHistory, SettingUp, Looping,
     Running, Ended, ShuttingDown
<1>4. EventsInv'
  BY DEF EngineInv, EventsInv, EventsTell, Alive, engineVars, recorderVars, lifeVars, lifeHistory,
     SettingUp, Looping, Running, Ended, ShuttingDown
<1>5. RestInv'
  BY DEF EngineInv, RestInv, engineVars, recorderVars, lifeVars, lifeHistory, SettingUp, Looping,
     Running, Ended, ShuttingDown
<1>6. QED
  BY <1>1, <1>2, <1>3, <1>4, <1>5 DEF EngineInv

LEMMA BodyTypes == \A k \in Nat : Body(k) \in {NoRecorder.hashed} \cup {Body(j) : j \in Nat}
  OBVIOUS

LEMMA InitHolds == ASSUME EngineInit PROVE EngineInv
<1>1. RecorderInv
  BY DEF EngineInit, RecorderInit, RecorderInv, RecorderTypes, NoRecorder, Errors
<1>2. RunInv
  BY EngineAssumption DEF EngineInit, RecorderInit, RunInv, NoRecorder, Errors, Statuses,
     SettingUp,
     Looping, Running
<1>3. FileInv
  BY DEF EngineInit, RecorderInit, FileInv, NoRecorder, SettingUp, Looping, Running, Ended,
     ShuttingDown
<1>4. EventsInv
  BY DEF EngineInit, EventsInv, Alive
<1>5. RestInv
  <2>1. 0 \in 0..MaxEngines
    BY EngineAssumption
  <2>2. QED
    BY <2>1 DEF EngineInit, RecorderInit, RestInv
<1>6. QED
  BY <1>1, <1>2, <1>3, <1>4, <1>5 DEF EngineInv

\* A recorder is made, its file is the header; or no file is made.
LEMMA CreateKeeps ==
    ASSUME EngineInv, InUserCode, ~rec.made, NEW limit \in SizeLimits, Create(limit),
           Log({"record_started"}), recording' = TRUE, UNCHANGED <<lifeVars, made, before, failedAt>>
    PROVE  EngineInv'
<1>1. /\ rec'.made = TRUE /\ rec'.open = TRUE /\ rec'.finished = FALSE /\ rec'.error = "ok"
      /\ rec'.bytes = 10 /\ rec'.frames = 0 /\ rec'.hashed = Header /\ rec'.limit = limit
      /\ tmp' = Header /\ finish' = finish /\ final' = final
  BY DEF Create, NoRecorder, HeaderSize
<1>2. rec' = [made |-> TRUE, limit |-> limit, bytes |-> 10, frames |-> 0, hashed |-> Header,
              open |-> TRUE, error |-> "ok", finished |-> FALSE]
  BY DEF Create, NoRecorder, HeaderSize
<1>3. limit \in Nat /\ limit >= 14
  BY EngineAssumption DEF Create, MinSizeLimit, HeaderSize, TrailerSize
<1>4. /\ enginePc' = enginePc /\ live' = live /\ replayFail' = replayFail /\ runStatus' = runStatus
      /\ target' = target /\ tick' = tick /\ ticksLeft' = ticksLeft /\ stale' = stale
      /\ report' = report /\ retired' = retired /\ made' = made /\ before' = before
      /\ failedAt' = failedAt
  BY DEF lifeVars
<1>5. enginePc \in {"made", "tick"} /\ rec = NoRecorder /\ finish = "no"
  BY DEF InUserCode, EngineInv, RecorderInv, RecorderTypes
<1>6. Header = Body(0) /\ Len(Header) = 10
  BY BodyBegins, HeaderUnits DEF HeaderSize
<1>7. RecorderInv'
  <2>1. RecorderTypes'
    BY <1>2, <1>1, <1>5, <1>6, <1>3, BodyTypes DEF RecorderTypes, Errors
  <2>2. tick \in Nat /\ 0 <= tick /\ tick' = tick
    BY <1>4 DEF EngineInv, RunInv
  <2>3. rec'.frames <= tick' /\ rec'.hashed = Body(rec'.frames)
    BY <1>1, <1>6, <2>2
  <2>4. tmp' = Body(rec'.frames) /\ Len(tmp') = 10
    BY <1>1, <1>6
  <2>5. rec'.bytes = Len(tmp') /\ Len(tmp') <= rec'.limit
    <3>1. rec'.bytes = 10 /\ rec'.limit = limit
      BY <1>1
    <3>2. Len(tmp') = 10
      BY <2>4
    <3>3. QED
      BY ONLY <1>3, <3>1, <3>2
  <2>6. finish' = "no"
    BY <1>1, <1>5
  <2>7. QED
    BY <1>1, <2>1, <2>3, <2>4, <2>5, <2>6 DEF RecorderInv
<1>8. RunInv'
  <2>1. RunInv
    BY DEF EngineInv
  <2>2. rec'.error = rec.error /\ rec'.frames = 0 /\ rec'.made
    BY <1>1, <1>5 DEF NoRecorder
  <2>3. QED
    BY <1>4, <1>5, <2>1, <2>2 DEF RunInv, SettingUp, Looping, Running
<1>9. FileInv'
  <2>1. FileInv
    BY DEF EngineInv
  <2>2. rec'.made /\ ~rec'.finished /\ ~rec.finished
    BY <1>1, <1>5 DEF NoRecorder
  <2>3. QED
    BY <1>1, <1>4, <1>5, <2>1, <2>2 DEF FileInv, SettingUp, Looping, Running, Ended, ShuttingDown
<1>10. EventsInv'
  BY <1>4, <1>5 DEF EngineInv, EventsInv, EventsTell, Alive, Log, Outcomes, ReportOutcomes,
     SettingUp, Looping, Running, Ended, ShuttingDown
<1>11. RestInv'
  BY <1>4, <1>5 DEF EngineInv, RestInv
<1>12. QED
  BY <1>7, <1>8, <1>9, <1>10, <1>11 DEF EngineInv

LEMMA CreateFailsKeeps ==
    ASSUME EngineInv, InUserCode, ~rec.made, NEW limit \in SizeLimits, CreateFails(limit),
           Log({"record_start_failed"}), UNCHANGED <<recording, lifeVars, made, before, failedAt>>
    PROVE  EngineInv'
<1>1. rec' = rec /\ finish' = finish /\ final' = final /\ tmp' \in {tmp, <<>>}
  BY DEF CreateFails
<1>2. /\ enginePc' = enginePc /\ live' = live /\ replayFail' = replayFail /\ runStatus' = runStatus
      /\ target' = target /\ tick' = tick /\ ticksLeft' = ticksLeft /\ stale' = stale
      /\ report' = report /\ retired' = retired /\ made' = made /\ before' = before
      /\ failedAt' = failedAt /\ recording' = recording
  BY DEF lifeVars
<1>3. enginePc \in {"made", "tick"} /\ rec = NoRecorder /\ finish = "no"
  BY DEF InUserCode, EngineInv, RecorderInv, RecorderTypes
<1>4. RecorderInv'
  <2>1. RecorderTypes'
    BY <1>1 DEF RecorderTypes, EngineInv, RecorderInv
  <2>2. ~rec'.made /\ ~rec'.open /\ ~rec'.finished /\ finish' = "no"
    BY <1>1, <1>3 DEF NoRecorder
  <2>3. QED
    BY <2>1, <2>2 DEF RecorderInv
<1>5. RunInv'
  BY <1>1, <1>2 DEF EngineInv, RunInv
<1>6. FileInv'
  BY DEF InUserCode, CreateFails, lifeVars, EngineInv, FileInv, RunInv, RestInv, SettingUp,
     Looping, Running, Ended, ShuttingDown
<1>7. EventsInv'
  BY DEF InUserCode, CreateFails, lifeVars, EngineInv, RestInv, EventsInv, EventsTell, Alive,
     Log, Outcomes, ReportOutcomes,
     SettingUp, Looping, Running, Ended, ShuttingDown
<1>8. RestInv'
  BY <1>1, <1>2, <1>3 DEF EngineInv, RestInv
<1>9. QED
  BY <1>4, <1>5, <1>6, <1>7, <1>8 DEF EngineInv

LEMMA StartReplayRecordingKeeps == ASSUME EngineInv, StartReplayRecording PROVE EngineInv'
<1>1. PICK limit \in SizeLimits :
        \/ Create(limit) /\ Log({"record_started"}) /\ recording' = TRUE
        \/ CreateFails(limit) /\ Log({"record_start_failed"}) /\ UNCHANGED recording
  BY DEF StartReplayRecording
<1>2. InUserCode /\ ~rec.made /\ UNCHANGED <<lifeVars, made, before, failedAt>>
  BY DEF StartReplayRecording
<1>3. CASE Create(limit) /\ Log({"record_started"}) /\ recording' = TRUE
  BY <1>2, <1>3, CreateKeeps
<1>4. CASE CreateFails(limit) /\ Log({"record_start_failed"}) /\ UNCHANGED recording
  <2>1. UNCHANGED <<recording, lifeVars, made, before, failedAt>>
    BY <1>2, <1>4
  <2>2. QED
    BY <1>2, <1>4, <2>1, CreateFailsKeeps
<1>5. QED
  BY <1>1, <1>3, <1>4


\* The tick's record: none, refused, failed, or written.
LEMMA NoRecordKeeps ==
    ASSUME EngineInv, enginePc = "tick", enginePc' = "frame", tick' = tick + 1,
           ticksLeft' = ticksLeft - 1, ~(rec.made /\ replayFail = "ok"),
           UNCHANGED <<recorderVars, replayFail, events, failedAt, live, runStatus, target, stale,
                       report, retired, made, recording, before>>
    PROVE  EngineInv'
<1>1. RecorderInv'
  BY DEF recorderVars, EngineInv, RecorderInv, RecorderTypes, RunInv, FileInv, SettingUp,
     Looping, Running
<1>2. RunInv'
  BY EngineAssumption DEF recorderVars, EngineInv, RunInv, SettingUp, Looping, Running, Errors,
     Statuses
<1>3. FileInv'
  BY DEF recorderVars, EngineInv, FileInv, RestInv, SettingUp, Looping, Running, Ended,
     ShuttingDown
<1>4. EventsInv'
  BY DEF recorderVars, EngineInv, RestInv, EventsInv, EventsTell, Alive, Outcomes, ReportOutcomes,
     SettingUp, Looping, Running, Ended, ShuttingDown
<1>5. RestInv'
  BY DEF recorderVars, EngineInv, RestInv, SettingUp, Looping, Running, Ended
<1>6. QED
  BY <1>1, <1>2, <1>3, <1>4, <1>5 DEF EngineInv

LEMMA RecordFailsKeeps ==
    ASSUME EngineInv, enginePc = "tick", enginePc' = "frame", tick' = tick + 1,
           ticksLeft' = ticksLeft - 1, rec.made, replayFail = "ok",
           NEW e \in Errors, e # "ok", NEW o \in BOOLEAN, o => rec.open,
           rec' = [rec EXCEPT !.open = o, !.error = e], o => tmp' = tmp, ~o => tmp' = <<>>,
           replayFail' = e, failedAt' = tick + 1, Log({"record_failed"}),
           UNCHANGED <<finish, final, live, runStatus, target, stale,
                       report, retired, made, recording, before>>
    PROVE  EngineInv'
<1>1. RecorderInv'
  <2>1. /\ rec \in [made : BOOLEAN, limit : Nat, bytes : Nat, frames : Nat,
                     hashed : {NoRecorder.hashed} \cup {Body(k) : k \in Nat},
                     open : BOOLEAN, error : Errors, finished : BOOLEAN]
        /\ finish = "no" /\ finish' = "no"
    BY DEF EngineInv, RecorderInv, RecorderTypes
  <2>2. /\ rec' \in [made : BOOLEAN, limit : Nat, bytes : Nat, frames : Nat,
                      hashed : {NoRecorder.hashed} \cup {Body(k) : k \in Nat},
                      open : BOOLEAN, error : Errors, finished : BOOLEAN]
        /\ rec'.made = rec.made /\ rec'.limit = rec.limit /\ rec'.bytes = rec.bytes
        /\ rec'.frames = rec.frames /\ rec'.hashed = rec.hashed /\ rec'.finished = rec.finished
        /\ rec'.open = o /\ rec'.error = e
    BY <2>1
  <2>3. ~rec.finished /\ rec.frames <= tick /\ tick \in Nat /\ rec.hashed = Body(rec.frames)
        /\ tmp \in {<<>>, Body(rec.frames), WholeLog(rec.frames)} /\ Len(tmp) <= rec.limit
        /\ rec.frames \in Nat /\ rec.limit \in Nat
    BY <2>1 DEF EngineInv, RecorderInv, RunInv, FileInv, Running, Looping
  <2>4. rec'.frames <= tick'
    BY <2>2, <2>3
  <2>5. CASE o
    <3>1. rec.bytes = Len(tmp) /\ tmp = Body(rec.frames)
      BY <2>1, <2>5 DEF EngineInv, RecorderInv
    <3>2. tmp' = tmp
      BY <2>5
    <3>3. QED
      BY <2>1, <2>2, <2>3, <2>4, <2>5, <3>1, <3>2 DEF RecorderInv, RecorderTypes
  <2>6. CASE ~o
    <3>1. tmp' = <<>> /\ Len(tmp') = 0
      BY <2>6
    <3>2. QED
      BY <2>1, <2>2, <2>3, <2>4, <2>6, <3>1 DEF RecorderInv, RecorderTypes
  <2>7. QED
    BY <2>5, <2>6
<1>2. RunInv'
  BY EngineAssumption DEF EngineInv, RecorderInv, RecorderTypes, RunInv, SettingUp, Looping,
     Running, Errors, Statuses
<1>3. FileInv'
  BY DEF EngineInv, RecorderInv, RecorderTypes, FileInv, RestInv, SettingUp, Looping, Running,
     Ended, ShuttingDown
<1>4. EventsInv'
  BY DEF Log, EngineInv, RestInv, EventsInv, EventsTell, Alive, Outcomes, ReportOutcomes,
     SettingUp, Looping, Running, Ended, ShuttingDown
<1>5. RestInv'
  BY DEF EngineInv, RestInv, SettingUp, Looping, Running, Ended
<1>6. QED
  BY <1>1, <1>2, <1>3, <1>4, <1>5 DEF EngineInv

LEMMA RecordDoneKeeps ==
    ASSUME EngineInv, enginePc = "tick", enginePc' = "frame", tick' = tick + 1,
           ticksLeft' = ticksLeft - 1, rec.made, replayFail = "ok", rec.open,
           rec.bytes + 3 <= rec.limit, rec.frames = tick,
           rec' = [rec EXCEPT !.bytes = @ + 3, !.frames = @ + 1,
                              !.hashed = @ \o FrameRecord(tick + 1, <<>>)],
           tmp' = tmp \o FrameRecord(tick + 1, <<>>),
           UNCHANGED <<replayFail, events, failedAt, finish, final, live, runStatus, target, stale,
                       report, retired, made, recording, before>>
    PROVE  EngineInv'
<1>1. tick \in Nat /\ rec.error = "ok" /\ finish = "no" /\ ~rec.finished
  BY DEF EngineInv, RunInv, RecorderInv, SettingUp, Looping, Running
<1>2. rec.hashed = Body(tick) /\ tmp = Body(tick) /\ rec.bytes = Len(tmp)
  BY <1>1 DEF EngineInv, RecorderInv
<1>3. Body(tick) \o FrameRecord(tick + 1, <<>>) = Body(tick + 1)
  BY <1>1, BodyGrows
<1>4. Len(Body(tick)) = 10 + 3 * tick
  BY <1>1, BodyLength
<1>5. Len(Body(tick + 1)) = 10 + 3 * (tick + 1)
  BY <1>1, BodyLength
<1>6. rec.bytes + 3 = Len(Body(tick + 1))
  <2>1. rec.bytes = 10 + 3 * tick
    BY <1>2, <1>4
  <2>2. QED
    BY ONLY <1>1, <1>5, <2>1
<1>7. rec \in [made : BOOLEAN, limit : Nat, bytes : Nat, frames : Nat,
               hashed : {NoRecorder.hashed} \cup {Body(k) : k \in Nat},
               open : BOOLEAN, error : Errors, finished : BOOLEAN]
  BY DEF EngineInv, RecorderInv, RecorderTypes
<1>8. /\ rec'.made /\ rec'.open /\ ~rec'.finished /\ rec'.error = "ok" /\ rec'.limit = rec.limit
      /\ rec'.bytes = rec.bytes + 3 /\ rec'.frames = tick + 1 /\ rec'.hashed = Body(tick + 1)
  BY <1>1, <1>2, <1>3, <1>7
<1>9. tmp' = Body(tick + 1)
  BY <1>2, <1>3
<1>10. RecorderInv'
  <2>1. rec' \in [made : BOOLEAN, limit : Nat, bytes : Nat, frames : Nat,
                  hashed : {NoRecorder.hashed} \cup {Body(k) : k \in Nat},
                  open : BOOLEAN, error : Errors, finished : BOOLEAN]
    <3>1. Body(tick + 1) \in {NoRecorder.hashed} \cup {Body(k) : k \in Nat}
      BY <1>1
    <3>2. rec' = [rec EXCEPT !.bytes = @ + 3, !.frames = @ + 1, !.hashed = Body(tick + 1)]
      BY <1>2, <1>3
    <3>3. rec.bytes + 3 \in Nat /\ rec.frames + 1 \in Nat
      BY <1>7
    <3> DEFINE h == Body(tick + 1)
               H == {NoRecorder.hashed} \cup {Body(k) : k \in Nat}
    <3>4. h \in H
      BY <3>1
    <3> HIDE DEF h, H
    <3>5. QED
      BY ONLY <1>7, <3>2, <3>3, <3>4 DEF h, H
  <2>2. RecorderTypes'
    BY <1>1, <1>8, <2>1 DEF RecorderTypes, NoRecorder
  <2>3. rec'.bytes = Len(tmp')
    BY <1>6, <1>8, <1>9
  <2>4. Len(tmp') <= rec'.limit
    BY <1>6, <1>8, <1>9
  <2>5. rec'.hashed = Body(rec'.frames) /\ tmp' = Body(rec'.frames) /\ finish' = "no"
    BY <1>1, <1>8, <1>9
  <2>6. rec'.frames <= tick'
    BY <1>1, <1>8
  <2>7. QED
    BY <1>8, <2>2, <2>3, <2>4, <2>5, <2>6 DEF RecorderInv
<1>11. RunInv'
  <2>1. UNCHANGED <<replayFail, runStatus, target, failedAt>>
    OBVIOUS
  <2>2. RunInv
    BY DEF EngineInv
  <2>3. QED
    BY <1>1, <1>8, <2>1, <2>2, EngineAssumption DEF RunInv, SettingUp, Looping, Running, Errors,
       Statuses
<1>12. FileInv'
  BY <1>8 DEF EngineInv, RestInv, FileInv, SettingUp, Looping, Running, Ended, ShuttingDown
<1>13. EventsInv'
  BY <1>8 DEF EngineInv, RestInv, EventsInv, EventsTell, Alive, Outcomes, ReportOutcomes,
     SettingUp, Looping, Running, Ended, ShuttingDown
<1>14. RestInv'
  BY <1>8 DEF EngineInv, RestInv, SettingUp, Looping, Running, Ended
<1>15. QED
  BY <1>10, <1>11, <1>12, <1>13, <1>14 DEF EngineInv

LEMMA TickEndKeeps == ASSUME EngineInv, TickEnd PROVE EngineInv'
<1>1. /\ enginePc = "tick" /\ enginePc' = "frame" /\ tick' = tick + 1 /\ ticksLeft' = ticksLeft - 1
      /\ OnTick(tick + 1)
      /\ UNCHANGED <<live, runStatus, target, stale, report, retired, made, recording, before>>
  BY DEF TickEnd
<1>2. CASE ~(rec.made /\ replayFail = "ok")
  BY <1>1, <1>2, NoRecordKeeps DEF OnTick
<1>3. CASE rec.made /\ replayFail = "ok"
  <2>1. /\ WriteFrame(tick + 1, <<>>) /\ replayFail' = rec'.error
        /\ IF rec'.error = "ok" THEN UNCHANGED <<events, failedAt>>
           ELSE Log({"record_failed"}) /\ failedAt' = tick + 1
    BY <1>1, <1>3 DEF OnTick
  <2>2. /\ rec.error = "ok" /\ ~rec.finished /\ finish = "no" /\ tick \in Nat /\ rec.open
        /\ rec \in [made : BOOLEAN, limit : Nat, bytes : Nat, frames : Nat,
                     hashed : {NoRecorder.hashed} \cup {Body(k) : k \in Nat},
                     open : BOOLEAN, error : Errors, finished : BOOLEAN]
    BY <1>1, <1>3 DEF EngineInv, RunInv, FileInv, RecorderInv, RecorderTypes, Running, Looping
  <2>3. Len(<<>>) = 0
    OBVIOUS
  <2>4. CASE WriteRefused(tick + 1, <<>>)
    <3> DEFINE e == Refusal(tick + 1, <<>>)
    <3>1. e # "ok" /\ e \in Errors
      BY <2>2, <2>4 DEF WriteRefused, Refusal, Errors
    <3>2. rec' = [rec EXCEPT !.error = e] /\ UNCHANGED <<finish, tmp, final>>
      BY <2>4 DEF WriteRefused
    <3> HIDE DEF e
    <3>3. rec' = [rec EXCEPT !.open = TRUE, !.error = e] /\ rec'.error = e
      BY <2>2, <3>2
    <3>4. QED
      BY <1>1, <1>3, <2>1, <2>2, <3>1, <3>2, <3>3, RecordFailsKeeps
  <2>5. CASE WriteFails(tick + 1, <<>>)
    <3>1. rec' = [rec EXCEPT !.open = FALSE, !.error = "IoError"] /\ tmp' = <<>>
          /\ UNCHANGED <<finish, final>>
      BY <2>5 DEF WriteFails
    <3>2. rec'.error = "IoError" /\ "IoError" \in Errors
      BY <2>2, <3>1 DEF Errors
    <3>3. QED
      BY <1>1, <1>3, <2>1, <3>1, <3>2, RecordFailsKeeps
  <2>6. CASE WriteDone(tick + 1, <<>>)
    <3>1. Refusal(tick + 1, <<>>) = "ok"
      BY <2>6 DEF WriteDone
    <3>2. tick + 1 = rec.frames + 1 /\ ~(rec.bytes + 3 + 0 > rec.limit)
      BY <2>2, <2>3, <3>1 DEF Refusal, FrameOverhead
    <3>3. rec.bytes + 3 <= rec.limit /\ rec.frames = tick
      BY <2>2, <3>2
    <3>4. /\ rec' = [rec EXCEPT !.bytes = @ + 3 + 0, !.frames = @ + 1,
                                !.hashed = @ \o FrameRecord(tick + 1, <<>>)]
          /\ tmp' = tmp \o FrameRecord(tick + 1, <<>>) /\ UNCHANGED <<finish, final>>
      BY <2>3, <2>6 DEF WriteDone, FrameOverhead
    <3>5. rec.bytes + 3 + 0 = rec.bytes + 3
      BY <2>2
    <3>6. rec' = [rec EXCEPT !.bytes = @ + 3, !.frames = @ + 1,
                             !.hashed = @ \o FrameRecord(tick + 1, <<>>)]
      BY <3>4, <3>5
    <3>7. rec'.error = "ok"
      BY <2>2, <3>6
    <3>8. replayFail' = replayFail /\ UNCHANGED <<events, failedAt>>
      BY <1>3, <2>1, <3>7
    <3>9. QED
      BY <1>1, <1>3, <2>2, <3>3, <3>4, <3>6, <3>8, RecordDoneKeeps
  <2>7. QED
    BY <2>1, <2>4, <2>5, <2>6 DEF WriteFrame
<1>4. QED
  BY <1>2, <1>3

-----------------------------------------------------------------------------
(* finish, the shutdown and a crash *)

LEMMA FinishBeginKeeps ==
    ASSUME EngineInv, Finish, enginePc = "finish", MustFinish, FinishBegin, enginePc' = "finishing"
    PROVE  EngineInv'
<1>1. RecorderInv'
  BY DEF EngineInv, RecorderInv, RecorderTypes, FinishBegin, MustFinish, Finish, recorderVars,
     fileVars, lifeHistory
<1>2. RunInv'
  BY DEF EngineInv, RunInv, FinishBegin, MustFinish, Finish, recorderVars, fileVars, lifeHistory,
     SettingUp, Looping, Running
<1>3. FileInv'
  BY DEF EngineInv, FileInv, FinishBegin, MustFinish, Finish, recorderVars, fileVars, lifeHistory,
     SettingUp, Looping, Running, Ended, ShuttingDown
<1>4. EventsInv'
  BY DEF EngineInv, EventsInv, EventsTell, Alive, FinishBegin, MustFinish, Finish, recorderVars,
     fileVars, lifeHistory, SettingUp, Looping, Running, Ended, ShuttingDown
<1>5. RestInv'
  BY DEF EngineInv, RestInv, FinishBegin, MustFinish, Finish, recorderVars, fileVars, lifeHistory,
     SettingUp, Looping, Running, Ended, ShuttingDown
<1>6. QED
  BY <1>1, <1>2, <1>3, <1>4, <1>5 DEF EngineInv

\* The recorder's type, without the names of its fields' values.
LEMMA RecIsRecord ==
    ASSUME RecorderInv
    PROVE  rec \in [made : BOOLEAN, limit : Nat, bytes : Nat, frames : Nat,
                    hashed : {NoRecorder.hashed} \cup {Body(k) : k \in Nat},
                    open : BOOLEAN, error : Errors, finished : BOOLEAN]
  BY DEF RecorderInv, RecorderTypes

LEMMA FinishFailsKeeps ==
    ASSUME EngineInv, FinishFails,
           UNCHANGED <<enginePc, live, replayFail, runStatus, target, tick, ticksLeft, stale, report,
                       retired, lifeHistory>>
    PROVE  EngineInv'
<1>1. RecorderInv'
  <2>1. /\ rec.made /\ ~rec.finished /\ finish' = "no" /\ tmp' = <<>>
        /\ rec.frames <= tick /\ rec.hashed = Body(rec.frames)
    BY DEF EngineInv, RecorderInv, FinishFails
  <2>2. /\ rec' \in [made : BOOLEAN, limit : Nat, bytes : Nat, frames : Nat,
                      hashed : {NoRecorder.hashed} \cup {Body(k) : k \in Nat},
                      open : BOOLEAN, error : Errors, finished : BOOLEAN]
        /\ rec'.made = rec.made /\ rec'.limit = rec.limit /\ rec'.frames = rec.frames
        /\ rec'.hashed = rec.hashed /\ rec'.finished = rec.finished
        /\ rec'.open = FALSE /\ rec'.error # "ok"
    BY RecIsRecord DEF EngineInv, FinishFails, Errors
  <2>3. tick' = tick /\ rec'.limit \in Nat /\ Len(tmp') = 0
    BY <2>1, <2>2
  <2>4. QED
    BY <2>1, <2>2, <2>3 DEF RecorderInv, RecorderTypes
<1>2. RunInv'
  BY EngineAssumption DEF EngineInv, RunInv, RecorderInv, RestInv, FinishFails, Fits, fileVars,
     lifeHistory, SettingUp, Looping, Running, Errors, Statuses
<1>3. FileInv'
  BY DEF EngineInv, FileInv, RecorderInv, RestInv, FinishFails, Fits, fileVars, lifeHistory,
     SettingUp, Looping, Running, Ended, ShuttingDown
<1>4. EventsInv'
  BY EngineAssumption DEF EngineInv, RecorderInv, RecorderTypes, RunInv, FileInv, EventsInv,
     EventsTell, Outcomes, ReportOutcomes, Alive, RestInv, FinishFails, Fits, fileVars,
     lifeHistory, SettingUp, Looping, Running, Ended, ShuttingDown, NoRecorder, Errors, Statuses
<1>5. RestInv'
  BY EngineAssumption DEF EngineInv, RestInv, RecorderInv, RunInv, FinishFails, Fits, fileVars,
     lifeHistory, SettingUp, Looping, Running, Ended, ShuttingDown
<1>6. QED
  BY <1>1, <1>2, <1>3, <1>4, <1>5 DEF EngineInv

LEMMA FinishTrailerKeeps ==
    ASSUME EngineInv, FinishTrailer,
           UNCHANGED <<enginePc, live, replayFail, runStatus, target, tick, ticksLeft, stale, report,
                       retired, lifeHistory>>
    PROVE  EngineInv'
<1>1. RecorderInv'
  <2>1. /\ rec.made /\ ~rec.finished /\ rec.open /\ rec.error = "ok" /\ finish = "trailer"
        /\ finish' = "close" /\ rec.frames <= tick /\ rec.hashed = Body(rec.frames)
        /\ tmp = Body(rec.frames) /\ rec.bytes = Len(tmp) /\ enginePc = "finishing"
        /\ tmp' = tmp \o Trailer(rec.frames, Hash(rec.hashed)) /\ rec.bytes + 4 <= rec.limit
    BY DEF EngineInv, RecorderInv, FinishTrailer, Fits, TrailerSize
  <2>2. rec.frames \in Nat /\ rec.bytes \in Nat
    BY RecIsRecord DEF EngineInv
  <2>3. tmp' = WholeLog(rec.frames)
    BY <2>1 DEF WholeLog
  <2>4. Len(tmp') = rec.bytes + 4
    <3>1. Len(tmp') = 14 + 3 * rec.frames
      BY <2>2, <2>3, LogLength
    <3>2. rec.bytes = 10 + 3 * rec.frames
      BY <2>1, <2>2, BodyLength
    <3>3. QED
      BY ONLY <2>2, <3>1, <3>2
  <2>5. /\ rec' \in [made : BOOLEAN, limit : Nat, bytes : Nat, frames : Nat,
                      hashed : {NoRecorder.hashed} \cup {Body(k) : k \in Nat},
                      open : BOOLEAN, error : Errors, finished : BOOLEAN]
        /\ rec'.made = rec.made /\ rec'.limit = rec.limit /\ rec'.frames = rec.frames
        /\ rec'.hashed = rec.hashed /\ rec'.finished = rec.finished /\ rec'.bytes = rec.bytes + 4
        /\ rec'.open = rec.open /\ rec'.error = rec.error
    BY <2>2, RecIsRecord DEF EngineInv, FinishTrailer, TrailerSize
  <2>6. Len(tmp') <= rec'.limit /\ rec'.bytes = Len(tmp') /\ enginePc' = "finishing" /\ tick' = tick
    BY <2>1, <2>4, <2>5
  <2>7. QED
    BY <2>1, <2>3, <2>5, <2>6 DEF RecorderInv, RecorderTypes
<1>2. RunInv'
  BY DEF EngineInv, RunInv, FinishTrailer, Fits, fileVars, lifeHistory, SettingUp, Looping,
     Running
<1>3. FileInv'
  BY DEF EngineInv, FileInv, RecorderInv, RestInv, FinishTrailer, Fits, fileVars, lifeHistory,
     SettingUp, Looping, Running, Ended, ShuttingDown
<1>4. EventsInv'
  BY EngineAssumption DEF EngineInv, RecorderInv, RecorderTypes, RunInv, FileInv, EventsInv,
     EventsTell, Outcomes, ReportOutcomes, Alive, RestInv, FinishTrailer, Fits, fileVars,
     lifeHistory, SettingUp, Looping, Running, Ended, ShuttingDown, NoRecorder, Errors, Statuses
<1>5. RestInv'
  BY EngineAssumption DEF EngineInv, RestInv, RecorderInv, RunInv, FinishTrailer, Fits, fileVars,
     lifeHistory, SettingUp, Looping, Running, Ended, ShuttingDown
<1>6. QED
  BY <1>1, <1>2, <1>3, <1>4, <1>5 DEF EngineInv

LEMMA FinishCloseKeeps ==
    ASSUME EngineInv, FinishClose,
           UNCHANGED <<enginePc, live, replayFail, runStatus, target, tick, ticksLeft, stale, report,
                       retired, lifeHistory>>
    PROVE  EngineInv'
<1>1. RecorderInv'
  BY EngineAssumption DEF EngineInv, RecorderInv, RecorderTypes, RunInv, FileInv, EventsInv,
     EventsTell, Outcomes, ReportOutcomes, Alive, RestInv, FinishClose, fileVars, lifeHistory,
     SettingUp, Looping, Running, Ended, ShuttingDown, NoRecorder, Errors, Statuses
<1>2. RunInv'
  BY EngineAssumption DEF EngineInv, RecorderInv, RecorderTypes, RunInv, FileInv, EventsInv,
     EventsTell, Outcomes, ReportOutcomes, Alive, RestInv, FinishClose, fileVars, lifeHistory,
     SettingUp, Looping, Running, Ended, ShuttingDown, NoRecorder, Errors, Statuses
<1>3. FileInv'
  BY EngineAssumption DEF EngineInv, RecorderInv, RecorderTypes, RunInv, FileInv, EventsInv,
     EventsTell, Outcomes, ReportOutcomes, Alive, RestInv, FinishClose, fileVars, lifeHistory,
     SettingUp, Looping, Running, Ended, ShuttingDown, NoRecorder, Errors, Statuses
<1>4. EventsInv'
  BY EngineAssumption DEF EngineInv, RecorderInv, RecorderTypes, RunInv, FileInv, EventsInv,
     EventsTell, Outcomes, ReportOutcomes, Alive, RestInv, FinishClose, fileVars, lifeHistory,
     SettingUp, Looping, Running, Ended, ShuttingDown, NoRecorder, Errors, Statuses
<1>5. RestInv'
  BY EngineAssumption DEF EngineInv, RestInv, RecorderInv, RunInv, FinishClose, fileVars,
     lifeHistory, SettingUp, Looping, Running, Ended, ShuttingDown
<1>6. QED
  BY <1>1, <1>2, <1>3, <1>4, <1>5 DEF EngineInv

LEMMA FinishRenameKeeps ==
    ASSUME EngineInv, FinishRename,
           UNCHANGED <<enginePc, live, replayFail, runStatus, target, tick, ticksLeft, stale, report,
                       retired, lifeHistory>>
    PROVE  EngineInv'
<1>1. RecorderInv'
  <2>1. /\ rec.made /\ ~rec.finished /\ ~rec.open /\ rec.error = "ok" /\ finish' = "no"
        /\ rec.frames = tick /\ rec.frames \in Nat /\ rec.hashed = Body(rec.frames)
        /\ tmp = WholeLog(rec.frames)
        /\ tmp' = <<>> /\ final' = tmp
    BY RecIsRecord DEF EngineInv, RecorderInv, RunInv, FinishRename
  <2>2. /\ rec' \in [made : BOOLEAN, limit : Nat, bytes : Nat, frames : Nat,
                      hashed : {NoRecorder.hashed} \cup {Body(k) : k \in Nat},
                      open : BOOLEAN, error : Errors, finished : BOOLEAN]
        /\ rec'.made = rec.made /\ rec'.limit = rec.limit /\ rec'.frames = rec.frames
        /\ rec'.hashed = rec.hashed /\ rec'.finished = TRUE
        /\ rec'.open = rec.open /\ rec'.error = rec.error
    BY RecIsRecord DEF EngineInv, FinishRename
  <2>3. tick' = tick /\ rec'.limit \in Nat /\ Len(tmp') = 0
    BY <2>1, <2>2
  <2>4. QED
    BY <2>1, <2>2, <2>3 DEF RecorderInv, RecorderTypes
<1>2. RunInv'
  BY DEF EngineInv, RunInv, FinishRename, fileVars, lifeHistory, SettingUp, Looping, Running
<1>3. FileInv'
  BY EngineAssumption DEF EngineInv, RecorderInv, RecorderTypes, RunInv, FileInv, EventsInv,
     EventsTell, Outcomes, ReportOutcomes, Alive, RestInv, FinishRename, fileVars, lifeHistory,
     SettingUp, Looping, Running, Ended, ShuttingDown, NoRecorder, Errors, Statuses
<1>4. EventsInv'
  BY EngineAssumption DEF EngineInv, RecorderInv, RecorderTypes, RunInv, FileInv, EventsInv,
     EventsTell, Outcomes, ReportOutcomes, Alive, RestInv, FinishRename, fileVars, lifeHistory,
     SettingUp, Looping, Running, Ended, ShuttingDown, NoRecorder, Errors, Statuses
<1>5. RestInv'
  BY EngineAssumption DEF EngineInv, RestInv, RecorderInv, RunInv, FinishRename, fileVars,
     lifeHistory, SettingUp, Looping, Running, Ended, ShuttingDown
<1>6. QED
  BY <1>1, <1>2, <1>3, <1>4, <1>5 DEF EngineInv

LEMMA FinishRenameFailsKeeps ==
    ASSUME EngineInv, FinishRenameFails,
           UNCHANGED <<enginePc, live, replayFail, runStatus, target, tick, ticksLeft, stale, report,
                       retired, lifeHistory>>
    PROVE  EngineInv'
<1>1. RecorderInv'
  BY EngineAssumption DEF EngineInv, RecorderInv, RecorderTypes, RunInv, FileInv, EventsInv,
     EventsTell, Outcomes, ReportOutcomes, Alive, RestInv, FinishRenameFails, fileVars,
     lifeHistory, SettingUp, Looping, Running, Ended, ShuttingDown, NoRecorder, Errors, Statuses
<1>2. RunInv'
  BY EngineAssumption DEF EngineInv, RunInv, RecorderInv, RestInv, FinishRenameFails, fileVars,
     lifeHistory, SettingUp, Looping, Running, Errors, Statuses
<1>3. FileInv'
  BY DEF EngineInv, FileInv, RecorderInv, RestInv, FinishRenameFails, fileVars, lifeHistory,
     SettingUp, Looping, Running, Ended, ShuttingDown
<1>4. EventsInv'
  BY EngineAssumption DEF EngineInv, RecorderInv, RecorderTypes, RunInv, FileInv, EventsInv,
     EventsTell, Outcomes, ReportOutcomes, Alive, RestInv, FinishRenameFails, fileVars,
     lifeHistory, SettingUp, Looping, Running, Ended, ShuttingDown, NoRecorder, Errors, Statuses
<1>5. RestInv'
  BY EngineAssumption DEF EngineInv, RestInv, RecorderInv, RunInv, FinishRenameFails, fileVars,
     lifeHistory, SettingUp, Looping, Running, Ended, ShuttingDown
<1>6. QED
  BY <1>1, <1>2, <1>3, <1>4, <1>5 DEF EngineInv

LEMMA FinishKeeps == ASSUME EngineInv, Finish PROVE EngineInv'
<1>1. CASE enginePc = "finish" /\ MustFinish /\ FinishBegin /\ enginePc' = "finishing"
  BY <1>1, FinishBeginKeeps
<1>2. CASE enginePc = "finishing" /\ FinishStep /\ UNCHANGED enginePc
  <2>1. UNCHANGED <<enginePc, live, replayFail, runStatus, target, tick, ticksLeft, stale, report,
                    retired, lifeHistory>>
    BY <1>2 DEF Finish
  <2>2. QED
    BY <1>2, <2>1, FinishFailsKeeps, FinishTrailerKeeps, FinishCloseKeeps, FinishRenameKeeps,
       FinishRenameFailsKeeps DEF FinishStep
<1>3. QED
  BY <1>1, <1>2 DEF Finish

LEMMA NoRecorderHolds == rec' = NoRecorder /\ finish' = "no" => RecorderInv'
  BY DEF RecorderInv, RecorderTypes, NoRecorder, Errors

LEMMA ShutRecorderKeeps == ASSUME EngineInv, ShutRecorder PROVE EngineInv'
<1>1. RecorderInv'
  BY NoRecorderHolds DEF EngineInv, RecorderInv, ShutRecorder, Destroy
<1>2. RunInv'
  BY EngineAssumption DEF EngineInv, RunInv, ShutRecorder, Destroy, Log, SettingUp, Looping,
     Running, Errors, Statuses
<1>3. FileInv'
  BY EngineAssumption DEF EngineInv, RecorderInv, RecorderTypes, RunInv, FileInv, EventsInv,
     EventsTell, Outcomes, ReportOutcomes, Alive, RestInv, ShutRecorder, Destroy, Log, SettingUp,
     Looping, Running, Ended, ShuttingDown, NoRecorder, Errors, Statuses
<1>4. EventsInv'
  BY DEF EngineInv, EventsInv, EventsTell, Outcomes, ReportOutcomes, Alive, FileInv, RestInv,
     ShutRecorder, Destroy, Log, SettingUp, Looping, Running, Ended, ShuttingDown
<1>5. RestInv'
  BY DEF EngineInv, RestInv, ShutRecorder, Destroy, Log, SettingUp, Looping, Running, Ended,
     ShuttingDown
<1>6. QED
  BY <1>1, <1>2, <1>3, <1>4, <1>5 DEF EngineInv

LEMMA CrashKeeps == ASSUME EngineInv, Crash PROVE EngineInv'
<1>1. RecorderInv'
  BY NoRecorderHolds DEF Crash, Die
<1>2. RunInv'
  BY DEF EngineInv, RunInv, Crash, Die, lifeHistory, SettingUp, Looping, Running
<1>3. FileInv'
  BY DEF EngineInv, FileInv, Crash, Die, lifeHistory, SettingUp, Looping, Running, Ended,
     ShuttingDown
<1>4. EventsInv'
  BY DEF EngineInv, EventsInv, EventsTell, Alive, Crash, Die, lifeHistory, SettingUp, Looping,
     Running, Ended, ShuttingDown
<1>5. RestInv'
  BY DEF EngineInv, RestInv, Crash, Die, lifeHistory, SettingUp, Looping, Running, Ended,
     ShuttingDown
<1>6. QED
  BY <1>1, <1>2, <1>3, <1>4, <1>5 DEF EngineInv

LEMMA EngineStepKeeps == ASSUME EngineInv, [EngineNext]_engineVars PROVE EngineInv'
  BY MakeKeeps, StartReplayRecordingKeeps, StartProfileReportKeeps, RegisterLateKeeps, RunKeeps,
     ShutdownBeforeRunKeeps, FrameBeginZeroKeeps, SetUpFailsKeeps, CreateLoopKeeps, CreateSnapshotKeeps,
     TickIsDueKeeps, TickBeginKeeps, TickEndKeeps, FrameFailsKeeps, AfterFrameKeeps,
     NothingToFinishKeeps, FinishKeeps, FinishedKeeps, ReportKeeps, ShutLoopKeeps, ShutRecorderKeeps,
     ShutWorldKeeps, ShutProfilerKeeps, ShutLoggerKeeps, CrashKeeps, StutterKeeps
  DEF EngineNext, EngineStep

-----------------------------------------------------------------------------
(* What the invariant says *)

LEMMA EmptyLog == ~Parse(<<>>).ok
<1>1. <<>> \in Seq(Data) /\ Len(<<>>) = 0
  OBVIOUS
<1>2. QED
  BY <1>1, NoHashRefused

LEMMA FilesHold == ASSUME EngineInv PROVE FinalLogIsWhole
<1>1. EngineTypeOK
  <2>1. /\ rec.error \in Errors /\ rec.frames \in Nat /\ finish \in {"no", "trailer", "close", "rename"}
    BY RecIsRecord DEF EngineInv, RecorderInv, RecorderTypes
  <2>2. rec.made /\ rec.open /\ finish \in {"no", "trailer"} => rec.bytes = Len(tmp)
    BY DEF EngineInv, RecorderInv
  <2>3. tick \in 0..MaxTicks
    BY EngineAssumption DEF EngineInv, RunInv
  <2>4. failedAt \in 0..MaxTicks
    BY <2>3, EngineAssumption DEF EngineInv, RunInv
  <2>5. rec.frames \in 0..MaxTicks
    <3>1. CASE rec.made
      BY <2>1, <2>3, <3>1, EngineAssumption DEF EngineInv, RecorderInv
    <3>2. CASE ~rec.made
      <4>1. rec.frames = 0
        BY <3>2 DEF EngineInv, RecorderInv, RecorderTypes, NoRecorder
      <4>2. QED
        BY <4>1, EngineAssumption
    <3>3. QED
      BY <3>1, <3>2
  <2>6. QED
    BY <2>1, <2>2, <2>3, <2>4, <2>5 DEF EngineInv, RunInv, RestInv, EngineTypeOK
<1>2. LogIsWhole
  BY LogParses DEF EngineInv, FileInv, LogIsWhole
<1>3. DamagedLogsRejected
  <2>1. ASSUME final # <<>>
        PROVE  /\ \A n \in 0..(Len(final) - 1) : ~Parse(SubSeq(final, 1, n)).ok
               /\ \A i \in DOMAIN final : \A unit \in Noise \ {final[i]} :
                    ~Parse([final EXCEPT ![i] = unit]).ok
    <3>1. PICK k \in Nat : final = WholeLog(k)
      BY <2>1 DEF EngineInv, FileInv
    <3>2. QED
      BY <3>1, CutRefused, ChangedRefused
  <2>2. ASSUME final = <<>>
        PROVE  /\ \A n \in 0..(Len(final) - 1) : ~Parse(SubSeq(final, 1, n)).ok
               /\ \A i \in DOMAIN final : \A unit \in Noise \ {final[i]} :
                    ~Parse([final EXCEPT ![i] = unit]).ok
    <3>1. 0..(Len(final) - 1) = {} /\ DOMAIN final = {}
      BY <2>2
    <3>2. QED
      BY <3>1
  <2>3. ASSUME rec.open, finish # "close"
        PROVE  \A n \in 0..Len(tmp) : ~Parse(SubSeq(tmp, 1, n)).ok
    <3>1. tmp = Body(rec.frames) /\ rec.frames \in Nat
      BY <2>3, RecIsRecord DEF EngineInv, RecorderInv
    <3>2. QED
      BY <3>1, BodyCutRefused
  <2>4. QED
    BY <2>1, <2>2, <2>3 DEF DamagedLogsRejected
<1>4. SizeLimitHolds
  BY DEF EngineInv, RecorderInv, SizeLimitHolds
<1>5. QED
  BY <1>1, <1>2, <1>3, <1>4 DEF FinalLogIsWhole

LEMMA OutcomeHolds == ASSUME EngineInv PROVE OutcomeMatchesFile
<1>1. StatusTellsFile
  <2>1. enginePc = "shut" => enginePc \in ShuttingDown
    BY DEF ShuttingDown
  <2>2. tick \in Nat
    BY DEF EngineInv, RunInv
  <2>3. QED
    BY <2>1, <2>2, LogParses DEF EngineInv, FileInv, StatusTellsFile
<1>2. NoTemporaryLeft
  BY DEF EngineInv, FileInv, NoTemporaryLeft, ShuttingDown
<1>3. EveryRequestAnswered
  <2>1. \A e : Cardinality({e}) = 1
    BY FS_Singleton
  <2>2. ASSUME enginePc = "shut", "record_started" \in events
        PROVE  Cardinality({"record_finished", "record_aborted"} \cap events) = 1
    <3>1. EventsTell /\ recording /\ enginePc \in ShuttingDown
      BY <2>2 DEF EngineInv, EventsInv, EventsTell, ShuttingDown
    <3>2. \E e \in Outcomes : Outcomes \cap events = {e}
      BY <3>1 DEF EventsTell
    <3>3. QED
      BY <2>1, <3>2 DEF Outcomes
  <2>3. ASSUME enginePc = "shut", "report_started" \in events
        PROVE  Cardinality({"report_written", "report_write_failed", "report_aborted"} \cap events) = 1
    <3>1. EventsTell /\ report # "no" /\ report # "asked" /\ report \in {"no", "asked", "final"}
      BY <2>3 DEF EngineInv, EventsInv, EventsTell, RestInv
    <3>2. \E e \in ReportOutcomes : ReportOutcomes \cap events = {e}
      BY <3>1 DEF EventsTell
    <3>3. QED
      BY <2>1, <3>2 DEF ReportOutcomes
  <2>4. QED
    BY <2>2, <2>3 DEF EveryRequestAnswered
<1>4. BoundedOvershoot
  <2>1. /\ tick \in Nat /\ ticksLeft \in Nat /\ FrameBudget \in Nat
        /\ target # 0 => tick + ticksLeft < target + FrameBudget
        /\ failedAt # 0 => tick + ticksLeft < failedAt + FrameBudget
        /\ target \in Nat /\ failedAt \in Nat
    BY EngineAssumption DEF EngineInv, RunInv
  <2>2. QED
    BY <2>1 DEF BoundedOvershoot
<1>5. QED
  BY <1>1, <1>2, <1>3, <1>4 DEF OutcomeMatchesFile

\* The invariant of the engine and its log.
THEOREM EngineHolds == EngineSafety => []EngineInv
<1>1. EngineInit => EngineInv
  BY InitHolds
<1>2. EngineInv /\ [EngineNext]_engineVars => EngineInv'
  BY EngineStepKeeps
<1>3. QED
  BY <1>1, <1>2, PTL DEF EngineSafety

\* Whatever process died at whatever step, the file at the final path is a
\* log the reader accepts, or there is none; the reader refuses what is cut
\* short or changed (replay.cpp, finish and parseReplay).
THEOREM FinalLogWhole == EngineSafety => []FinalLogIsWhole
<1>1. EngineInv => FinalLogIsWhole
  BY FilesHold
<1>2. QED
  BY <1>1, EngineHolds, PTL

\* After the shutdown the run's status tells what is at the final path, no
\* temporary file is left, and every recording and report that was announced
\* has one outcome (engine.cpp, run_headless and shutdown).
THEOREM OutcomeTells == EngineSafety => []OutcomeMatchesFile
<1>1. EngineInv => OutcomeMatchesFile
  BY OutcomeHolds
<1>2. QED
  BY <1>1, EngineHolds, PTL
=============================================================================
