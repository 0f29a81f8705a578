------------------------- MODULE RenderThreadProofs -------------------------
(***************************************************************************)
(* Theorems about the frame handoff for every number of frames: the state   *)
(* of module RenderThread is well typed, waitIdle is a barrier, a copy      *)
(* mixes at most two adjacent publications, no drop is silent, a quiet      *)
(* stats() is exact, and every step of the two threads is a step of the     *)
(* abstract handoff.                                                        *)
(***************************************************************************)
EXTENDS RenderThread, FiniteSetTheorems, TLAPS

\* The render thread is outside the copy and holds no frame.
Resting == {"start", "wait", "poll", "onStop", "exited"}

\* The render thread saw a publication newer than lastSeen and is copying it.
Copying == {"check", "copySeq", "copyWord", "copyCheck"}

\* How far the owner's write of publication seq + 1 has come.
SlotInv ==
    /\ ownerPc \in {"word", "bump"} => seq < MaxFrames
    /\ submitted = IF ownerPc = "count" THEN seq - 1 ELSE seq
    /\ ownerPc = "count" => seq > 0
    /\ \A w \in Words :
         slot[w] = IF \/ ownerPc = "bump"
                      \/ ownerPc = "word" /\ w < word
                   THEN seq + 1 ELSE seq

\* The three counters the threads compare, and inFlight, agree with where the
\* render thread is.
ConsumerInv ==
    /\ lastSeen <= seq
    /\ copySeq <= seq
    /\ renderPc \in Copying => seq > lastSeen
    /\ renderPc \in {"copyWord", "copyCheck"} => copySeq > lastSeen
    /\ HoldsFrame => lastSeen = copySeq
    /\ inFlight <=> renderPc \in {"consume", "batch", "submit", "count",
                                  "clear"}
    /\ IF renderPc \in {"mark", "consume"} THEN consumedSeq < lastSeen
                                           ELSE consumedSeq = lastSeen
    /\ lastSeen = 0 \/ lastSeen \in accepted

\* A word is read no earlier than copySeq was and no later than now.
CopyInv ==
    /\ renderPc \in {"copyWord", "copyCheck"} =>
         \A w \in Words :
            (renderPc = "copyWord" => w < readWord)
               => copySeq <= copy[w] /\ copy[w] <= seq + 1
    /\ TornByAtMostOne

\* The owner's decisions taken from a snapshot stay true until it acts on them.
OwnerInv ==
    /\ ownerPc = "waitFlight" => seq = consumedSeq
    /\ quiet => seq = lastSeen /\ renderPc \in Resting
    /\ (ownerPc \in {"word", "bump"} /\ seq > 0) =>
         seq \in accepted \/ seq \in warned
    /\ DropsAreLogged

\* The stop request and the calls a stopped object still serves.
StopInv ==
    /\ ownerPc \in {"word", "bump", "count", "waitSeq", "waitFlight"} => valid
    /\ ownerPc = "join" => ~valid
    /\ (~valid /\ ownerPc # "join") => renderPc = "exited"

\* An accepted publication not yet counted in rendered_.
Uncounted ==
    IF renderPc \in {"mark", "consume", "batch", "submit", "count"} THEN 1 ELSE 0

\* The count of rendered frames follows the set of accepted publications, and
\* what a quiet stats() has read so far is that nothing is on its way.
StatsInv ==
    /\ IsFiniteSet(accepted) /\ accepted \subseteq 1..lastSeen
    /\ Cardinality(accepted) = rendered + Uncounted
    /\ quiet => /\ ownerPc \in {"statFlight", "statRendered"} => pendingSeen = 0
                /\ ownerPc = "statRendered" => flightSeen = 0

IInv == TypeOK /\ SlotInv /\ ConsumerInv /\ CopyInv /\ OwnerInv /\ StopInv

\* The unsigned difference of stats() stays in range.
LEMMA ModRange ==
    ASSUME NEW x \in Int PROVE x % CounterMod \in Nat
BY FramesAssumption, CounterAssumption

\* The freshly constructed object satisfies the invariant.
LEMMA InitInv == Init => IInv
<1> SUFFICES ASSUME Init PROVE IInv
    OBVIOUS
<1>1. TypeOK
  <2>1. 0 \in Frames /\ 1 \in Words
    BY FramesAssumption DEF Frames, Words
  <2>2. NoStats \in [framesSubmitted : Nat, framesRendered : Nat,
                     framesDropped : Nat]
    BY DEF NoStats
  <2>3. ownerPc \in OwnerPcs /\ renderPc \in RenderPcs
    BY DEF Init, OwnerPcs, RenderPcs
  <2>4. QED
    BY <2>1, <2>2, <2>3 DEF Init, TypeOK
<1>2. SlotInv
  BY DEF Init, SlotInv, Words
<1>3. ConsumerInv
  BY DEF Init, ConsumerInv, HoldsFrame, Copying
<1>4. CopyInv
  BY DEF Init, CopyInv, TornByAtMostOne, HoldsFrame
<1>5. OwnerInv
  BY DEF Init, OwnerInv, DropsAreLogged
<1>6. StopInv
  BY DEF Init, StopInv
<1>7. QED
  BY <1>1, <1>2, <1>3, <1>4, <1>5, <1>6 DEF IInv

\* Every step keeps the state well typed.
LEMMA TypeStep == IInv /\ [Next]_vars => TypeOK'
<1> SUFFICES ASSUME IInv, [Next]_vars PROVE TypeOK'
    OBVIOUS
<1> USE FramesAssumption DEF IInv, TypeOK, SlotInv, Frames, Words, OwnerPcs,
        RenderPcs, sharedVars, ownerVars, renderVars, historyVars
<1>1. CASE SubmitFrame
  BY <1>1 DEF SubmitFrame
<1>2. CASE WriteWord
  BY <1>2 DEF WriteWord
<1>3. CASE BumpSeq
  BY <1>3 DEF BumpSeq
<1>4. CASE CountSubmitted
  BY <1>4 DEF CountSubmitted
<1>5. CASE WaitIdle
  BY <1>5 DEF WaitIdle
<1>6. CASE WaitSeq
  BY <1>6 DEF WaitSeq
<1>7. CASE WaitFlight
  BY <1>7 DEF WaitFlight
<1>8. CASE Shutdown
  BY <1>8 DEF Shutdown
<1>9. CASE Join
  BY <1>9 DEF Join
<1>10. CASE StatsPending
  BY <1>10 DEF StatsPending
<1>11. CASE StatsFlight
  BY <1>11 DEF StatsFlight
<1>12. CASE StatsReturn
  <2>1. /\ submitted \in Nat /\ rendered \in Nat
        /\ pendingSeen \in Int /\ flightSeen \in Int
    OBVIOUS
  <2>2. (submitted - rendered - pendingSeen - flightSeen) % CounterMod \in Nat
    BY <2>1, ModRange
  <2>3. QED
    BY <1>12, <2>1, <2>2 DEF StatsReturn
<1>13. CASE OnStart
  BY <1>13 DEF OnStart, RenderStep
<1>14. CASE WaitStop
  BY <1>14 DEF WaitStop, RenderStep
<1>15. CASE PollSeq
  BY <1>15 DEF PollSeq, RenderStep
<1>16. CASE CheckStop
  BY <1>16 DEF CheckStop, RenderStep
<1>17. CASE ReadSeq
  BY <1>17 DEF ReadSeq, RenderStep
<1>18. CASE ReadWord
  BY <1>18 DEF ReadWord, RenderStep
<1>19. CASE CheckCopy
  BY <1>19 DEF CheckCopy, RenderStep
<1>20. CASE MarkInFlight
  BY <1>20 DEF MarkInFlight, RenderStep
<1>21. CASE StoreConsumed
  BY <1>21 DEF StoreConsumed, RenderStep
<1>22. CASE BatchStage
  BY <1>22 DEF BatchStage, RenderStep
<1>23. CASE SubmitStage
  BY <1>23 DEF SubmitStage, RenderStep
<1>24. CASE CountRendered
  BY <1>24 DEF CountRendered, RenderStep
<1>25. CASE ClearInFlight
  BY <1>25 DEF ClearInFlight, RenderStep
<1>26. CASE OnStop
  BY <1>26 DEF OnStop, RenderStep
<1>27. CASE UNCHANGED vars
  BY <1>27 DEF vars
<1> QED
  BY <1>1, <1>2, <1>3, <1>4, <1>5, <1>6, <1>7, <1>8, <1>9, <1>10, <1>11,
     <1>12, <1>13, <1>14, <1>15, <1>16, <1>17, <1>18, <1>19, <1>20, <1>21,
     <1>22, <1>23, <1>24, <1>25, <1>26, <1>27
     DEF Next, Owner, OwnerCalls, OwnerContinues, Renderer

\* Every step keeps the slot in step with the owner's program counter.
LEMMA SlotStep == IInv /\ [Next]_vars => SlotInv'
<1> SUFFICES ASSUME IInv, [Next]_vars PROVE SlotInv'
    OBVIOUS
<1> USE FramesAssumption DEF IInv, TypeOK, SlotInv, Frames, Words,
        sharedVars, ownerVars, renderVars, historyVars
<1>1. CASE SubmitFrame
  BY <1>1 DEF SubmitFrame
<1>2. CASE WriteWord
  BY <1>2 DEF WriteWord
<1>3. CASE BumpSeq
  BY <1>3 DEF BumpSeq
<1>4. CASE CountSubmitted
  BY <1>4 DEF CountSubmitted
<1>5. CASE WaitIdle
  BY <1>5 DEF WaitIdle
<1>6. CASE WaitSeq
  BY <1>6 DEF WaitSeq
<1>7. CASE WaitFlight
  BY <1>7 DEF WaitFlight
<1>8. CASE Shutdown
  BY <1>8 DEF Shutdown
<1>9. CASE Join
  BY <1>9 DEF Join
<1>10. CASE StatsPending
  BY <1>10 DEF StatsPending
<1>11. CASE StatsFlight
  BY <1>11 DEF StatsFlight
<1>12. CASE StatsReturn
  BY <1>12 DEF StatsReturn
<1>13. CASE OnStart
  BY <1>13 DEF OnStart, RenderStep
<1>14. CASE WaitStop
  BY <1>14 DEF WaitStop, RenderStep
<1>15. CASE PollSeq
  BY <1>15 DEF PollSeq, RenderStep
<1>16. CASE CheckStop
  BY <1>16 DEF CheckStop, RenderStep
<1>17. CASE ReadSeq
  BY <1>17 DEF ReadSeq, RenderStep
<1>18. CASE ReadWord
  BY <1>18 DEF ReadWord, RenderStep
<1>19. CASE CheckCopy
  BY <1>19 DEF CheckCopy, RenderStep
<1>20. CASE MarkInFlight
  BY <1>20 DEF MarkInFlight, RenderStep
<1>21. CASE StoreConsumed
  BY <1>21 DEF StoreConsumed, RenderStep
<1>22. CASE BatchStage
  BY <1>22 DEF BatchStage, RenderStep
<1>23. CASE SubmitStage
  BY <1>23 DEF SubmitStage, RenderStep
<1>24. CASE CountRendered
  BY <1>24 DEF CountRendered, RenderStep
<1>25. CASE ClearInFlight
  BY <1>25 DEF ClearInFlight, RenderStep
<1>26. CASE OnStop
  BY <1>26 DEF OnStop, RenderStep
<1>27. CASE UNCHANGED vars
  BY <1>27 DEF vars
<1> QED
  BY <1>1, <1>2, <1>3, <1>4, <1>5, <1>6, <1>7, <1>8, <1>9, <1>10, <1>11,
     <1>12, <1>13, <1>14, <1>15, <1>16, <1>17, <1>18, <1>19, <1>20, <1>21,
     <1>22, <1>23, <1>24, <1>25, <1>26, <1>27
     DEF Next, Owner, OwnerCalls, OwnerContinues, Renderer

\* Every step keeps the counters in step with the render thread's program
\* counter.
LEMMA ConsumerStep == IInv /\ [Next]_vars => ConsumerInv'
<1> SUFFICES ASSUME IInv, [Next]_vars PROVE ConsumerInv'
    OBVIOUS
<1> USE FramesAssumption DEF IInv, TypeOK, ConsumerInv, HoldsFrame, Copying,
        Frames, sharedVars, ownerVars, renderVars, historyVars
<1>1. CASE SubmitFrame
  BY <1>1 DEF SubmitFrame
<1>2. CASE WriteWord
  BY <1>2 DEF WriteWord
<1>3. CASE BumpSeq
  BY <1>3 DEF BumpSeq
<1>4. CASE CountSubmitted
  BY <1>4 DEF CountSubmitted
<1>5. CASE WaitIdle
  BY <1>5 DEF WaitIdle
<1>6. CASE WaitSeq
  BY <1>6 DEF WaitSeq
<1>7. CASE WaitFlight
  BY <1>7 DEF WaitFlight
<1>8. CASE Shutdown
  BY <1>8 DEF Shutdown
<1>9. CASE Join
  BY <1>9 DEF Join
<1>10. CASE StatsPending
  BY <1>10 DEF StatsPending
<1>11. CASE StatsFlight
  BY <1>11 DEF StatsFlight
<1>12. CASE StatsReturn
  BY <1>12 DEF StatsReturn
<1>13. CASE OnStart
  BY <1>13 DEF OnStart, RenderStep
<1>14. CASE WaitStop
  BY <1>14 DEF WaitStop, RenderStep
<1>15. CASE PollSeq
  BY <1>15 DEF PollSeq, RenderStep
<1>16. CASE CheckStop
  BY <1>16 DEF CheckStop, RenderStep
<1>17. CASE ReadSeq
  BY <1>17 DEF ReadSeq, RenderStep
<1>18. CASE ReadWord
  BY <1>18 DEF ReadWord, RenderStep
<1>19. CASE CheckCopy
  BY <1>19 DEF CheckCopy, RenderStep
<1>20. CASE MarkInFlight
  BY <1>20 DEF MarkInFlight, RenderStep
<1>21. CASE StoreConsumed
  BY <1>21 DEF StoreConsumed, RenderStep
<1>22. CASE BatchStage
  BY <1>22 DEF BatchStage, RenderStep
<1>23. CASE SubmitStage
  BY <1>23 DEF SubmitStage, RenderStep
<1>24. CASE CountRendered
  BY <1>24 DEF CountRendered, RenderStep
<1>25. CASE ClearInFlight
  BY <1>25 DEF ClearInFlight, RenderStep
<1>26. CASE OnStop
  BY <1>26 DEF OnStop, RenderStep
<1>27. CASE UNCHANGED vars
  BY <1>27 DEF vars
<1> QED
  BY <1>1, <1>2, <1>3, <1>4, <1>5, <1>6, <1>7, <1>8, <1>9, <1>10, <1>11,
     <1>12, <1>13, <1>14, <1>15, <1>16, <1>17, <1>18, <1>19, <1>20, <1>21,
     <1>22, <1>23, <1>24, <1>25, <1>26, <1>27
     DEF Next, Owner, OwnerCalls, OwnerContinues, Renderer

\* Every step keeps the words of the copy between copySeq and the newest
\* publication but one.
LEMMA CopyStep == IInv /\ [Next]_vars => CopyInv'
<1> SUFFICES ASSUME IInv, [Next]_vars PROVE CopyInv'
    OBVIOUS
<1> USE FramesAssumption DEF IInv, TypeOK, SlotInv, ConsumerInv, CopyInv,
        TornByAtMostOne, HoldsFrame, Frames, Words, sharedVars, ownerVars,
        renderVars, historyVars
<1>1. CASE SubmitFrame
  BY <1>1 DEF SubmitFrame
<1>2. CASE WriteWord
  BY <1>2 DEF WriteWord
<1>3. CASE BumpSeq
  BY <1>3 DEF BumpSeq
<1>4. CASE CountSubmitted
  BY <1>4 DEF CountSubmitted
<1>5. CASE WaitIdle
  BY <1>5 DEF WaitIdle
<1>6. CASE WaitSeq
  BY <1>6 DEF WaitSeq
<1>7. CASE WaitFlight
  BY <1>7 DEF WaitFlight
<1>8. CASE Shutdown
  BY <1>8 DEF Shutdown
<1>9. CASE Join
  BY <1>9 DEF Join
<1>10. CASE StatsPending
  BY <1>10 DEF StatsPending
<1>11. CASE StatsFlight
  BY <1>11 DEF StatsFlight
<1>12. CASE StatsReturn
  BY <1>12 DEF StatsReturn
<1>13. CASE OnStart
  BY <1>13 DEF OnStart, RenderStep
<1>14. CASE WaitStop
  BY <1>14 DEF WaitStop, RenderStep
<1>15. CASE PollSeq
  BY <1>15 DEF PollSeq, RenderStep
<1>16. CASE CheckStop
  BY <1>16 DEF CheckStop, RenderStep
<1>17. CASE ReadSeq
  BY <1>17 DEF ReadSeq, RenderStep
<1>18. CASE ReadWord
  BY <1>18 DEF ReadWord, RenderStep
<1>19. CASE CheckCopy
  BY <1>19 DEF CheckCopy, RenderStep
<1>20. CASE MarkInFlight
  BY <1>20 DEF MarkInFlight, RenderStep
<1>21. CASE StoreConsumed
  BY <1>21 DEF StoreConsumed, RenderStep
<1>22. CASE BatchStage
  BY <1>22 DEF BatchStage, RenderStep
<1>23. CASE SubmitStage
  BY <1>23 DEF SubmitStage, RenderStep
<1>24. CASE CountRendered
  BY <1>24 DEF CountRendered, RenderStep
<1>25. CASE ClearInFlight
  BY <1>25 DEF ClearInFlight, RenderStep
<1>26. CASE OnStop
  BY <1>26 DEF OnStop, RenderStep
<1>27. CASE UNCHANGED vars
  BY <1>27 DEF vars
<1> QED
  BY <1>1, <1>2, <1>3, <1>4, <1>5, <1>6, <1>7, <1>8, <1>9, <1>10, <1>11,
     <1>12, <1>13, <1>14, <1>15, <1>16, <1>17, <1>18, <1>19, <1>20, <1>21,
     <1>22, <1>23, <1>24, <1>25, <1>26, <1>27
     DEF Next, Owner, OwnerCalls, OwnerContinues, Renderer

\* Every step keeps what the owner has concluded about the render thread.
LEMMA OwnerStep == IInv /\ [Next]_vars => OwnerInv'
<1> SUFFICES ASSUME IInv, [Next]_vars PROVE OwnerInv'
    OBVIOUS
<1> USE FramesAssumption DEF IInv, TypeOK, SlotInv, ConsumerInv, OwnerInv,
        DropsAreLogged, HoldsFrame, Resting, Copying, Frames, sharedVars,
        ownerVars, renderVars, historyVars
<1>1. CASE SubmitFrame
  BY <1>1 DEF SubmitFrame
<1>2. CASE WriteWord
  BY <1>2 DEF WriteWord
<1>3. CASE BumpSeq
  BY <1>3 DEF BumpSeq
<1>4. CASE CountSubmitted
  BY <1>4 DEF CountSubmitted
<1>5. CASE WaitIdle
  BY <1>5 DEF WaitIdle
<1>6. CASE WaitSeq
  BY <1>6 DEF WaitSeq
<1>7. CASE WaitFlight
  <2>1. CASE inFlight
    BY <1>7, <2>1 DEF WaitFlight
  <2>2. CASE ~inFlight
    <3>1. seq = lastSeen /\ renderPc \notin {"mark", "consume"}
      BY <1>7 DEF WaitFlight
    <3>2. renderPc \notin {"check", "copySeq", "copyWord", "copyCheck"}
      BY <3>1
    <3>3. renderPc \in Resting
      BY <2>2, <3>1, <3>2 DEF RenderPcs
    <3>4. QED
      BY <1>7, <2>2, <3>1, <3>3 DEF WaitFlight
  <2>3. QED
    BY <2>1, <2>2
<1>8. CASE Shutdown
  BY <1>8 DEF Shutdown
<1>9. CASE Join
  BY <1>9 DEF Join
<1>10. CASE StatsPending
  BY <1>10 DEF StatsPending
<1>11. CASE StatsFlight
  BY <1>11 DEF StatsFlight
<1>12. CASE StatsReturn
  BY <1>12 DEF StatsReturn
<1>13. CASE OnStart
  BY <1>13 DEF OnStart, RenderStep
<1>14. CASE WaitStop
  BY <1>14 DEF WaitStop, RenderStep
<1>15. CASE PollSeq
  BY <1>15 DEF PollSeq, RenderStep
<1>16. CASE CheckStop
  BY <1>16 DEF CheckStop, RenderStep
<1>17. CASE ReadSeq
  BY <1>17 DEF ReadSeq, RenderStep
<1>18. CASE ReadWord
  BY <1>18 DEF ReadWord, RenderStep
<1>19. CASE CheckCopy
  BY <1>19 DEF CheckCopy, RenderStep
<1>20. CASE MarkInFlight
  BY <1>20 DEF MarkInFlight, RenderStep
<1>21. CASE StoreConsumed
  BY <1>21 DEF StoreConsumed, RenderStep
<1>22. CASE BatchStage
  BY <1>22 DEF BatchStage, RenderStep
<1>23. CASE SubmitStage
  BY <1>23 DEF SubmitStage, RenderStep
<1>24. CASE CountRendered
  BY <1>24 DEF CountRendered, RenderStep
<1>25. CASE ClearInFlight
  BY <1>25 DEF ClearInFlight, RenderStep
<1>26. CASE OnStop
  BY <1>26 DEF OnStop, RenderStep
<1>27. CASE UNCHANGED vars
  BY <1>27 DEF vars
<1> QED
  BY <1>1, <1>2, <1>3, <1>4, <1>5, <1>6, <1>7, <1>8, <1>9, <1>10, <1>11,
     <1>12, <1>13, <1>14, <1>15, <1>16, <1>17, <1>18, <1>19, <1>20, <1>21,
     <1>22, <1>23, <1>24, <1>25, <1>26, <1>27
     DEF Next, Owner, OwnerCalls, OwnerContinues, Renderer

\* Every step keeps a stopped object's owner away from the publishing calls.
LEMMA StopStep == IInv /\ [Next]_vars => StopInv'
<1> SUFFICES ASSUME IInv, [Next]_vars PROVE StopInv'
    OBVIOUS
<1> USE FramesAssumption DEF IInv, TypeOK, StopInv, sharedVars, ownerVars,
        renderVars, historyVars
<1>1. CASE SubmitFrame
  BY <1>1 DEF SubmitFrame
<1>2. CASE WriteWord
  BY <1>2 DEF WriteWord
<1>3. CASE BumpSeq
  BY <1>3 DEF BumpSeq
<1>4. CASE CountSubmitted
  BY <1>4 DEF CountSubmitted
<1>5. CASE WaitIdle
  BY <1>5 DEF WaitIdle
<1>6. CASE WaitSeq
  BY <1>6 DEF WaitSeq
<1>7. CASE WaitFlight
  BY <1>7 DEF WaitFlight
<1>8. CASE Shutdown
  BY <1>8 DEF Shutdown
<1>9. CASE Join
  BY <1>9 DEF Join
<1>10. CASE StatsPending
  BY <1>10 DEF StatsPending
<1>11. CASE StatsFlight
  BY <1>11 DEF StatsFlight
<1>12. CASE StatsReturn
  BY <1>12 DEF StatsReturn
<1>13. CASE OnStart
  BY <1>13 DEF OnStart, RenderStep
<1>14. CASE WaitStop
  BY <1>14 DEF WaitStop, RenderStep
<1>15. CASE PollSeq
  BY <1>15 DEF PollSeq, RenderStep
<1>16. CASE CheckStop
  BY <1>16 DEF CheckStop, RenderStep
<1>17. CASE ReadSeq
  BY <1>17 DEF ReadSeq, RenderStep
<1>18. CASE ReadWord
  BY <1>18 DEF ReadWord, RenderStep
<1>19. CASE CheckCopy
  BY <1>19 DEF CheckCopy, RenderStep
<1>20. CASE MarkInFlight
  BY <1>20 DEF MarkInFlight, RenderStep
<1>21. CASE StoreConsumed
  BY <1>21 DEF StoreConsumed, RenderStep
<1>22. CASE BatchStage
  BY <1>22 DEF BatchStage, RenderStep
<1>23. CASE SubmitStage
  BY <1>23 DEF SubmitStage, RenderStep
<1>24. CASE CountRendered
  BY <1>24 DEF CountRendered, RenderStep
<1>25. CASE ClearInFlight
  BY <1>25 DEF ClearInFlight, RenderStep
<1>26. CASE OnStop
  BY <1>26 DEF OnStop, RenderStep
<1>27. CASE UNCHANGED vars
  BY <1>27 DEF vars
<1> QED
  BY <1>1, <1>2, <1>3, <1>4, <1>5, <1>6, <1>7, <1>8, <1>9, <1>10, <1>11,
     <1>12, <1>13, <1>14, <1>15, <1>16, <1>17, <1>18, <1>19, <1>20, <1>21,
     <1>22, <1>23, <1>24, <1>25, <1>26, <1>27
     DEF Next, Owner, OwnerCalls, OwnerContinues, Renderer

\* IInv holds in every reachable state.
LEMMA Inductive == SafetySpec => []IInv
<1>1. IInv /\ [Next]_vars => IInv'
  BY TypeStep, SlotStep, ConsumerStep, CopyStep, OwnerStep, StopStep
     DEF IInv
<1>2. QED
  BY InitInv, <1>1, PTL DEF SafetySpec

\* A step that leaves the accepted publications, the count and the last one
\* seen alone keeps the count in step with them.
LEMMA CountKept ==
    ASSUME StatsInv, UNCHANGED <<accepted, rendered, lastSeen, Uncounted>>
    PROVE  /\ IsFiniteSet(accepted') /\ accepted' \subseteq 1..lastSeen'
           /\ Cardinality(accepted') = rendered' + Uncounted'
BY DEF StatsInv

\* Every step keeps the count of rendered frames in step with the accepted
\* publications.
LEMMA StatsStep == IInv /\ StatsInv /\ [Next]_vars => StatsInv'
<1> SUFFICES ASSUME IInv, StatsInv, [Next]_vars PROVE StatsInv'
    OBVIOUS
<1> USE DEF sharedVars, ownerVars, renderVars, historyVars
<1>1. CASE BumpSeq
  BY <1>1, CountKept DEF BumpSeq, StatsInv, Uncounted
<1>2. CASE WaitFlight
  BY <1>2, CountKept DEF WaitFlight, StatsInv, Uncounted
<1>3. CASE StatsPending
  <2>1. quiet => ~(seq > consumedSeq)
    BY DEF IInv, TypeOK, ConsumerInv, OwnerInv, Resting, Frames
  <2>2. QED
    BY <1>3, <2>1, CountKept DEF StatsPending, StatsInv, Uncounted
<1>4. CASE StatsFlight
  <2>1. quiet => ~inFlight
    BY DEF IInv, ConsumerInv, OwnerInv, Resting
  <2>2. QED
    BY <1>4, <2>1, CountKept DEF StatsFlight, StatsInv, Uncounted
<1>5. CASE \/ SubmitFrame \/ WriteWord \/ CountSubmitted \/ WaitIdle \/ WaitSeq
           \/ Shutdown \/ Join \/ StatsReturn
  BY <1>5, CountKept
     DEF SubmitFrame, WriteWord, CountSubmitted, WaitIdle, WaitSeq, Shutdown,
         Join, StatsReturn, StatsInv, Uncounted
<1>6. CASE CheckCopy
  <2>1. CASE copySeq = seq
    <3>1. /\ lastSeen \in Nat /\ copySeq \in Nat /\ rendered \in Nat
          /\ lastSeen < copySeq /\ renderPc = "copyCheck"
      BY <1>6 DEF CheckCopy, RenderStep, IInv, TypeOK, ConsumerInv, Frames
    <3>2. /\ accepted' = accepted \cup {copySeq} /\ lastSeen' = copySeq
          /\ renderPc' = "mark" /\ UNCHANGED <<ownerVars, rendered, quiet>>
      BY <1>6, <2>1 DEF CheckCopy, RenderStep
    <3>3. copySeq \notin accepted /\ accepted' \subseteq 1..copySeq
      BY <3>1, <3>2 DEF StatsInv
    <3>4. /\ IsFiniteSet(accepted')
          /\ Cardinality(accepted') = Cardinality(accepted) + 1
      BY <3>2, <3>3, FS_AddElement DEF StatsInv
    <3>5. Cardinality(accepted) = rendered
      BY <3>1 DEF StatsInv, Uncounted
    <3>6. QED
      BY <3>2, <3>3, <3>4, <3>5 DEF StatsInv, Uncounted
  <2>2. CASE copySeq # seq
    BY <1>6, <2>2, CountKept DEF CheckCopy, RenderStep, StatsInv, Uncounted
  <2>3. QED
    BY <2>1, <2>2
<1>7. CASE CountRendered
  <2>1. rendered \in Nat
    BY DEF IInv, TypeOK
  <2>2. QED
    BY <1>7, <2>1 DEF CountRendered, RenderStep, StatsInv, Uncounted
<1>8. CASE \/ OnStart \/ WaitStop \/ PollSeq \/ CheckStop \/ ReadSeq \/ ReadWord
           \/ ClearInFlight \/ OnStop
  BY <1>8, CountKept
     DEF OnStart, WaitStop, PollSeq, CheckStop, ReadSeq, ReadWord,
         ClearInFlight, OnStop, RenderStep, StatsInv, Uncounted
<1>9. CASE MarkInFlight \/ StoreConsumed \/ BatchStage \/ SubmitStage
  BY <1>9, CountKept
     DEF MarkInFlight, StoreConsumed, BatchStage, SubmitStage, RenderStep,
         StatsInv, Uncounted
<1>10. CASE UNCHANGED vars
  BY <1>10, CountKept DEF vars, StatsInv, Uncounted
<1> QED
  BY <1>1, <1>2, <1>3, <1>4, <1>5, <1>6, <1>7, <1>8, <1>9, <1>10
     DEF Next, Owner, OwnerCalls, OwnerContinues, Renderer

\* StatsInv holds in every reachable state.
LEMMA StatsInductive == SafetySpec => []StatsInv
<1>1. Init => StatsInv
  <2> SUFFICES ASSUME Init PROVE StatsInv
      OBVIOUS
  <2>1. IsFiniteSet({}) /\ Cardinality({}) = 0
    BY FS_EmptySet
  <2>2. QED
    BY <2>1 DEF Init, StatsInv, Uncounted
<1>2. IInv /\ StatsInv /\ [Next]_vars => StatsInv'
  BY StatsStep
<1>3. QED
  BY <1>1, <1>2, Inductive, PTL DEF SafetySpec

-----------------------------------------------------------------------------
\* Every variable of the handoff keeps its type, whatever the interleaving.
THEOREM TypeCorrect == SafetySpec => []TypeOK
<1>1. IInv => TypeOK
  BY DEF IInv
<1>2. QED
  BY Inductive, <1>1, PTL

\* From waitIdle's return to the next publication the render thread holds no
\* frame and copies none: the owner may release the data of the last frame.
THEOREM WaitIdleIsABarrier == SafetySpec => []WaitIdleBarrier
<1>1. IInv => WaitIdleBarrier
  BY DEF IInv, ConsumerInv, OwnerInv, WaitIdleBarrier, Resting
<1>2. QED
  BY Inductive, <1>1, PTL

\* An accepted copy mixes words of at most two adjacent publications.
THEOREM CopyMixesAtMostTwo == SafetySpec => []TornByAtMostOne
<1>1. IInv => TornByAtMostOne
  BY DEF IInv, CopyInv
<1>2. QED
  BY Inductive, <1>1, PTL

\* Every dropped publication was named by a frame_dropped event.
THEOREM NoSilentDrop == SafetySpec => []DropsAreLogged
<1>1. IInv => DropsAreLogged
  BY DEF IInv, OwnerInv
<1>2. QED
  BY Inductive, <1>1, PTL

\* With nothing pending or in flight, stats() is exact: the dropped frames it
\* reports are the publications no copy was accepted of.
THEOREM StatsAreExact == SafetySpec => []QuietStatsExact
<1>1. IInv /\ StatsInv => QuietStatsExact
  <2> SUFFICES ASSUME IInv, StatsInv, quiet, ownerPc = "statRendered"
               PROVE  (submitted - rendered - pendingSeen - flightSeen)
                        = Cardinality((1..seq) \ accepted)
      BY DEF QuietStatsExact
  <2>1. /\ seq \in Nat /\ rendered \in Nat
        /\ submitted = seq /\ seq = lastSeen /\ renderPc \in Resting
    BY DEF IInv, TypeOK, SlotInv, OwnerInv, Frames
  <2>2. pendingSeen = 0 /\ flightSeen = 0 /\ Cardinality(accepted) = rendered
    BY <2>1 DEF StatsInv, Uncounted, Resting
  <2>3. IsFiniteSet(1..seq) /\ Cardinality(1..seq) = seq
    BY <2>1, FS_Interval
  <2>4. Cardinality((1..seq) \ accepted)
          = Cardinality(1..seq) - Cardinality((1..seq) \cap accepted)
    BY <2>3, FS_Difference
  <2>5. (1..seq) \cap accepted = accepted
    BY <2>1 DEF StatsInv
  <2>6. Cardinality((1..seq) \ accepted) = seq - rendered
    BY ONLY <2>2, <2>3, <2>4, <2>5, Zenon
  <2>7. submitted - rendered - pendingSeen - flightSeen = seq - rendered
    BY <2>1, <2>2
  <2>8. QED
    BY ONLY <2>6, <2>7, Zenon
<1>2. QED
  BY <1>1, Inductive, StatsInductive, PTL

-----------------------------------------------------------------------------
(* The safety part of the refinement *)

\* An initial state of the two threads is one of the abstract handoff.
LEMMA InitRefines == Init => Handoff!HandoffInit
BY DEF Init, Handoff!HandoffInit, HoldsFrame

\* A step of either thread is a step of the abstract handoff or leaves its
\* variables unchanged.
LEMMA StepRefines == IInv /\ [Next]_vars => [Handoff!HandoffNext]_Handoff!handoffVars
<1> SUFFICES ASSUME IInv, [Next]_vars
             PROVE  [Handoff!HandoffNext]_Handoff!handoffVars
    OBVIOUS
<1> USE DEF HoldsFrame, Handoff!handoffVars, sharedVars, ownerVars, renderVars,
            historyVars
<1>1. CASE BumpSeq
  BY <1>1 DEF BumpSeq, IInv, StopInv, Handoff!HandoffNext, Handoff!Publish
<1>2. CASE CheckCopy
  <2>1. CASE copySeq = seq
    <3>1. ~HoldsFrame /\ HoldsFrame' /\ lastSeen < seq /\ lastSeen' = seq
      BY <1>2, <2>1 DEF CheckCopy, RenderStep, IInv, ConsumerInv, Copying
    <3>2. valid \/ ownerPc = "join"
      BY <1>2 DEF CheckCopy, RenderStep, IInv, StopInv
    <3>3. Handoff!Take
      BY <1>2, <3>1, <3>2 DEF CheckCopy, Handoff!Take
    <3>4. QED
      BY <3>3 DEF Handoff!HandoffNext
  <2>2. CASE copySeq # seq
    BY <1>2, <2>2 DEF CheckCopy, RenderStep
  <2>3. QED
    BY <2>1, <2>2
<1>3. CASE ClearInFlight
  BY <1>3 DEF ClearInFlight, RenderStep, Handoff!HandoffNext, Handoff!Finish
<1>4. CASE WaitFlight
  <2>1. CASE inFlight
    BY <1>4, <2>1 DEF WaitFlight, IInv, StopInv
  <2>2. CASE ~inFlight
    <3>1. seq = lastSeen /\ ~HoldsFrame
      BY <1>4, <2>2 DEF WaitFlight, IInv, TypeOK, ConsumerInv, OwnerInv, Frames
    <3>2. valid /\ valid'
      BY <1>4 DEF WaitFlight, IInv, StopInv
    <3>3. Handoff!BarrierReturns
      BY <1>4, <2>2, <3>1, <3>2 DEF WaitFlight, Handoff!BarrierReturns
    <3>4. QED
      BY <3>3 DEF Handoff!HandoffNext
  <2>3. QED
    BY <2>1, <2>2
<1>5. CASE Shutdown
  BY <1>5 DEF Shutdown, Handoff!HandoffNext, Handoff!RequestStop
<1>6. CASE Join
  BY <1>6 DEF Join, IInv, StopInv, Handoff!HandoffNext, Handoff!Joined
<1>7. CASE SubmitFrame \/ WriteWord \/ CountSubmitted \/ WaitIdle \/ WaitSeq
  BY <1>7 DEF SubmitFrame, WriteWord, CountSubmitted, WaitIdle, WaitSeq,
              IInv, StopInv
<1>8. CASE StatsPending \/ StatsFlight \/ StatsReturn
  BY <1>8 DEF StatsPending, StatsFlight, StatsReturn, IInv, StopInv
<1>9. CASE OnStart \/ WaitStop \/ PollSeq \/ CheckStop \/ OnStop
  BY <1>9 DEF OnStart, WaitStop, PollSeq, CheckStop, OnStop, RenderStep
<1>10. CASE ReadSeq \/ ReadWord
  BY <1>10 DEF ReadSeq, ReadWord, RenderStep
<1>11. CASE \/ MarkInFlight \/ StoreConsumed \/ BatchStage
            \/ SubmitStage \/ CountRendered
  BY <1>11 DEF MarkInFlight, StoreConsumed, BatchStage, SubmitStage,
               CountRendered, RenderStep
<1>12. CASE UNCHANGED vars
  BY <1>12 DEF vars
<1> QED
  BY <1>1, <1>2, <1>3, <1>4, <1>5, <1>6, <1>7, <1>8, <1>9, <1>10, <1>11, <1>12
     DEF Next, Owner, OwnerCalls, OwnerContinues, Renderer

\* The two threads implement the abstract handoff: every frame taken is the
\* newest one, none is taken twice, waitIdle and shutdown keep their promises.
THEOREM RefinesHandoff == SafetySpec => Handoff!HandoffSafety
BY InitRefines, Inductive, StepRefines, PTL
   DEF SafetySpec, Handoff!HandoffSafety
=============================================================================
