--------------------------- MODULE ServicesProofs ---------------------------
(***************************************************************************)
(* What AllocWatch, Pools, Particles, Config, Logger and FrameBudget keep  *)
(* for any number of threads, slots, pools, elements, generations,         *)
(* particles, documents, events, systems and frames: what the loop reads   *)
(* of the allocation watch is what its thread allocated, no pool loses,    *)
(* repeats or mistakes an element, a particle is aged once per update, the *)
(* live configuration follows the accepted file, every suppressed record   *)
(* is reported or still owed, and a run's report tells its latest frames   *)
(* as they were.  Of WorldProofs only lemmas on remainders and sequences   *)
(* are used.                                                               *)
(***************************************************************************)
EXTENDS WorldProofs, AllocWatch, Pools, Particles, Config, Logger, FrameBudget

-----------------------------------------------------------------------------
(* The allocation watch *)

Arming == {"arm_site", "arm_count", "arm_flag"}
Recording == {"depth", "armed", "owner", "count"}
Places == Arming \cup Recording \cup {"idle", "site"}

\* Only the loop's thread owns the watch, so no other one counts.
WatchThreads ==
    /\ pc \in [Threads -> Places]
    /\ emitting \in [Threads -> BOOLEAN] /\ armed \in BOOLEAN
    /\ made \in [Threads -> Nat] /\ allocs \in Nat
    /\ owner \in {NoSite, Loop}
    /\ armed \/ pc[Loop] \in Arming => owner = Loop
    /\ \A t \in Others : pc[t] \in {"idle", "depth", "armed", "owner"}
    /\ ~armed => pc[Loop] \notin {"owner", "count", "site"}

\* The shared depth counts the threads that emit, and a flag tells whether that hid another's.
EmitInv ==
    /\ depth = Cardinality({t \in Threads : emitting[t]})
    /\ emitting[Loop] => pc[Loop] \in {"idle", "depth"}
    /\ ~overlapped => \A t \in Others : ~emitting[t]

\* The allocation of the loop's thread that watchRecord has still to count.
Uncounted == pc[Loop] \in Recording /\ ~emitting[Loop]
Settled == IF Uncounted THEN Len(mine) - 1 ELSE Len(mine)

\* What is counted of what the thread allocated, at each step of watchRecord.
BooksInv ==
    /\ mine \in Seq({Loop} \X Nat)
    /\ pc[Loop] \in {"arm_count", "arm_flag"} => firstSite = NoSite
    /\ pc[Loop] = "arm_flag" => allocs = 0
    /\ armed /\ pc[Loop] \notin Arming =>
         /\ (Uncounted \/ pc[Loop] = "site") => mine # <<>> /\ mine[Len(mine)] = Site(Loop)
         /\ allocs <= Settled
         /\ pc[Loop] # "site" => (allocs = 0) = (firstSite = NoSite)
         /\ pc[Loop] = "site" => allocs > 0 /\ (allocs = 1) = (firstSite = NoSite)
         /\ firstSite # NoSite => \E i \in 1..Settled : mine[i] = firstSite
         /\ ~overlapped => allocs = Settled /\ (firstSite # NoSite => firstSite = mine[1])

WatchInv == WatchThreads /\ EmitInv /\ BooksInv

\* The invariant holds at the start.
LEMMA WatchBegins == WatchInit => WatchInv
<1> SUFFICES ASSUME WatchInit PROVE WatchInv
    OBVIOUS
<1> USE ThreadsAssumption DEF WatchInit, Threads, NoSite
<1>1. WatchThreads
  BY DEF WatchThreads, Places, Arming, Recording
<1>2. EmitInv
  <2>1. {t \in Threads : emitting[t]} = {}
    OBVIOUS
  <2> QED
    BY <2>1, FS_EmptySet DEF EmitInv
<1>3. BooksInv
  BY DEF BooksInv, Arming
<1> QED
  BY <1>1, <1>2, <1>3 DEF WatchInv

\* Every step keeps the watch the loop's.
LEMMA WatchThreadsStep == WatchThreads /\ EmitInv /\ [WatchNext]_watchVars => WatchThreads'
<1> SUFFICES ASSUME WatchThreads, EmitInv, [WatchNext]_watchVars PROVE WatchThreads'
    OBVIOUS
<1> USE ThreadsAssumption DEF WatchThreads, Places, Arming, Recording, Threads, NoSite, watch, history, Goto
<1>1. CASE Arm
  <2>1. UNCHANGED <<emitting, made>>
    BY <1>1 DEF Arm
  <2>2. CASE ArmOwner \/ ArmSite \/ ArmCount
    BY <2>1, <2>2 DEF ArmStep, ArmOwner, ArmSite, ArmCount
  <2>3. CASE ArmFlag
    <3>1. /\ pc[Loop] = "arm_flag" /\ pc' = [pc EXCEPT ![Loop] = "idle"] /\ armed' = TRUE
          /\ UNCHANGED <<owner, firstSite, allocs>>
      BY <2>3 DEF ArmFlag, ArmStep
    <3>2. QED
      BY <2>1, <3>1
  <2>4. QED
    BY <1>1, <2>2, <2>3 DEF Arm
<1>2. ASSUME NEW t \in Threads, BeginEmit(t) \/ EndEmit(t) PROVE WatchThreads'
  <2>1. UNCHANGED <<armed, owner, allocs, pc, made>>
    BY <1>2 DEF BeginEmit, EndEmit
  <2>2. emitting' \in [Threads -> BOOLEAN]
    BY <1>2 DEF BeginEmit, EndEmit
  <2>3. QED
    BY <2>1, <2>2
<1>3. ASSUME NEW t \in Threads, Allocate(t) PROVE WatchThreads'
  BY <1>3 DEF Allocate
<1>4. ASSUME NEW t \in Threads, WatchRecord(t) PROVE WatchThreads'
  BY <1>4 DEF WatchRecord, LoadDepth, LoadArmed, LoadOwner, Count, SetSite
<1>5. CASE Read \/ UNCHANGED watchVars
  BY <1>5 DEF Read, watchVars
<1> QED
  BY <1>1, <1>2, <1>3, <1>4, <1>5 DEF WatchNext

\* Every step keeps the count of the threads inside emit(), and of those that overlapped.
LEMMA EmitStep == WatchThreads /\ EmitInv /\ [WatchNext]_watchVars => EmitInv'
<1> SUFFICES ASSUME WatchThreads, EmitInv, [WatchNext]_watchVars PROVE EmitInv'
    OBVIOUS
<1> DEFINE inEmit == {t \in Threads : emitting[t]}
<1>0. IsFiniteSet(inEmit) /\ depth = Cardinality(inEmit) /\ Cardinality(inEmit) \in Nat
      /\ emitting \in [Threads -> BOOLEAN] /\ Loop \in Threads
  <2>1. IsFiniteSet(Threads)
    BY ThreadsAssumption, FS_AddElement, FS_Union, FS_Singleton DEF Threads
  <2> QED
    BY <2>1, FS_Subset, FS_CardinalityType DEF EmitInv, WatchThreads, Threads
<1>1. CASE Arm
  <2>1. UNCHANGED <<depth, emitting>>
    BY <1>1 DEF Arm
  <2>2. emitting[Loop] => pc'[Loop] \in {"idle", "depth"}
    BY <1>1 DEF Arm, ArmStep, ArmOwner, ArmSite, ArmCount, ArmFlag, Goto, EmitInv, WatchThreads, Threads
  <2>3. ~overlapped' => \A t \in Others : ~emitting[t]
    BY <1>1 DEF Arm, ArmFlag, history, EmitInv
  <2> QED
    BY <2>1, <2>2, <2>3 DEF EmitInv
<1>2. ASSUME NEW t \in Threads, BeginEmit(t) PROVE EmitInv'
  <2>1. inEmit' = inEmit \cup {t} /\ t \notin inEmit
    BY <1>0, <1>2 DEF BeginEmit
  <2>2. depth' = Cardinality(inEmit')
    BY <1>0, <1>2, <2>1, FS_AddElement DEF BeginEmit
  <2>3. ~overlapped' => ~overlapped /\ t = Loop
    BY <1>2, Zenon DEF BeginEmit
  <2>4. emitting'[Loop] => pc'[Loop] \in {"idle", "depth"}
    BY <1>0, <1>2 DEF BeginEmit, EmitInv
  <2>5. t = Loop => \A u \in Others : emitting'[u] = emitting[u]
    BY <1>2, ThreadsAssumption DEF BeginEmit, Threads, WatchThreads
  <2>6. ~overlapped' => \A u \in Others : ~emitting'[u]
    BY <2>3, <2>5 DEF EmitInv
  <2>7. QED
    BY <2>2, <2>4, <2>6 DEF EmitInv
<1>3. ASSUME NEW t \in Threads, EndEmit(t) PROVE EmitInv'
  <2>1. inEmit' = inEmit \ {t} /\ t \in inEmit
    BY <1>0, <1>3 DEF EndEmit
  <2>2. depth' = Cardinality(inEmit')
    BY <1>0, <1>3, <2>1, FS_RemoveElement DEF EndEmit
  <2>3. QED
    BY <1>0, <1>3, <2>2 DEF EndEmit, EmitInv, history
<1>4. ASSUME NEW t \in Threads, Allocate(t) \/ WatchRecord(t) PROVE EmitInv'
  <2>1. UNCHANGED <<depth, emitting, overlapped>>
    BY <1>4 DEF Allocate, WatchRecord, LoadDepth, LoadArmed, LoadOwner, Count, SetSite, history
  <2>2. emitting[Loop] => pc'[Loop] \in {"idle", "depth"}
    <3>1. emitting[Loop] => depth > 0
      <4> SUFFICES ASSUME emitting[Loop] PROVE Cardinality(inEmit) # 0
        BY <1>0
      <4>1. inEmit # {}
        BY <1>0
      <4> HIDE DEF inEmit
      <4> QED
        BY <1>0, <4>1, FS_EmptySet
    <3>2. QED
      BY <1>4, <3>1 DEF Allocate, WatchRecord, LoadDepth, LoadArmed, LoadOwner, Count, SetSite, Goto,
        EmitInv, WatchThreads, Threads
  <2> QED
    BY <2>1, <2>2 DEF EmitInv
<1>5. CASE Read \/ UNCHANGED watchVars
  BY <1>5 DEF Read, watchVars, EmitInv, history
<1> QED
  BY <1>1, <1>2, <1>3, <1>4, <1>5 DEF WatchNext

\* An action that leaves the books and the place of the loop's thread alone.
LEMMA BooksSame ==
    ASSUME BooksInv, UNCHANGED <<mine, firstSite, allocs, armed>>, UNCHANGED pc[Loop],
           UNCHANGED made[Loop], UNCHANGED emitting[Loop], ~overlapped' => ~overlapped
    PROVE  BooksInv'
  BY DEF BooksInv, Settled, Uncounted, Site

\* Whatever the interleaving, the books stay right.
LEMMA BooksStep == WatchThreads /\ EmitInv /\ BooksInv /\ [WatchNext]_watchVars => BooksInv'
<1> SUFFICES ASSUME WatchThreads, EmitInv, BooksInv, [WatchNext]_watchVars PROVE BooksInv'
    OBVIOUS
<1>0. /\ Loop \in Threads /\ Loop \notin Others /\ pc \in [Threads -> Places]
      /\ made \in [Threads -> Nat] /\ allocs \in Nat /\ mine \in Seq({Loop} \X Nat)
      /\ emitting \in [Threads -> BOOLEAN] /\ Len(mine) \in Nat
      /\ \A t \in Threads : t # Loop => t \in Others
  <2>1. mine \in Seq({Loop} \X Nat)
    BY DEF BooksInv
  <2>2. Len(mine) \in Nat
    BY <2>1
  <2>3. QED
    BY <2>1, <2>2, ThreadsAssumption DEF WatchThreads, Threads
<1>1. CASE Arm
  <2>1. UNCHANGED <<depth, emitting, made>>
    BY <1>1 DEF Arm
  <2>2. CASE (ArmOwner \/ ArmSite \/ ArmCount) /\ UNCHANGED history
    BY <1>0, <2>1, <2>2 DEF ArmOwner, ArmSite, ArmCount, ArmStep, Goto, history, BooksInv, Arming
  <2>3. CASE ArmFlag
    <3>1. /\ pc[Loop] = "arm_flag" /\ pc' = [pc EXCEPT ![Loop] = "idle"] /\ armed' = TRUE
          /\ mine' = <<>> /\ UNCHANGED <<owner, firstSite, allocs>>
      BY <2>3 DEF ArmFlag, ArmStep, Goto
    <3>2. firstSite' = NoSite /\ allocs' = 0 /\ pc'[Loop] = "idle" /\ Len(mine') = 0
      BY <1>0, <3>1 DEF BooksInv
    <3>3. Settled' = 0 /\ ~Uncounted'
      BY <3>2 DEF Settled, Uncounted, Recording
    <3>4. mine' \in Seq({Loop} \X Nat)
      BY <3>1
    <3>5. QED
      BY <3>2, <3>3, <3>4 DEF BooksInv, Arming
  <2>4. QED
    BY <1>1, <2>2, <2>3 DEF Arm
<1>2. ASSUME NEW t \in Threads, BeginEmit(t) PROVE BooksInv'
  <2>1. UNCHANGED <<mine, firstSite, allocs, armed, pc, made>>
    BY <1>2 DEF BeginEmit, watch
  <2>2. ~overlapped' => ~overlapped
    BY <1>2, Zenon DEF BeginEmit
  <2>3. CASE t # Loop
    <3>1. UNCHANGED emitting[Loop]
      BY <1>0, <1>2, <2>3 DEF BeginEmit
    <3>2. QED
      BY <2>1, <2>2, <3>1, BooksSame
  <2>4. CASE t = Loop
    <3>1. pc[Loop] = "idle"
      BY <1>2, <2>4 DEF BeginEmit
    <3>2. ~Uncounted /\ ~Uncounted'
      BY <2>1, <3>1 DEF Uncounted, Recording
    <3>3. UNCHANGED <<Settled, Site(Loop)>>
      BY <2>1, <3>2 DEF Settled, Site
    <3>4. QED
      BY <2>1, <2>2, <3>1, <3>2, <3>3 DEF BooksInv
  <2>5. QED
    BY <2>3, <2>4
<1>3. ASSUME NEW t \in Threads, EndEmit(t) PROVE BooksInv'
  <2>1. UNCHANGED <<mine, firstSite, allocs, armed, pc, made, overlapped>>
    BY <1>3 DEF EndEmit, watch, history
  <2>2. CASE t # Loop
    <3>1. UNCHANGED emitting[Loop]
      BY <1>0, <1>3, <2>2 DEF EndEmit
    <3>2. QED
      BY <2>1, <3>1, BooksSame
  <2>3. CASE t = Loop
    <3>1. pc[Loop] = "idle"
      BY <1>3, <2>3 DEF EndEmit
    <3>2. ~Uncounted /\ ~Uncounted'
      BY <2>1, <3>1 DEF Uncounted, Recording
    <3>3. UNCHANGED <<Settled, Site(Loop)>>
      BY <2>1, <3>2 DEF Settled, Site
    <3>4. QED
      BY <2>1, <3>1, <3>2, <3>3 DEF BooksInv
  <2>4. QED
    BY <2>2, <2>3
<1>4. ASSUME NEW t \in Threads, Allocate(t) PROVE BooksInv'
  <2>1. /\ UNCHANGED <<firstSite, allocs, armed, emitting, overlapped>>
        /\ made' = [made EXCEPT ![t] = @ + 1] /\ pc' = [pc EXCEPT ![t] = "depth"] /\ pc[t] = "idle"
        /\ mine' = IF t = Loop /\ ~emitting[t] /\ armed THEN Append(mine, <<t, made[t] + 1>>) ELSE mine
    BY <1>4 DEF Allocate, watch, Goto
  <2>2. CASE t # Loop
    BY <1>0, <2>1, <2>2, BooksSame
  <2>3. CASE t = Loop /\ ~emitting[t] /\ armed
    <3>1. /\ mine' = Append(mine, Site(Loop)') /\ Site(Loop)' \in {Loop} \X Nat
          /\ pc'[Loop] = "depth" /\ ~emitting'[Loop]
      BY <1>0, <2>1, <2>3 DEF Site
    <3>2. /\ mine' \in Seq({Loop} \X Nat) /\ Len(mine') = Len(mine) + 1 /\ mine'[Len(mine')] = Site(Loop)'
          /\ mine' # <<>> /\ \A i \in 1..Len(mine) : mine'[i] = mine[i]
      BY <1>0, <3>1
    <3>3. Settled' = Len(mine) /\ Settled = Len(mine)
      BY <1>0, <2>1, <2>3, <3>1, <3>2 DEF Settled, Uncounted, Recording
    <3>4. Len(mine) > 0 => mine'[1] = mine[1]
      BY <1>0, <3>2
    <3>5. /\ allocs <= Len(mine) /\ (allocs = 0) = (firstSite = NoSite)
          /\ firstSite # NoSite => \E i \in 1..Len(mine) : mine[i] = firstSite
          /\ ~overlapped => allocs = Len(mine) /\ (firstSite # NoSite => firstSite = mine[1])
      BY <2>1, <2>3, <3>3 DEF BooksInv, Arming
    <3>6. firstSite # NoSite => Len(mine) > 0
      BY <1>0, <3>5
    <3>7. QED
      BY <2>1, <3>1, <3>2, <3>3, <3>4, <3>5, <3>6 DEF BooksInv, Arming
  <2>4. CASE t = Loop /\ ~armed
    BY <1>0, <2>1, <2>4 DEF BooksInv
  <2>5. CASE t = Loop /\ emitting[t]
    <3>1. /\ UNCHANGED mine /\ ~Uncounted /\ ~Uncounted' /\ pc'[Loop] = "depth" /\ pc[Loop] = "idle"
      BY <1>0, <2>1, <2>5 DEF Uncounted
    <3>2. Settled' = Settled
      BY <3>1 DEF Settled
    <3>3. QED
      BY <2>1, <3>1, <3>2 DEF BooksInv, Arming
  <2>6. QED
    BY <2>2, <2>3, <2>4, <2>5
<1>5. ASSUME NEW t \in Threads, WatchRecord(t) PROVE BooksInv'
  <2>1. UNCHANGED <<armed, emitting, made, mine, overlapped, owner>>
    BY <1>5 DEF WatchRecord, LoadDepth, LoadArmed, LoadOwner, Count, SetSite, watch, history
  <2>2. CASE t # Loop
    <3>1. pc[t] \notin {"count", "site"} /\ UNCHANGED pc[Loop]
      BY <1>0, <1>5, <2>2 DEF WatchRecord, LoadDepth, LoadArmed, LoadOwner, Count, SetSite, Goto,
        WatchThreads
    <3>2. UNCHANGED <<allocs, firstSite>>
      BY <1>5, <3>1 DEF WatchRecord, LoadDepth, LoadArmed, LoadOwner, Count, SetSite, Goto, watch
    <3>3. QED
      BY <2>1, <3>1, <3>2, BooksSame
  <2>3. CASE t = Loop /\ ~armed
    <3>1. pc[Loop] \in {"depth", "armed"} /\ pc'[Loop] \in {"idle", "armed"}
      BY <1>0, <1>5, <2>3 DEF WatchRecord, LoadDepth, LoadArmed, LoadOwner, Count, SetSite, Goto,
        WatchThreads
    <3>2. QED
      BY <1>0, <2>1, <2>3, <3>1 DEF BooksInv
  <2>4. CASE t = Loop /\ armed
    <3>1. owner = Loop
      BY <2>4 DEF WatchThreads
    <3>2. CASE LoadDepth(t)
      <4>1. /\ pc[Loop] = "depth" /\ pc' = [pc EXCEPT ![Loop] = IF depth > 0 THEN "idle" ELSE "armed"]
            /\ UNCHANGED <<allocs, firstSite>>
        BY <2>4, <3>2 DEF LoadDepth, Goto, watch
      <4>2. CASE emitting[Loop]
        <5>1. depth > 0
          <6> DEFINE inEmit == {u \in Threads : emitting[u]}
          <6>1. IsFiniteSet(Threads)
            BY ThreadsAssumption, FS_AddElement, FS_Union, FS_Singleton DEF Threads
          <6>2. IsFiniteSet(inEmit) /\ Loop \in inEmit
            BY <1>0, <4>2, <6>1, FS_Subset
          <6> HIDE DEF inEmit
          <6>3. Cardinality(inEmit) \in Nat /\ Cardinality(inEmit) # 0
            BY <6>2, FS_CardinalityType, FS_EmptySet
          <6>4. QED
            BY <6>3 DEF EmitInv, inEmit
        <5>2. pc'[Loop] = "idle" /\ ~Uncounted /\ ~Uncounted'
          BY <1>0, <2>1, <4>1, <4>2, <5>1 DEF Uncounted, Recording
        <5>3. Settled' = Settled
          BY <2>1, <5>2 DEF Settled
        <5>4. QED
          BY <2>1, <4>1, <5>2, <5>3 DEF BooksInv, Arming
      <4>3. CASE ~emitting[Loop] /\ depth > 0
        <5>1. overlapped
          <6> SUFFICES ASSUME ~overlapped PROVE FALSE
              OBVIOUS
          <6>1. {u \in Threads : emitting[u]} = {}
            BY <1>0, <4>3 DEF EmitInv
          <6>2. QED
            BY <4>3, <6>1, FS_EmptySet DEF EmitInv
        <5>2. /\ Uncounted /\ ~Uncounted' /\ pc'[Loop] = "idle" /\ pc[Loop] \notin Arming
          BY <1>0, <2>1, <4>1, <4>3 DEF Uncounted, Recording, Arming
        <5>3. Settled = Len(mine) - 1 /\ Settled' = Len(mine)
          BY <2>1, <5>2 DEF Settled
        <5>4. QED
          BY <1>0, <2>1, <2>4, <4>1, <5>1, <5>2, <5>3 DEF BooksInv, Arming
      <4>4. CASE ~emitting[Loop] /\ ~(depth > 0)
        <5>1. pc'[Loop] = "armed" /\ Uncounted /\ Uncounted'
          BY <1>0, <2>1, <4>1, <4>4 DEF Uncounted, Recording
        <5>2. Settled' = Settled /\ Site(Loop)' = Site(Loop)
          BY <2>1, <5>1 DEF Settled, Site
        <5>3. QED
          BY <2>1, <4>1, <5>1, <5>2 DEF BooksInv, Arming
      <4>5. QED
        BY <4>2, <4>3, <4>4
    <3>3. CASE LoadArmed(t) \/ LoadOwner(t)
      <4>1. /\ pc[Loop] \in {"armed", "owner"} /\ pc'[Loop] \in {"owner", "count"}
            /\ UNCHANGED <<allocs, firstSite>>
        BY <1>0, <2>4, <3>1, <3>3 DEF LoadArmed, LoadOwner, Goto, watch
      <4>2. UNCHANGED <<Uncounted, Settled, Site(Loop)>>
        BY <2>1, <4>1 DEF Uncounted, Settled, Site, Recording
      <4>3. QED
        BY <2>1, <4>1, <4>2 DEF BooksInv, Arming
    <3>4. CASE Count(t)
      <4>1. /\ pc[Loop] = "count" /\ pc'[Loop] = "site" /\ ~emitting[Loop]
            /\ UNCHANGED firstSite /\ allocs' = allocs + 1
        BY <1>0, <2>4, <3>4 DEF Count, Goto, EmitInv
      <4>2. Uncounted /\ ~Uncounted' /\ Settled = Len(mine) - 1 /\ Settled' = Len(mine)
            /\ Site(Loop)' = Site(Loop)
        BY <2>1, <4>1 DEF Uncounted, Settled, Site, Recording
      <4>3. /\ mine # <<>> /\ mine[Len(mine)] = Site(Loop) /\ allocs <= Len(mine) - 1
            /\ (allocs = 0) = (firstSite = NoSite)
            /\ firstSite # NoSite => \E i \in 1..(Len(mine) - 1) : mine[i] = firstSite
            /\ ~overlapped => allocs = Len(mine) - 1 /\ (firstSite # NoSite => firstSite = mine[1])
        BY <2>4, <4>1, <4>2 DEF BooksInv, Arming
      <4>4. QED
        BY <1>0, <2>1, <4>1, <4>2, <4>3 DEF BooksInv, Arming
    <3>5. CASE SetSite(t)
      <4>1. /\ pc[Loop] = "site" /\ pc'[Loop] = "idle" /\ UNCHANGED allocs
            /\ firstSite' = IF firstSite = NoSite THEN Site(Loop) ELSE firstSite
        BY <1>0, <2>4, <3>5 DEF SetSite, Goto
      <4>2. ~Uncounted /\ ~Uncounted' /\ Settled = Len(mine) /\ Settled' = Len(mine)
        BY <2>1, <4>1 DEF Uncounted, Settled, Recording
      <4>3. /\ mine # <<>> /\ mine[Len(mine)] = Site(Loop) /\ allocs <= Len(mine)
            /\ allocs > 0 /\ (allocs = 1) = (firstSite = NoSite)
            /\ firstSite # NoSite => \E i \in 1..Len(mine) : mine[i] = firstSite
            /\ ~overlapped => allocs = Len(mine) /\ (firstSite # NoSite => firstSite = mine[1])
        BY <2>4, <4>1, <4>2 DEF BooksInv, Arming
      <4>4. Site(Loop) # NoSite
        BY DEF Site, NoSite
      <4>5. firstSite' # NoSite
        BY <4>1, <4>4
      <4>6. \E i \in 1..Len(mine) : mine[i] = firstSite'
        BY <1>0, <4>1, <4>3
      <4>7. ~overlapped => firstSite' = mine[1]
        BY <4>1, <4>3
      <4>8. QED
        BY <1>0, <2>1, <4>1, <4>2, <4>3, <4>5, <4>6, <4>7 DEF BooksInv, Arming
    <3>6. QED
      BY <1>5, <3>2, <3>3, <3>4, <3>5 DEF WatchRecord
  <2>5. QED
    BY <2>2, <2>3, <2>4
<1>6. CASE Read \/ UNCHANGED watchVars
  <2>1. UNCHANGED <<mine, firstSite, allocs, armed, pc, made, emitting, overlapped>>
    BY <1>6 DEF Read, watchVars, watch, history
  <2>2. QED
    BY <2>1, BooksSame
<1>7. QED
  BY <1>1, <1>2, <1>3, <1>4, <1>5, <1>6 DEF WatchNext

\* What the loop reads after a tick is what its thread allocated in it.
THEOREM ReadsAreTheTicks == WatchSpec => ReadCountsTheTick
<1>1. WatchInv => ReadsTheTick
  <2> SUFFICES ASSUME WatchInv, Read
               PROVE  /\ allocs <= Len(mine)
                      /\ (allocs = 0) = (firstSite = NoSite)
                      /\ firstSite # NoSite => \E i \in DOMAIN mine : mine[i] = firstSite
                      /\ ~overlapped => allocs = Len(mine) /\ (mine # <<>> => firstSite = mine[1])
      BY DEF ReadsTheTick
  <2>1. pc[Loop] = "idle" /\ armed /\ ~Uncounted /\ Settled = Len(mine) /\ pc[Loop] \notin Arming
    BY DEF Read, Uncounted, Settled, Recording, Arming
  <2>2. mine \in Seq({Loop} \X Nat) /\ DOMAIN mine = 1..Len(mine)
    BY DEF WatchInv, BooksInv
  <2>3. mine # <<>> => Len(mine) # 0
    BY <2>2
  <2>4. QED
    BY <2>1, <2>2, <2>3 DEF WatchInv, BooksInv
<1>2. WatchInv /\ [WatchNext]_watchVars => WatchInv'
  BY WatchThreadsStep, EmitStep, BooksStep DEF WatchInv
<1>3. WatchInv /\ [WatchNext]_watchVars => [ReadsTheTick]_watchVars
  BY <1>1
<1>4. QED
  BY WatchBegins, <1>2, <1>3, PTL DEF WatchSpec, ReadCountsTheTick

-----------------------------------------------------------------------------
(* Pools *)

PoolRecords(total) ==
    [store : Nat \ {0}, uses : [PoolSlots -> Nat], capacity : {PoolCapacity},
     generations : [PoolSlots -> 0..(PoolGenerations - 1)], slots : [PoolSlots -> 0..total],
     freeStack : Seq(PoolSlots), inUse : Nat]

\* The stack has no slot twice and is the slots that are free.
StackOf(stack, filled) ==
    /\ stack \in Seq(PoolSlots)
    /\ \A i, j \in DOMAIN stack : stack[i] = stack[j] => i = j
    /\ ToSet(stack) = PoolSlots \ filled

StackOk(pool) ==
    StackOf(pool.freeStack, Live(pool)) /\ pool.inUse = Cardinality(Live(pool))

\* A slot used n times is in the generation of its n-th use, which a free one has left; the
\* handle of the element it holds names its place.
SlotsOk(pool, given) ==
    \A s \in PoolSlots :
        IF pool.slots[s] = None
        THEN pool.generations[s] = (pool.uses[s] + 1) % PoolGenerations
        ELSE /\ pool.uses[s] > 0
             /\ pool.generations[s] = pool.uses[s] % PoolGenerations
             /\ given[pool.slots[s]] = [index |-> s, generation |-> pool.generations[s],
                                        store |-> pool.store, use |-> pool.uses[s] - 1]

PoolOk(pool, total, given) ==
    pool \in PoolRecords(total) /\ StackOk(pool) /\ SlotsOk(pool, given)

HandleRecords == [index : Nat, generation : Nat, store : Nat, use : Nat]

\* A handle was given for an earlier use of its slot than the next.
GivenInv ==
    /\ handles \in [Elements -> HandleRecords]
    /\ \A e \in Elements : e > constructed => handles[e] = NoHandle
    /\ \A e \in 1..constructed : handles[e].store # None =>
         /\ handles[e].index \in PoolSlots /\ handles[e].store \in 1..stores
         /\ handles[e].generation = (handles[e].use + 1) % PoolGenerations
         /\ \A p \in PoolIds : pools[p].store = handles[e].store =>
               handles[e].use < pools[p].uses[handles[e].index]

\* Each pool is whole or was moved from, and no two have one store.
PoolsInv ==
    /\ constructed \in 0..MaxElements /\ stores \in Nat
    /\ DOMAIN pools = PoolIds
    /\ \A p \in PoolIds : pools[p] = MovedFrom \/ PoolOk(pools[p], constructed, handles)
    /\ \A p \in PoolIds : pools[p].store <= stores
    /\ \A p, q \in PoolIds : pools[p].store = pools[q].store /\ pools[p].store # None => p = q

ArenaInv ==
    /\ arena \in Seq(1..constructed) /\ Len(arena) <= PoolCapacity
    /\ \A i, j \in DOMAIN arena : arena[i] = arena[j] => i = j
    /\ \A i \in DOMAIN arena : handles[arena[i]] = NoHandle

\* The elements that are somewhere; every other that was constructed was destroyed, once.
Kept == {e \in 1..constructed : e \in ToSet(arena) \/ \E p \in PoolIds : e \in Held(pools[p])}
DestroyedInv ==
    destructions = [e \in Elements |-> IF e \in (1..constructed) \ Kept THEN 1 ELSE 0]

ElementsInv == GivenInv /\ PoolsInv /\ ArenaInv /\ DestroyedInv

\* An element has one place.
LEMMA OnePlace ==
    ASSUME GivenInv, PoolsInv, ArenaInv, NEW p \in PoolIds, NEW s \in DOMAIN pools[p].slots,
           pools[p].slots[s] # None
    PROVE  /\ PoolOk(pools[p], constructed, handles) /\ s \in PoolSlots
           /\ pools[p].slots[s] \in 1..constructed /\ pools[p].slots[s] \in Held(pools[p])
           /\ pools[p].slots[s] \notin ToSet(arena)
           /\ \A q \in PoolIds : \A t \in DOMAIN pools[q].slots :
                 pools[q].slots[t] = pools[p].slots[s] => q = p /\ t = s
<1>1. ASSUME NEW q \in PoolIds, NEW t \in DOMAIN pools[q].slots, pools[q].slots[t] # None
      PROVE  /\ PoolOk(pools[q], constructed, handles) /\ t \in PoolSlots
             /\ pools[q].slots[t] \in 1..constructed
             /\ handles[pools[q].slots[t]].index = t
             /\ handles[pools[q].slots[t]].store = pools[q].store /\ pools[q].store # None
  <2>1. pools[q] # MovedFrom
    <3> SUFFICES ASSUME pools[q] = MovedFrom PROVE FALSE
        OBVIOUS
    <3>1. DOMAIN pools[q].slots = {}
      BY DEF MovedFrom
    <3>2. QED
      BY <3>1
  <2>2. PoolOk(pools[q], constructed, handles)
    BY <2>1 DEF PoolsInv
  <2>3. /\ t \in PoolSlots /\ pools[q].slots[t] \in 0..constructed /\ pools[q].store \in Nat \ {0}
    BY <2>2 DEF PoolOk, PoolRecords
  <2>4. SlotsOk(pools[q], handles) /\ constructed \in Nat
    BY <2>2 DEF PoolOk, PoolsInv
  <2>5. handles[pools[q].slots[t]] =
            [index |-> t, generation |-> pools[q].generations[t],
             store |-> pools[q].store, use |-> pools[q].uses[t] - 1]
    BY <1>1, <2>3, <2>4 DEF SlotsOk
  <2>6. pools[q].slots[t] \in 1..constructed /\ pools[q].store # None
    BY <1>1, <2>3, <2>4 DEF None
  <2>7. QED
    BY <2>2, <2>3, <2>5, <2>6
<1>2. pools[p].slots[s] \in Held(pools[p])
  BY DEF Held
<1>3. pools[p].slots[s] \notin ToSet(arena)
  BY <1>1 DEF ToSet, ArenaInv, NoHandle, None
<1>4. ASSUME NEW q \in PoolIds, NEW t \in DOMAIN pools[q].slots,
             pools[q].slots[t] = pools[p].slots[s]
      PROVE  q = p /\ t = s
  BY <1>1, <1>4 DEF PoolsInv
<1>5. QED
  BY <1>1, <1>2, <1>3, <1>4

\* Destroying what is kept, and keeping the rest, keeps the counts right.
LEMMA DestroyKeeps ==
    ASSUME DestroyedInv, PoolsInv, NEW gone \in SUBSET Kept, Kept' = Kept \ gone,
           UNCHANGED constructed, destructions' = Destroyed(destructions, gone)
    PROVE  DestroyedInv'
<1>1. Kept \subseteq 1..constructed
  BY DEF Kept
<1>2. ASSUME NEW e \in Elements
      PROVE  destructions'[e] = IF e \in (1..constructed') \ Kept' THEN 1 ELSE 0
  <2>1. destructions[e] = IF e \in (1..constructed) \ Kept THEN 1 ELSE 0
    BY DEF DestroyedInv
  <2>2. destructions'[e] = IF e \in gone THEN destructions[e] + 1 ELSE destructions[e]
    BY DEF Destroyed
  <2>3. CASE e \in gone
    BY <1>1, <2>1, <2>2, <2>3
  <2>4. CASE e \notin gone
    BY <1>1, <2>1, <2>2, <2>4
  <2>5. QED
    BY <2>3, <2>4
<1>3. destructions' = [e \in Elements |-> destructions'[e]]
  BY DEF Destroyed
<1> HIDE DEF Kept, DestroyedInv
<1>4. QED
  BY <1>2, <1>3 DEF DestroyedInv

\* The slots can be counted.
LEMMA SlotsFinite ==
    /\ IsFiniteSet(PoolSlots) /\ Cardinality(PoolSlots) = PoolCapacity
    /\ \A T \in SUBSET PoolSlots : IsFiniteSet(T) /\ Cardinality(T) \in Nat
<1>1. IsFiniteSet(PoolSlots) /\ Cardinality(PoolSlots) = PoolCapacity
  BY PoolsAssumption, FS_Interval DEF PoolSlots
<1>2. QED
  BY <1>1, FS_Subset, FS_CardinalityType

\* InOrder lists each of the slots once.
LEMMA InOrderLists ==
    ASSUME NEW S \in SUBSET Int, IsFiniteSet(S)
    PROVE  /\ InOrder(S) \in Seq(S) /\ Len(InOrder(S)) = Cardinality(S)
           /\ \A i, j \in 1..Cardinality(S) : InOrder(S)[i] = InOrder(S)[j] => i = j
           /\ \A x \in S : \E i \in 1..Cardinality(S) : InOrder(S)[i] = x
<1> DEFINE c == Cardinality(S)
           Place(a) == Cardinality({b \in S : b <= a})
           p == [a \in S |-> Place(a)]
<1>0. \A a \in S : a \in Int
  OBVIOUS
<1>1. c \in Nat
  BY FS_CardinalityType
<1>2. ASSUME NEW a \in S PROVE Place(a) \in 1..c
  <2> DEFINE low == {b \in S : b <= a}
  <2>1. IsFiniteSet(low) /\ Cardinality(low) <= c /\ Cardinality(low) \in Nat
    BY <1>1, FS_Subset, FS_CardinalityType
  <2>2. a \in low
    OBVIOUS
  <2>3. Cardinality(low) # 0
    BY <2>1, <2>2, FS_EmptySet
  <2> HIDE DEF low, c
  <2>4. Cardinality(low) \in 1..c
    BY <1>1, <2>1, <2>3
  <2>5. QED
    BY <2>4 DEF low
<1>3. ASSUME NEW a \in S, NEW b \in S, a < b PROVE Place(a) # Place(b)
  <2> DEFINE lowA == {x \in S : x <= a}
             lowB == {x \in S : x <= b}
  <2>1. IsFiniteSet(lowB)
    BY FS_Subset
  <2>2. lowA \subseteq lowB /\ b \in lowB /\ b \notin lowA
    <3>1. a \in Int /\ b \in Int /\ b <= b /\ ~(b <= a)
      BY <1>0, <1>3
    <3>2. \A x \in S : x <= a => x <= b
      BY <1>0, <1>3, <3>1
    <3>3. QED
      BY <3>1, <3>2
  <2> HIDE DEF lowA, lowB
  <2>3. Cardinality(lowA) # Cardinality(lowB)
    BY <2>1, <2>2, FS_Subset
  <2>4. QED
    BY <2>3 DEF lowA, lowB
<1>4. p \in [S -> 1..c]
  BY <1>2
<1>5. \A a, b \in S : p[a] = p[b] => a = b
  BY <1>3
<1>6. IsFiniteSet(1..c) /\ Cardinality(1..c) = c
  BY <1>1, FS_Interval
<1>7. InOrder(S) = [i \in 1..c |-> CHOOSE a \in S : Place(a) = i]
  BY DEF InOrder
<1>8. \A a \in S : p[a] = Place(a)
  OBVIOUS
<1> HIDE DEF p, Place, c
<1>9. p \in Surjection(S, 1..c)
  <2>1. p \in Injection(S, 1..c)
    BY <1>4, <1>5 DEF Injection, IsInjective
  <2>2. QED
    BY <1>1, <1>6, <2>1, FS_Injection DEF c
<1>10. \A i \in 1..c : \E a \in S : Place(a) = i
  BY <1>8, <1>9 DEF Surjection
<1>11. InOrder(S) \in [1..c -> S] /\ \A i \in 1..c : Place(InOrder(S)[i]) = i
  BY <1>7, <1>10
<1>12. ASSUME NEW x \in S PROVE Place(x) \in 1..c /\ InOrder(S)[Place(x)] = x
  <2>1. Place(x) \in 1..c
    BY <1>4, <1>8
  <2>2. PICK y \in S : y = InOrder(S)[Place(x)] /\ Place(y) = Place(x)
    BY <1>11, <2>1
  <2>3. p[x] = p[y]
    BY <1>8, <2>2
  <2>4. QED
    BY <1>5, <2>1, <2>2, <2>3
<1>13. InOrder(S) \in Seq(S) /\ Len(InOrder(S)) = c
  BY <1>1, <1>11
<1>14. QED
  BY <1>11, <1>12, <1>13 DEF c

\* What is known of a pool stays known when others' elements are made.
LEMMA PoolOkSame ==
    ASSUME NEW total \in Nat, NEW more \in Nat, total <= more, NEW given, NEW given2,
           \A e \in 1..total : given2[e] = given[e], NEW pool, PoolOk(pool, total, given)
    PROVE  PoolOk(pool, more, given2)
<1>1. pool \in PoolRecords(more)
  BY DEF PoolOk, PoolRecords
<1>2. SlotsOk(pool, given2)
  <2>1. \A s \in PoolSlots : pool.slots[s] # None => pool.slots[s] \in 1..total
    BY DEF PoolOk, PoolRecords, None
  <2>2. QED
    BY <2>1 DEF PoolOk, SlotsOk
<1>3. QED
  BY <1>1, <1>2 DEF PoolOk

\* A whole pool's stack and slots.
LEMMA PoolParts ==
    ASSUME NEW total, NEW pool \in PoolRecords(total)
    PROVE  /\ StackOk(pool) <=> StackOf(pool.freeStack, Live(pool)) /\ pool.inUse = Cardinality(Live(pool))
           /\ Live(pool) \in SUBSET PoolSlots
  BY DEF StackOk, PoolRecords, Live

-----------------------------------------------------------------------------
(* The stack of free slots *)

\* The stack of a pool is a list of its free slots.
LEMMA StackPops ==
    ASSUME NEW filled \in SUBSET PoolSlots, NEW stack, StackOf(stack, filled), stack # <<>>
    PROVE  /\ Last(stack) \in PoolSlots /\ Last(stack) \notin filled
           /\ StackOf(Front(stack), filled \cup {Last(stack)})
<1> DEFINE n == Len(stack)
           top == stack[n]
           rest == Front(stack)
<1>1. stack \in Seq(PoolSlots) /\ n \in Nat /\ n > 0 /\ DOMAIN stack = 1..n
  BY DEF StackOf
<1>2. Last(stack) = top /\ top \in PoolSlots /\ top \in ToSet(stack)
  BY <1>1 DEF Last, ToSet
<1>3. /\ rest \in Seq(PoolSlots) /\ Len(rest) = n - 1 /\ DOMAIN rest = 1..(n - 1)
      /\ \A i \in 1..(n - 1) : rest[i] = stack[i]
  BY <1>1 DEF Front
<1>4. \A i, j \in 1..n : stack[i] = stack[j] => i = j
  BY <1>1 DEF StackOf
<1>5. top \notin filled /\ ToSet(stack) = PoolSlots \ filled
  BY <1>2 DEF StackOf
<1> HIDE DEF rest, n, top
<1>6. \A i, j \in DOMAIN rest : rest[i] = rest[j] => i = j
  BY <1>1, <1>3, <1>4
<1>7. ToSet(rest) = ToSet(stack) \ {top}
  <2>1. \A i \in 1..(n - 1) : stack[i] # top
    <3> SUFFICES ASSUME NEW i \in 1..(n - 1), stack[i] = top PROVE FALSE
        OBVIOUS
    <3>1. i \in 1..n /\ n \in 1..n /\ i # n
      BY <1>1
    <3>2. QED
      BY <1>4, <3>1 DEF top
  <2>2. \A i \in 1..n : i = n \/ i \in 1..(n - 1)
    BY <1>1
  <2>3. ToSet(rest) = {stack[i] : i \in 1..(n - 1)}
    BY <1>3 DEF ToSet
  <2>4. ToSet(stack) = {stack[i] : i \in 1..n}
    BY <1>1 DEF ToSet
  <2>5. \A i \in 1..(n - 1) : i \in 1..n
    BY <1>1
  <2>6. stack[n] = top
    BY DEF top
  <2>7. QED
    BY <2>1, <2>2, <2>3, <2>4, <2>5, <2>6
<1>8. QED
  <2>1. ToSet(rest) = PoolSlots \ (filled \cup {top})
    BY <1>5, <1>7
  <2>2. QED
    BY <1>2, <1>3, <1>5, <1>6, <2>1 DEF StackOf, rest

\* A live slot that is pushed is free.
LEMMA StackPushes ==
    ASSUME NEW filled \in SUBSET PoolSlots, NEW stack, StackOf(stack, filled), NEW slot \in filled
    PROVE  StackOf(Append(stack, slot), filled \ {slot})
<1> DEFINE n == Len(stack)
           more == Append(stack, slot)
<1>1. stack \in Seq(PoolSlots) /\ n \in Nat /\ DOMAIN stack = 1..n /\ slot \in PoolSlots
  BY DEF StackOf
<1>2. /\ more \in Seq(PoolSlots) /\ DOMAIN more = 1..(n + 1) /\ more[n + 1] = slot
      /\ \A i \in 1..n : more[i] = stack[i]
  BY <1>1, AppendProperties
<1>3. /\ \A i, j \in 1..n : stack[i] = stack[j] => i = j
      /\ \A i \in 1..n : stack[i] \in PoolSlots \ filled
      /\ \A x \in PoolSlots \ filled : \E i \in 1..n : stack[i] = x
  BY <1>1 DEF StackOf, ToSet
<1> HIDE DEF n, more
<1>4. \A i \in 1..(n + 1) : i = n + 1 \/ i \in 1..n
  BY <1>1
<1>5. \A i, j \in DOMAIN more : more[i] = more[j] => i = j
  BY <1>2, <1>3, <1>4
<1>6. ToSet(more) = PoolSlots \ (filled \ {slot})
  <2>1. ToSet(more) = {more[i] : i \in 1..(n + 1)}
    BY <1>2 DEF ToSet
  <2>2. n + 1 \in 1..(n + 1) /\ \A i \in 1..n : i \in 1..(n + 1)
    BY <1>1
  <2>3. ASSUME NEW x \in PoolSlots \ (filled \ {slot}) PROVE \E i \in 1..(n + 1) : more[i] = x
    BY <1>2, <1>3, <2>2
  <2>4. ASSUME NEW i \in 1..(n + 1) PROVE more[i] \in PoolSlots \ (filled \ {slot})
    BY <1>1, <1>2, <1>3, <1>4
  <2>5. QED
    BY <2>1, <2>3, <2>4
<1>7. QED
  BY <1>2, <1>5, <1>6 DEF StackOf, more

\* With the live slots in order above it, the stack has every slot.
LEMMA StackFills ==
    ASSUME NEW filled \in SUBSET PoolSlots, NEW stack, StackOf(stack, filled)
    PROVE  StackOf(stack \o InOrder(filled), {})
<1> DEFINE n == Len(stack)
           rest == InOrder(filled)
           m == Cardinality(filled)
           more == stack \o rest
<1>1. stack \in Seq(PoolSlots) /\ n \in Nat /\ DOMAIN stack = 1..n
  BY DEF StackOf
<1>2. filled \in SUBSET Int /\ IsFiniteSet(filled) /\ m \in Nat
  BY SlotsFinite DEF PoolSlots
<1>3. /\ rest \in Seq(PoolSlots) /\ Len(rest) = m /\ DOMAIN rest = 1..m
      /\ \A i, j \in 1..m : rest[i] = rest[j] => i = j
      /\ \A i \in 1..m : rest[i] \in filled
      /\ \A x \in filled : \E i \in 1..m : rest[i] = x
  <2>1. /\ rest \in Seq(filled) /\ Len(rest) = m
        /\ \A i, j \in 1..m : rest[i] = rest[j] => i = j
        /\ \A x \in filled : \E i \in 1..m : rest[i] = x
    BY <1>2, InOrderLists
  <2> HIDE DEF rest, m
  <2>2. DOMAIN rest = 1..m /\ \A i \in 1..m : rest[i] \in filled
    BY <2>1, LenProperties
  <2>3. rest \in Seq(PoolSlots)
    BY <2>1, SeqMonotonic
  <2>4. QED
    BY <2>1, <2>2, <2>3
<1>4. /\ \A i, j \in 1..n : stack[i] = stack[j] => i = j
      /\ \A i \in 1..n : stack[i] \in PoolSlots \ filled
      /\ \A x \in PoolSlots \ filled : \E i \in 1..n : stack[i] = x
  BY <1>1 DEF StackOf, ToSet
<1> HIDE DEF rest, n, m
<1>5. /\ more \in Seq(PoolSlots) /\ DOMAIN more = 1..(n + m)
      /\ \A i \in 1..n : more[i] = stack[i]
      /\ \A i \in 1..m : more[n + i] = rest[i]
  BY <1>1, <1>2, <1>3 DEF n
<1> HIDE DEF more
<1>6. \A i \in 1..(n + m) : i \in 1..n \/ \E j \in 1..m : i = n + j
  <2> SUFFICES ASSUME NEW i \in 1..(n + m), i \notin 1..n PROVE \E j \in 1..m : i = n + j
      OBVIOUS
  <2>1. i - n \in 1..m /\ i = n + (i - n)
    BY <1>1, <1>2
  <2>2. QED
    BY <2>1
<1>7. \A i, j \in DOMAIN more : more[i] = more[j] => i = j
  BY <1>3, <1>4, <1>5, <1>6
<1>8. ToSet(more) = PoolSlots
  <2>1. ToSet(more) = {more[i] : i \in 1..(n + m)}
    BY <1>5 DEF ToSet
  <2>2. /\ \A i \in 1..n : i \in 1..(n + m)
        /\ \A i \in 1..m : n + i \in 1..(n + m)
    BY <1>1, <1>2
  <2>3. ASSUME NEW x \in PoolSlots PROVE \E i \in 1..(n + m) : more[i] = x
    BY <1>3, <1>4, <1>5, <2>2
  <2>4. ASSUME NEW i \in 1..(n + m) PROVE more[i] \in PoolSlots
    BY <1>3, <1>4, <1>5, <1>6
  <2>5. QED
    BY <2>1, <2>3, <2>4
<1>9. QED
  BY <1>5, <1>7, <1>8 DEF StackOf, more, rest

-----------------------------------------------------------------------------
(* What each operation makes of a pool *)

\* A whole pool field by field.
LEMMA Parts ==
    ASSUME NEW total, NEW pool \in PoolRecords(total)
    PROVE  /\ pool.store \in Nat \ {0} /\ pool.uses \in [PoolSlots -> Nat]
           /\ pool.capacity = PoolCapacity /\ pool.inUse \in Nat
           /\ pool.generations \in [PoolSlots -> 0..(PoolGenerations - 1)]
           /\ pool.slots \in [PoolSlots -> 0..total] /\ pool.freeStack \in Seq(PoolSlots)
           /\ pool = [store |-> pool.store, uses |-> pool.uses, capacity |-> pool.capacity,
                      generations |-> pool.generations, slots |-> pool.slots,
                      freeStack |-> pool.freeStack, inUse |-> pool.inUse]
           /\ Live(pool) = {s \in PoolSlots : pool.slots[s] # None}
  BY DEF PoolRecords, Live

\* A new pool is whole.
LEMMA FreshOk ==
    ASSUME NEW total \in Nat, NEW given, NEW n \in Nat \ {0}
    PROVE  PoolOk(Fresh(n), total, given)
<1> DEFINE free == [i \in 1..PoolCapacity |-> i - 1]
<1> USE PoolsAssumption
<1>1. free \in Seq(PoolSlots) /\ DOMAIN free = 1..PoolCapacity
  BY DEF PoolSlots
<1>2. ToSet(free) = PoolSlots
  <2>1. \A s \in PoolSlots : s + 1 \in 1..PoolCapacity /\ free[s + 1] = s
    BY DEF PoolSlots
  <2>2. \A i \in 1..PoolCapacity : free[i] \in PoolSlots
    BY DEF PoolSlots
  <2> HIDE DEF free
  <2>3. QED
    BY <1>1, <2>1, <2>2 DEF ToSet
<1>3. StackOf(free, {})
  BY <1>1, <1>2 DEF StackOf
<1>4. 1 % PoolGenerations = 1
  <2>1. 1 = 0 * PoolGenerations + 1 /\ 1 \in 0..(PoolGenerations - 1)
    OBVIOUS
  <2>2. QED
    BY <2>1, ModUnique
<1> HIDE DEF free
<1>5. PICK new : new = Fresh(n)
  OBVIOUS
<1>6. /\ new = [store |-> n, uses |-> [s \in PoolSlots |-> 0], capacity |-> PoolCapacity,
                generations |-> [s \in PoolSlots |-> 1], slots |-> [s \in PoolSlots |-> None],
                freeStack |-> free, inUse |-> 0]
  BY <1>5 DEF Fresh, free
<1>7. new \in PoolRecords(total)
  <2>1. /\ [s \in PoolSlots |-> 0] \in [PoolSlots -> Nat]
        /\ [s \in PoolSlots |-> 1] \in [PoolSlots -> 0..(PoolGenerations - 1)]
        /\ [s \in PoolSlots |-> None] \in [PoolSlots -> 0..total]
    BY DEF None
  <2>2. QED
    BY <1>1, <1>6, <2>1 DEF PoolRecords
<1>8. StackOk(new)
  <2>1. Live(new) = {} /\ new.inUse = 0 /\ new.freeStack = free
    BY <1>6 DEF Live
  <2>2. QED
    BY <1>3, <2>1, FS_EmptySet DEF StackOk
<1>9. SlotsOk(new, given)
  BY <1>4, <1>6 DEF SlotsOk
<1>10. QED
  BY <1>5, <1>7, <1>8, <1>9 DEF PoolOk

\* The pool after create() put element e in the last free slot.
Created(pool, slot, e) ==
    [pool EXCEPT !.slots[slot] = e, !.uses[slot] = @ + 1, !.freeStack = Front(@), !.inUse = @ + 1]

\* That pool, field by field.
LEMMA CreatedParts ==
    ASSUME NEW total, NEW pool \in PoolRecords(total), NEW slot, NEW e, NEW new,
           new = Created(pool, slot, e)
    PROVE  new = [store |-> pool.store, uses |-> [pool.uses EXCEPT ![slot] = pool.uses[slot] + 1],
                  capacity |-> pool.capacity, generations |-> pool.generations,
                  slots |-> [pool.slots EXCEPT ![slot] = e], freeStack |-> Front(pool.freeStack),
                  inUse |-> pool.inUse + 1]
<1>1. PICK a, b, c, d, f, g, h : pool = [store |-> a, uses |-> b, capacity |-> c, generations |-> d,
                                         slots |-> f, freeStack |-> g, inUse |-> h]
  BY Parts
<1>2. new = [store |-> a, uses |-> [b EXCEPT ![slot] = b[slot] + 1], capacity |-> c,
             generations |-> d, slots |-> [f EXCEPT ![slot] = e], freeStack |-> Front(g),
             inUse |-> h + 1]
  BY <1>1 DEF Created
<1>3. /\ pool.store = a /\ pool.uses = b /\ pool.capacity = c /\ pool.generations = d
      /\ pool.slots = f /\ pool.freeStack = g /\ pool.inUse = h
  BY <1>1
<1>4. QED
  BY <1>2, <1>3

\* create() keeps a pool whole, and its handle names the slot and the use it begins.
LEMMA CreatedOk ==
    ASSUME NEW total \in Nat, NEW given, NEW given2, NEW pool, PoolOk(pool, total, given),
           \A e \in 1..total : given2[e] = given[e], pool.freeStack # <<>>,
           NEW slot, slot = Last(pool.freeStack),
           NEW e, e = total + 1,
           given2[e] = [index |-> slot, generation |-> pool.generations[slot],
                        store |-> pool.store, use |-> pool.uses[slot]],
           NEW new, new = Created(pool, slot, e)
    PROVE  /\ PoolOk(new, total + 1, given2)
           /\ slot \in PoolSlots /\ pool.slots[slot] = None
           /\ pool.generations[slot] = (pool.uses[slot] + 1) % PoolGenerations
           /\ new.store = pool.store /\ new.slots = [pool.slots EXCEPT ![slot] = e]
           /\ new.uses = [pool.uses EXCEPT ![slot] = pool.uses[slot] + 1]
<1>1. /\ pool \in PoolRecords(total) /\ StackOf(pool.freeStack, Live(pool)) /\ SlotsOk(pool, given)
      /\ pool.inUse = Cardinality(Live(pool)) /\ Live(pool) \in SUBSET PoolSlots
  BY DEF PoolOk, StackOk, PoolRecords, Live
<1>2. /\ slot \in PoolSlots /\ slot \notin Live(pool)
      /\ StackOf(Front(pool.freeStack), Live(pool) \cup {slot})
  BY <1>1, StackPops
<1>3. /\ pool.uses \in [PoolSlots -> Nat] /\ pool.slots \in [PoolSlots -> 0..total]
      /\ pool.generations \in [PoolSlots -> 0..(PoolGenerations - 1)]
      /\ pool.capacity = PoolCapacity /\ pool.store \in Nat \ {0} /\ pool.inUse \in Nat
      /\ Live(pool) = {s \in PoolSlots : pool.slots[s] # None}
  BY <1>1, Parts
<1>4. pool.slots[slot] = None
  BY <1>2, <1>3
<1>5. PICK uses, slots, stack, inUse2 :
         /\ uses = [pool.uses EXCEPT ![slot] = pool.uses[slot] + 1]
         /\ slots = [pool.slots EXCEPT ![slot] = e]
         /\ stack = Front(pool.freeStack) /\ inUse2 = pool.inUse + 1
  OBVIOUS
<1>6. new = [store |-> pool.store, uses |-> uses, capacity |-> pool.capacity,
             generations |-> pool.generations, slots |-> slots, freeStack |-> stack,
             inUse |-> inUse2]
  BY <1>1, <1>5, CreatedParts
<1>7. new \in PoolRecords(e)
  <2>1. /\ uses \in [PoolSlots -> Nat] /\ slots \in [PoolSlots -> 0..e]
        /\ stack \in Seq(PoolSlots) /\ inUse2 \in Nat
    <3>1. e \in 0..e /\ 0..total \subseteq 0..e
      OBVIOUS
    <3>2. slots \in [PoolSlots -> 0..e]
      BY <1>2, <1>3, <1>5, <3>1
    <3>3. QED
      BY <1>2, <1>3, <1>5, <3>2 DEF StackOf
  <2>2. QED
    BY <1>3, <1>6, <2>1 DEF PoolRecords
<1>8. /\ new.store = pool.store /\ new.uses = uses /\ new.slots = slots /\ new.inUse = inUse2
      /\ new.generations = pool.generations /\ new.freeStack = stack
  BY <1>6
<1>9. Live(new) = Live(pool) \cup {slot}
  BY <1>2, <1>3, <1>5, <1>8 DEF Live, None
<1>10. StackOk(new)
  <2>1. Cardinality(Live(new)) = Cardinality(Live(pool)) + 1
    BY <1>1, <1>2, <1>9, SlotsFinite, FS_AddElement
  <2>2. QED
    BY <1>1, <1>2, <1>5, <1>8, <1>9, <2>1 DEF StackOk
<1>11. SlotsOk(new, given2)
  <2> SUFFICES ASSUME NEW s \in PoolSlots
               PROVE  IF slots[s] = None
                      THEN pool.generations[s] = (uses[s] + 1) % PoolGenerations
                      ELSE /\ uses[s] > 0
                           /\ pool.generations[s] = uses[s] % PoolGenerations
                           /\ given2[slots[s]] =
                                 [index |-> s, generation |-> pool.generations[s],
                                  store |-> pool.store, use |-> uses[s] - 1]
      BY <1>8 DEF SlotsOk
  <2>1. CASE s = slot
    <3>1. /\ slots[s] = e /\ uses[s] = pool.uses[s] + 1 /\ pool.uses[s] \in Nat
          /\ pool.generations[s] = (pool.uses[s] + 1) % PoolGenerations
      BY <1>1, <1>2, <1>3, <1>4, <1>5, <2>1 DEF SlotsOk
    <3>2. uses[s] - 1 = pool.uses[s] /\ e # None /\ uses[s] > 0
      BY <3>1 DEF None
    <3>3. QED
      BY <2>1, <3>1, <3>2
  <2>2. CASE s # slot
    <3>1. slots[s] = pool.slots[s] /\ uses[s] = pool.uses[s] /\ pool.slots[s] \in 0..total
      BY <1>3, <1>5, <2>2
    <3>2. pool.slots[s] # None => given2[pool.slots[s]] = given[pool.slots[s]]
      BY <3>1 DEF None
    <3>3. QED
      BY <1>1, <3>1, <3>2 DEF SlotsOk
  <2>3. QED
    BY <2>1, <2>2
<1>12. pool.generations[slot] = (pool.uses[slot] + 1) % PoolGenerations
  BY <1>1, <1>2, <1>4 DEF SlotsOk
<1>13. QED
  BY <1>2, <1>4, <1>5, <1>7, <1>8, <1>10, <1>11, <1>12 DEF PoolOk

\* One more than a remainder goes round as the next number does.
LEMMA ModNext ==
    ASSUME NEW m \in Nat, m > 1, NEW x \in Nat
    PROVE  ((x % m) + 1) % m = (x + 1) % m /\ x % m \in 0..(m - 1)
<1> DEFINE q == x \div m
           r == x % m
<1>1. q \in Int /\ r \in 0..(m - 1) /\ x = q * m + r
  OBVIOUS
<1> HIDE DEF q, r
<1>2. CASE r + 1 < m
  <2>1. r + 1 = 0 * m + (r + 1) /\ r + 1 \in 0..(m - 1) /\ x + 1 = q * m + (r + 1)
    BY <1>1, <1>2
  <2>2. (r + 1) % m = r + 1
    BY <1>1, <2>1, ModUnique
  <2>3. (x + 1) % m = r + 1
    BY <1>1, <2>1, ModUnique
  <2>4. QED
    BY <1>1, <2>2, <2>3 DEF r
<1>3. CASE r + 1 = m
  <2>1. r + 1 = 1 * m + 0 /\ 0 \in 0..(m - 1) /\ x + 1 = (q + 1) * m + 0
    BY <1>1, <1>3
  <2>2. (r + 1) % m = 0
    BY <1>1, <2>1, ModUnique
  <2>3. (x + 1) % m = 0
    BY <1>1, <2>1, ModUnique
  <2>4. QED
    BY <1>1, <2>2, <2>3 DEF r
<1>4. QED
  BY <1>1, <1>2, <1>3

\* The pool after destroy(), field by field.
LEMMA ReleasedParts ==
    ASSUME NEW total, NEW pool \in PoolRecords(total), NEW slot, NEW new, new = Released(pool, slot)
    PROVE  new = [store |-> pool.store, uses |-> pool.uses, capacity |-> pool.capacity,
                  generations |-> [pool.generations EXCEPT
                      ![slot] = (pool.generations[slot] + 1) % PoolGenerations],
                  slots |-> [pool.slots EXCEPT ![slot] = None],
                  freeStack |-> Append(pool.freeStack, slot), inUse |-> pool.inUse - 1]
<1>1. PICK a, b, c, d, f, g, h : pool = [store |-> a, uses |-> b, capacity |-> c, generations |-> d,
                                         slots |-> f, freeStack |-> g, inUse |-> h]
  BY Parts
<1>2. new = [store |-> a, uses |-> b, capacity |-> c,
             generations |-> [d EXCEPT ![slot] = (d[slot] + 1) % PoolGenerations],
             slots |-> [f EXCEPT ![slot] = None], freeStack |-> Append(g, slot), inUse |-> h - 1]
  BY <1>1 DEF Released
<1>3. /\ pool.store = a /\ pool.uses = b /\ pool.capacity = c /\ pool.generations = d
      /\ pool.slots = f /\ pool.freeStack = g /\ pool.inUse = h
  BY <1>1
<1>4. QED
  BY <1>2, <1>3

\* destroy() keeps a pool whole: the slot has left the generation of its last use.
LEMMA ReleasedOk ==
    ASSUME NEW total \in Nat, NEW given, NEW pool, PoolOk(pool, total, given),
           NEW slot \in Live(pool), NEW new, new = Released(pool, slot)
    PROVE  /\ PoolOk(new, total, given) /\ slot \in PoolSlots
           /\ new.store = pool.store /\ new.slots = [pool.slots EXCEPT ![slot] = None]
           /\ new.uses = pool.uses
<1>1. /\ pool \in PoolRecords(total) /\ StackOf(pool.freeStack, Live(pool)) /\ SlotsOk(pool, given)
      /\ pool.inUse = Cardinality(Live(pool)) /\ Live(pool) \in SUBSET PoolSlots
  BY DEF PoolOk, StackOk, PoolRecords, Live
<1>2. slot \in PoolSlots /\ StackOf(Append(pool.freeStack, slot), Live(pool) \ {slot})
  BY <1>1, StackPushes
<1>3. /\ pool.uses \in [PoolSlots -> Nat] /\ pool.slots \in [PoolSlots -> 0..total]
      /\ pool.generations \in [PoolSlots -> 0..(PoolGenerations - 1)]
      /\ pool.capacity = PoolCapacity /\ pool.store \in Nat \ {0} /\ pool.inUse \in Nat
      /\ Live(pool) = {s \in PoolSlots : pool.slots[s] # None}
  BY <1>1, Parts
<1>4. PICK gens, slots, stack, inUse2 :
         /\ gens = [pool.generations EXCEPT
                        ![slot] = (pool.generations[slot] + 1) % PoolGenerations]
         /\ slots = [pool.slots EXCEPT ![slot] = None]
         /\ stack = Append(pool.freeStack, slot) /\ inUse2 = pool.inUse - 1
  OBVIOUS
<1>5. new = [store |-> pool.store, uses |-> pool.uses, capacity |-> pool.capacity,
             generations |-> gens, slots |-> slots, freeStack |-> stack, inUse |-> inUse2]
  BY <1>1, <1>4, ReleasedParts
<1>6. /\ gens[slot] = (pool.uses[slot] + 1) % PoolGenerations
      /\ gens[slot] \in 0..(PoolGenerations - 1)
  <2>1. pool.generations[slot] = pool.uses[slot] % PoolGenerations
    BY <1>1, <1>2, <1>3 DEF SlotsOk
  <2>2. /\ ((pool.uses[slot] % PoolGenerations) + 1) % PoolGenerations
              = (pool.uses[slot] + 1) % PoolGenerations
        /\ (pool.uses[slot] + 1) % PoolGenerations \in 0..(PoolGenerations - 1)
    <3>1. pool.uses[slot] \in Nat /\ pool.uses[slot] + 1 \in Nat
      BY <1>2, <1>3
    <3>2. QED
      BY <3>1, ModNext, PoolsAssumption
  <2>3. QED
    BY <1>2, <1>3, <1>4, <2>1, <2>2
<1>7. /\ new.store = pool.store /\ new.uses = pool.uses /\ new.slots = slots /\ new.inUse = inUse2
      /\ new.generations = gens /\ new.freeStack = stack
  BY <1>5
<1>8. Live(new) = Live(pool) \ {slot}
  BY <1>2, <1>3, <1>4, <1>7 DEF Live, None
<1>9. /\ Cardinality(Live(new)) = Cardinality(Live(pool)) - 1 /\ inUse2 = Cardinality(Live(new))
      /\ inUse2 \in Nat
  <2>1. Cardinality(Live(new)) = Cardinality(Live(pool)) - 1
    BY <1>1, <1>8, SlotsFinite, FS_RemoveElement
  <2>2. Live(new) \in SUBSET PoolSlots
    BY <1>1, <1>8
  <2>3. QED
    BY <1>1, <1>4, <2>1, <2>2, SlotsFinite
<1>10. new \in PoolRecords(total)
  <2>1. /\ gens \in [PoolSlots -> 0..(PoolGenerations - 1)] /\ slots \in [PoolSlots -> 0..total]
        /\ stack \in Seq(PoolSlots)
    BY <1>2, <1>3, <1>4, <1>6 DEF StackOf, None
  <2>2. QED
    BY <1>3, <1>5, <1>9, <2>1 DEF PoolRecords
<1>11. StackOk(new)
  BY <1>2, <1>4, <1>7, <1>8, <1>9 DEF StackOk
<1>12. SlotsOk(new, given)
  <2> SUFFICES ASSUME NEW s \in PoolSlots
               PROVE  IF slots[s] = None
                      THEN gens[s] = (pool.uses[s] + 1) % PoolGenerations
                      ELSE /\ pool.uses[s] > 0
                           /\ gens[s] = pool.uses[s] % PoolGenerations
                           /\ given[slots[s]] =
                                 [index |-> s, generation |-> gens[s],
                                  store |-> pool.store, use |-> pool.uses[s] - 1]
      BY <1>7 DEF SlotsOk
  <2>1. CASE s = slot
    BY <1>2, <1>3, <1>4, <1>6, <2>1
  <2>2. CASE s # slot
    <3>1. slots[s] = pool.slots[s] /\ gens[s] = pool.generations[s]
      BY <1>3, <1>4, <2>2
    <3>2. QED
      BY <1>1, <3>1 DEF SlotsOk
  <2>3. QED
    BY <2>1, <2>2
<1>13. QED
  BY <1>2, <1>4, <1>7, <1>10, <1>11, <1>12 DEF PoolOk

\* The pool after clear(), field by field.
LEMMA ClearedParts ==
    ASSUME NEW total, NEW pool \in PoolRecords(total), NEW new, new = Cleared(pool)
    PROVE  new = [store |-> pool.store, uses |-> pool.uses, capacity |-> pool.capacity,
                  generations |-> [s \in PoolSlots |->
                      IF s \in Live(pool) THEN (pool.generations[s] + 1) % PoolGenerations
                                          ELSE pool.generations[s]],
                  slots |-> [s \in PoolSlots |-> None],
                  freeStack |-> pool.freeStack \o InOrder(Live(pool)), inUse |-> 0]
<1>1. PICK a, b, c, d, f, g, h : pool = [store |-> a, uses |-> b, capacity |-> c, generations |-> d,
                                         slots |-> f, freeStack |-> g, inUse |-> h]
  BY Parts
<1>2. PICK filled, ordered : filled = Live(pool) /\ ordered = InOrder(filled)
  OBVIOUS
<1>3. /\ pool.store = a /\ pool.uses = b /\ pool.capacity = c /\ pool.generations = d
      /\ pool.slots = f /\ pool.freeStack = g /\ pool.inUse = h
  BY <1>1
<1>4. DOMAIN d = PoolSlots /\ DOMAIN f = PoolSlots
  BY <1>3, Parts
<1>5. new = [pool EXCEPT !.slots = [s \in DOMAIN f |-> None],
                 !.generations = [s \in DOMAIN d |->
                     IF s \in filled THEN (d[s] + 1) % PoolGenerations ELSE d[s]],
                 !.freeStack = g \o ordered, !.inUse = 0]
  BY <1>2, <1>3 DEF Cleared
<1>6. new = [store |-> a, uses |-> b, capacity |-> c,
             generations |-> [s \in DOMAIN d |->
                 IF s \in filled THEN (d[s] + 1) % PoolGenerations ELSE d[s]],
             slots |-> [s \in DOMAIN f |-> None], freeStack |-> g \o ordered, inUse |-> 0]
  BY <1>1, <1>5
<1>7. QED
  BY <1>2, <1>3, <1>4, <1>6

\* clear() keeps a pool whole, and every slot is free.
LEMMA ClearedOk ==
    ASSUME NEW total \in Nat, NEW given, NEW pool, PoolOk(pool, total, given),
           NEW new, new = Cleared(pool)
    PROVE  /\ PoolOk(new, total, given)
           /\ new.store = pool.store /\ new.slots = [s \in PoolSlots |-> None]
           /\ new.uses = pool.uses
<1>1. /\ pool \in PoolRecords(total) /\ StackOf(pool.freeStack, Live(pool)) /\ SlotsOk(pool, given)
      /\ Live(pool) \in SUBSET PoolSlots
  BY DEF PoolOk, StackOk, PoolRecords, Live
<1>2. StackOf(pool.freeStack \o InOrder(Live(pool)), {})
  BY <1>1, StackFills
<1>3. /\ pool.uses \in [PoolSlots -> Nat]
      /\ pool.generations \in [PoolSlots -> 0..(PoolGenerations - 1)]
      /\ pool.capacity = PoolCapacity /\ pool.store \in Nat \ {0}
      /\ Live(pool) = {s \in PoolSlots : pool.slots[s] # None}
  BY <1>1, Parts
<1>4. PICK gens, stack :
         /\ gens = [s \in PoolSlots |->
                IF s \in Live(pool) THEN (pool.generations[s] + 1) % PoolGenerations
                                    ELSE pool.generations[s]]
         /\ stack = pool.freeStack \o InOrder(Live(pool))
  OBVIOUS
<1>5. new = [store |-> pool.store, uses |-> pool.uses, capacity |-> pool.capacity,
             generations |-> gens, slots |-> [s \in PoolSlots |-> None], freeStack |-> stack,
             inUse |-> 0]
  BY <1>1, <1>4, ClearedParts
<1>6. ASSUME NEW s \in PoolSlots
      PROVE  /\ gens[s] = (pool.uses[s] + 1) % PoolGenerations
             /\ gens[s] \in 0..(PoolGenerations - 1)
  <2>1. /\ ((pool.uses[s] % PoolGenerations) + 1) % PoolGenerations
              = (pool.uses[s] + 1) % PoolGenerations
        /\ (pool.uses[s] + 1) % PoolGenerations \in 0..(PoolGenerations - 1)
    <3>1. pool.uses[s] \in Nat /\ pool.uses[s] + 1 \in Nat
      BY <1>3
    <3>2. QED
      BY <3>1, ModNext, PoolsAssumption
  <2>2. CASE s \in Live(pool)
    <3>1. pool.generations[s] = pool.uses[s] % PoolGenerations
      BY <1>1, <1>3, <2>2 DEF SlotsOk
    <3>2. QED
      BY <1>4, <2>1, <2>2, <3>1
  <2>3. CASE s \notin Live(pool)
    <3>1. pool.generations[s] = (pool.uses[s] + 1) % PoolGenerations
      BY <1>1, <1>3, <2>3 DEF SlotsOk
    <3>2. QED
      BY <1>4, <2>1, <2>3, <3>1
  <2>4. QED
    BY <2>2, <2>3
<1>7. /\ new.store = pool.store /\ new.uses = pool.uses /\ new.inUse = 0
      /\ new.slots = [s \in PoolSlots |-> None]
      /\ new.generations = gens /\ new.freeStack = stack
  BY <1>5
<1>8. new \in PoolRecords(total)
  <2>1. gens \in [PoolSlots -> 0..(PoolGenerations - 1)]
    BY <1>4, <1>6
  <2>2. stack \in Seq(PoolSlots) /\ [s \in PoolSlots |-> None] \in [PoolSlots -> 0..total]
    BY <1>2, <1>4 DEF StackOf, None
  <2>3. QED
    BY <1>3, <1>5, <2>1, <2>2 DEF PoolRecords
<1>9. Live(new) = {}
  BY <1>7 DEF Live
<1>10. StackOk(new)
  BY <1>2, <1>4, <1>7, <1>9, FS_EmptySet DEF StackOk
<1>11. SlotsOk(new, given)
  BY <1>6, <1>7 DEF SlotsOk
<1>12. QED
  BY <1>7, <1>8, <1>10, <1>11 DEF PoolOk

-----------------------------------------------------------------------------
(* The operations *)

\* An arena's elements were constructed.
LEMMA ArenaElements ==
    ASSUME ArenaInv
    PROVE  \A i \in DOMAIN arena : arena[i] \in 1..constructed
  BY ElementOfSeq, LenProperties DEF ArenaInv

\* An element is held by one pool, or the arena, and is among those that are kept.
LEMMA HeldOnce ==
    ASSUME GivenInv, PoolsInv, ArenaInv, NEW p \in PoolIds
    PROVE  /\ Held(pools[p]) \subseteq Kept
           /\ \A e \in Held(pools[p]) : e \notin ToSet(arena)
           /\ \A q \in PoolIds : \A e \in Held(pools[p]) : e \in Held(pools[q]) => q = p
<1> SUFFICES ASSUME NEW e \in Held(pools[p])
             PROVE  /\ e \in Kept /\ e \notin ToSet(arena)
                    /\ \A q \in PoolIds : e \in Held(pools[q]) => q = p
    OBVIOUS
<1>1. PICK s \in DOMAIN pools[p].slots : pools[p].slots[s] = e /\ e # None
  BY DEF Held
<1>2. /\ e \in 1..constructed /\ e \notin ToSet(arena)
      /\ \A q \in PoolIds : \A t \in DOMAIN pools[q].slots : pools[q].slots[t] = e => q = p
  BY <1>1, OnePlace
<1>3. \A q \in PoolIds : e \in Held(pools[q]) => q = p
  BY <1>2 DEF Held
<1>4. QED
  BY <1>2, <1>3 DEF Kept

\* A pool that keeps its store and its uses and gives up the elements of some slots.
LEMMA PoolGivesUp ==
    ASSUME ElementsInv, NEW p \in PoolIds, pools[p] # MovedFrom,
           NEW new, PoolOk(new, constructed, handles),
           new.store = pools[p].store, new.uses = pools[p].uses,
           NEW lost \in SUBSET Live(pools[p]),
           new.slots = [s \in PoolSlots |-> IF s \in lost THEN None ELSE pools[p].slots[s]],
           pools' = [pools EXCEPT ![p] = new],
           NEW gone, gone = {pools[p].slots[s] : s \in lost},
           destructions' = Destroyed(destructions, gone),
           UNCHANGED <<arena, constructed, handles, stores>>
    PROVE  ElementsInv'
<1> USE DEF ElementsInv
<1>1. PoolOk(pools[p], constructed, handles) /\ DOMAIN pools = PoolIds
  BY DEF PoolsInv
<1>2. DOMAIN pools' = PoolIds /\ pools'[p] = new /\ \A q \in PoolIds : q # p => pools'[q] = pools[q]
  BY <1>1
<1>3. \A q \in PoolIds : pools'[q].store = pools[q].store
  BY <1>2
<1>4. GivenInv'
  <2>1. \A q \in PoolIds : pools'[q].uses = pools[q].uses
    BY <1>2
  <2>2. QED
    BY <1>3, <2>1 DEF GivenInv
<1>5. PoolsInv'
  <2>1. \A q \in PoolIds : pools'[q] = MovedFrom \/ PoolOk(pools'[q], constructed, handles)
    BY <1>2 DEF PoolsInv
  <2>2. QED
    BY <1>2, <1>3, <2>1 DEF PoolsInv
<1>6. ArenaInv'
  BY DEF ArenaInv
<1>7. DestroyedInv'
  <2>1. Live(pools[p]) = {s \in PoolSlots : pools[p].slots[s] # None} /\ DOMAIN pools[p].slots = PoolSlots
    BY <1>1, Parts DEF PoolOk
  <2>2. gone \subseteq Held(pools[p])
    BY <2>1 DEF Held
  <2>3. Held(new) = Held(pools[p]) \ gone
    <3>1. ASSUME NEW e \in Held(new) PROVE e \in Held(pools[p]) /\ e \notin gone
      <4>1. PICK s \in PoolSlots : new.slots[s] = e /\ e # None
        BY <3>1 DEF Held
      <4>2. s \notin lost /\ pools[p].slots[s] = e
        BY <4>1
      <4>3. e \in Held(pools[p])
        BY <2>1, <4>1, <4>2 DEF Held
      <4>4. \A t \in PoolSlots : pools[p].slots[t] = e => t = s
        BY <2>1, <4>1, <4>2, OnePlace
      <4>5. e \notin gone
        BY <2>1, <4>2, <4>4
      <4>6. QED
        BY <4>3, <4>5
    <3>2. ASSUME NEW e \in Held(pools[p]), e \notin gone PROVE e \in Held(new)
      <4>1. PICK s \in PoolSlots : pools[p].slots[s] = e /\ e # None
        BY <2>1 DEF Held
      <4>2. s \notin lost
        BY <3>2, <4>1
      <4>3. new.slots[s] = e /\ DOMAIN new.slots = PoolSlots
        BY <4>1, <4>2
      <4>4. QED
        BY <4>1, <4>3 DEF Held
    <3>3. QED
      BY <3>1, <3>2
  <2>4. Kept' = Kept \ gone
    <3>1. \A q \in PoolIds : q # p => Held(pools[q])' = Held(pools[q])
      BY <1>2 DEF Held
    <3>2. Held(pools[p])' = Held(pools[p]) \ gone
      BY <1>2, <2>3 DEF Held
    <3>3. /\ \A e \in gone : e \notin ToSet(arena)
          /\ \A q \in PoolIds : \A e \in gone : e \in Held(pools[q]) => q = p
      BY <2>2, HeldOnce
    <3>4. Kept' = {e \in 1..constructed : e \in ToSet(arena) \/ \E q \in PoolIds : e \in Held(pools[q])'}
      BY DEF Kept
    <3>5. QED
      BY <3>1, <3>2, <3>3, <3>4 DEF Kept
  <2>5. gone \in SUBSET Kept
    BY <2>2, HeldOnce
  <2>6. QED
    BY <2>4, <2>5, DestroyKeeps
<1>8. QED
  BY <1>4, <1>5, <1>6, <1>7

\* destroy() with a handle of any pool destroys the element in the slot it names.
LEMMA PoolDestroyStep ==
    ASSUME ElementsInv, NEW p \in PoolIds, PoolDestroy(p)
    PROVE  ElementsInv'
<1> USE DEF ElementsInv
<1>1. PICK e \in 1..constructed :
         /\ handles[e].store # None /\ HandleIsValid(pools[p], handles[e])
         /\ destructions' = Destroyed(destructions, {pools[p].slots[handles[e].index]})
         /\ pools' = [pools EXCEPT ![p] = Released(pools[p], handles[e].index)]
         /\ UNCHANGED <<arena, constructed, handles, stores>>
  BY DEF PoolDestroy
<1>2. PICK slot : slot = handles[e].index
  OBVIOUS
<1>3. slot \in PoolSlots /\ slot < pools[p].capacity /\ pools[p].slots[slot] # None
  BY <1>1, <1>2 DEF GivenInv, HandleIsValid
<1>4. pools[p] # MovedFrom
  BY <1>3 DEF MovedFrom, PoolSlots
<1>5. PoolOk(pools[p], constructed, handles) /\ constructed \in Nat
  BY <1>4 DEF PoolsInv
<1>6. /\ Live(pools[p]) = {s \in PoolSlots : pools[p].slots[s] # None}
      /\ pools[p].slots \in [PoolSlots -> 0..constructed]
  BY <1>5, Parts DEF PoolOk
<1>7. PICK new : new = Released(pools[p], slot)
  OBVIOUS
<1>8. /\ PoolOk(new, constructed, handles)
      /\ new.store = pools[p].store /\ new.slots = [pools[p].slots EXCEPT ![slot] = None]
      /\ new.uses = pools[p].uses
  BY <1>3, <1>5, <1>6, <1>7, ReleasedOk
<1>9. PICK lost : lost = {slot}
  OBVIOUS
<1>10. new.slots = [s \in PoolSlots |-> IF s \in lost THEN None ELSE pools[p].slots[s]]
  BY <1>6, <1>8, <1>9
<1>11. lost \in SUBSET Live(pools[p])
  BY <1>3, <1>6, <1>9
<1>12. PICK gone : gone = {pools[p].slots[s] : s \in lost}
  OBVIOUS
<1>13. /\ destructions' = Destroyed(destructions, gone)
       /\ pools' = [pools EXCEPT ![p] = new]
       /\ UNCHANGED <<arena, constructed, handles, stores>>
  <2>1. gone = {pools[p].slots[slot]}
    BY <1>9, <1>12
  <2>2. QED
    BY <1>1, <1>2, <1>7, <2>1
<1>14. QED
  BY <1>4, <1>8, <1>10, <1>11, <1>13, <1>12, PoolGivesUp

\* clear() destroys what the pool holds.
LEMMA PoolClearStep ==
    ASSUME ElementsInv, NEW p \in PoolIds, PoolClear(p)
    PROVE  ElementsInv'
<1> USE DEF ElementsInv
<1>1. /\ pools[p].inUse > 0 /\ destructions' = Destroyed(destructions, Held(pools[p]))
      /\ pools' = [pools EXCEPT ![p] = Cleared(pools[p])]
      /\ UNCHANGED <<arena, constructed, handles, stores>>
  BY DEF PoolClear
<1>2. pools[p] # MovedFrom
  BY <1>1 DEF MovedFrom
<1>3. PoolOk(pools[p], constructed, handles) /\ constructed \in Nat
  BY <1>2 DEF PoolsInv
<1>4. /\ Live(pools[p]) = {s \in PoolSlots : pools[p].slots[s] # None}
      /\ pools[p].slots \in [PoolSlots -> 0..constructed]
  BY <1>3, Parts DEF PoolOk
<1>5. PICK new : new = Cleared(pools[p])
  OBVIOUS
<1>6. /\ PoolOk(new, constructed, handles)
      /\ new.store = pools[p].store /\ new.slots = [s \in PoolSlots |-> None]
      /\ new.uses = pools[p].uses
  BY <1>3, <1>5, ClearedOk
<1>7. new.slots = [s \in PoolSlots |-> IF s \in Live(pools[p]) THEN None ELSE pools[p].slots[s]]
  BY <1>4, <1>6
<1>8. Held(pools[p]) = {pools[p].slots[s] : s \in Live(pools[p])}
  BY <1>4 DEF Held
<1>9. QED
  BY <1>1, <1>2, <1>5, <1>6, <1>7, <1>8, PoolGivesUp

\* create() gives a new element one place, and its handle is newer than those of its slot.
LEMMA PoolCreateStep ==
    ASSUME ElementsInv, NEW p \in PoolIds, PoolCreate(p)
    PROVE  ElementsInv'
<1> USE DEF ElementsInv
<1>1. PICK slot, e, new :
         /\ slot = Last(pools[p].freeStack) /\ e = constructed + 1
         /\ new = Created(pools[p], slot, e)
  OBVIOUS
<1>2. /\ constructed < MaxElements /\ pools[p].freeStack # <<>> /\ constructed' = e
      /\ pools' = [pools EXCEPT ![p] = new]
      /\ handles' = [handles EXCEPT ![e] =
             [index |-> slot, generation |-> pools[p].generations[slot],
              store |-> pools[p].store, use |-> pools[p].uses[slot]]]
      /\ UNCHANGED <<arena, destructions, stores>>
  BY <1>1 DEF PoolCreate, Created
<1>3. constructed \in Nat /\ e \in Elements /\ e \notin 1..constructed /\ e \in Nat
      /\ 1..e = (1..constructed) \cup {e} /\ e \in 1..e
  BY <1>1, <1>2, PoolsAssumption DEF PoolsInv, Elements
<1>4. pools[p] # MovedFrom
  BY <1>2 DEF MovedFrom
<1>5. PoolOk(pools[p], constructed, handles) /\ DOMAIN pools = PoolIds
  BY <1>4 DEF PoolsInv
<1>6. /\ handles'[e] = [index |-> slot, generation |-> pools[p].generations[slot],
                        store |-> pools[p].store, use |-> pools[p].uses[slot]]
      /\ \A d \in Elements : d # e => handles'[d] = handles[d]
      /\ \A d \in 1..constructed : handles'[d] = handles[d] /\ d # e /\ d \in Elements
      /\ DOMAIN handles' = Elements
  BY <1>1, <1>2, <1>3, PoolsAssumption DEF GivenInv, Elements
<1>7. /\ PoolOk(new, e, handles')
      /\ slot \in PoolSlots /\ pools[p].slots[slot] = None
      /\ pools[p].generations[slot] = (pools[p].uses[slot] + 1) % PoolGenerations
      /\ new.store = pools[p].store /\ new.slots = [pools[p].slots EXCEPT ![slot] = e]
      /\ new.uses = [pools[p].uses EXCEPT ![slot] = pools[p].uses[slot] + 1]
  <2>1. \A d \in 1..constructed : handles'[d] = handles[d]
    BY <1>6
  <2>2. /\ slot = Last(pools[p].freeStack) /\ pools[p].freeStack # <<>> /\ e = constructed + 1
        /\ new = Created(pools[p], slot, e) /\ constructed \in Nat
    BY <1>1, <1>2, <1>3
  <2>3. handles'[e] = [index |-> slot, generation |-> pools[p].generations[slot],
                       store |-> pools[p].store, use |-> pools[p].uses[slot]]
    BY <1>6
  <2>4. QED
    BY <1>5, <2>1, <2>2, <2>3, CreatedOk
<1>8. /\ DOMAIN pools' = PoolIds /\ pools'[p] = new
      /\ \A q \in PoolIds : q # p => pools'[q] = pools[q]
      /\ \A q \in PoolIds : pools'[q].store = pools[q].store
  BY <1>2, <1>5, <1>7
<1>9. /\ pools[p].uses \in [PoolSlots -> Nat] /\ pools[p].slots \in [PoolSlots -> 0..constructed]
      /\ pools[p].generations \in [PoolSlots -> 0..(PoolGenerations - 1)]
      /\ pools[p].store \in Nat \ {0} /\ pools[p].store \in 1..stores
  BY <1>5, Parts DEF PoolOk, PoolsInv
<1>10. GivenInv'
  <2>1. handles' \in [Elements -> HandleRecords]
    <3>1. handles'[e] \in HandleRecords
      <4>1. /\ slot \in Nat /\ pools[p].generations[slot] \in Nat
            /\ pools[p].store \in Nat /\ pools[p].uses[slot] \in Nat
        <5>1. pools[p].generations[slot] \in 0..(PoolGenerations - 1) /\ pools[p].uses[slot] \in Nat
          BY <1>7, <1>9
        <5>2. slot \in Nat
          BY <1>7 DEF PoolSlots
        <5>3. QED
          BY <1>9, <5>1, <5>2
      <4>2. QED
        BY <1>6, <4>1 DEF HandleRecords
    <3>2. QED
      BY <1>2, <1>3, <1>6, <3>1 DEF GivenInv
  <2>2. \A d \in Elements : d > constructed' => handles'[d] = NoHandle
    BY <1>1, <1>2, <1>3, <1>6 DEF GivenInv, Elements
  <2>3. ASSUME NEW d \in 1..constructed, handles'[d].store # None
        PROVE  /\ handles'[d].index \in PoolSlots /\ handles'[d].store \in 1..stores
               /\ handles'[d].generation = (handles'[d].use + 1) % PoolGenerations
               /\ \A q \in PoolIds : pools'[q].store = handles'[d].store =>
                     handles'[d].use < pools'[q].uses[handles'[d].index]
    <3>1. /\ handles[d] = handles'[d] /\ handles[d].index \in PoolSlots /\ handles[d].use \in Nat
          /\ \A q \in PoolIds : pools[q].store = handles[d].store =>
                handles[d].use < pools[q].uses[handles[d].index]
      BY <1>6, <2>3 DEF GivenInv, HandleRecords
    <3>2. ASSUME NEW q \in PoolIds, pools'[q].store = handles'[d].store
          PROVE  handles'[d].use < pools'[q].uses[handles'[d].index]
      <4>1. handles[d].use < pools[q].uses[handles[d].index]
        BY <1>8, <3>1, <3>2
      <4>2. CASE q = p
        <5>1. /\ pools[p].uses[handles[d].index] \in Nat
              /\ pools'[q].uses[handles[d].index] \in
                    {pools[p].uses[handles[d].index], pools[p].uses[handles[d].index] + 1}
          BY <1>7, <1>8, <1>9, <3>1, <4>2
        <5>2. QED
          BY <3>1, <4>1, <4>2, <5>1
      <4>3. CASE q # p
        BY <1>8, <3>1, <4>1, <4>3
      <4>4. QED
        BY <4>2, <4>3
    <3>3. QED
      BY <1>6, <2>3, <3>2 DEF GivenInv
  <2>4. /\ handles'[e].index \in PoolSlots /\ handles'[e].store \in 1..stores
        /\ handles'[e].generation = (handles'[e].use + 1) % PoolGenerations
    BY <1>6, <1>7, <1>9
  <2>5. ASSUME NEW q \in PoolIds, pools'[q].store = handles'[e].store
        PROVE  handles'[e].use < pools'[q].uses[handles'[e].index]
    <3>1. q = p
      BY <1>6, <1>8, <1>9, <2>5 DEF PoolsInv, None
    <3>2. pools'[p].uses[slot] = pools[p].uses[slot] + 1 /\ pools[p].uses[slot] \in Nat
      BY <1>7, <1>8, <1>9
    <3>3. QED
      BY <1>6, <3>1, <3>2
  <2>6. \A d \in 1..constructed' : d = e \/ d \in 1..constructed
    BY <1>2, <1>3
  <2>7. stores' = stores
    BY <1>2
  <2>8. QED
    BY <2>1, <2>2, <2>3, <2>4, <2>5, <2>6, <2>7 DEF GivenInv
<1>11. PoolsInv'
  <2>1. ASSUME NEW q \in PoolIds PROVE pools'[q] = MovedFrom \/ PoolOk(pools'[q], e, handles')
    <3>1. CASE q = p
      BY <1>7, <1>8, <3>1
    <3>2. ASSUME q # p, pools[q] # MovedFrom PROVE PoolOk(pools[q], e, handles')
      <4>1. PoolOk(pools[q], constructed, handles) /\ constructed <= e
        BY <1>1, <1>3, <3>2 DEF PoolsInv
      <4>2. QED
        BY <1>3, <1>6, <4>1, PoolOkSame
    <3>3. QED
      BY <1>8, <3>1, <3>2
  <2>2. e \in 0..MaxElements
    BY <1>3, PoolsAssumption DEF Elements
  <2>3. /\ \A q \in PoolIds : pools'[q].store <= stores
        /\ \A q, r \in PoolIds : pools'[q].store = pools'[r].store /\ pools'[q].store # None => q = r
        /\ stores \in Nat
    BY <1>8 DEF PoolsInv
  <2>4. QED
    BY <1>2, <1>8, <2>1, <2>2, <2>3 DEF PoolsInv
<1>12. ArenaInv'
  <2>1. arena \in Seq(1..e)
    <3>1. arena \in Seq(1..constructed) /\ 1..constructed \subseteq 1..e
      BY <1>3 DEF ArenaInv
    <3>2. QED
      BY <3>1, SeqMonotonic
  <2>2. \A i \in DOMAIN arena : arena[i] \in 1..constructed
    BY ArenaElements
  <2>3. QED
    BY <1>2, <1>6, <2>1, <2>2 DEF ArenaInv
<1>13. DestroyedInv'
  <2>1. Held(new) = Held(pools[p]) \cup {e}
    BY <1>3, <1>7, <1>9 DEF Held, None
  <2>2. Kept' = Kept \cup {e}
    <3>1. \A q \in PoolIds : q # p => Held(pools[q])' = Held(pools[q])
      BY <1>8 DEF Held
    <3>2. Held(pools[p])' = Held(pools[p]) \cup {e}
      BY <1>8, <2>1 DEF Held
    <3>3. \A d \in ToSet(arena) : d \in 1..constructed
      BY ArenaElements DEF ToSet
    <3>4. \A q \in PoolIds : Held(pools[q]) \subseteq 1..constructed
      BY HeldOnce DEF Kept
    <3>5. Kept' = {d \in 1..e : d \in ToSet(arena) \/ \E q \in PoolIds : d \in Held(pools[q])'}
      BY <1>2 DEF Kept
    <3>6. QED
      BY <1>3, <3>1, <3>2, <3>3, <3>4, <3>5 DEF Kept
  <2>3. (1..constructed') \ Kept' = (1..constructed) \ Kept
    BY <1>2, <1>3, <2>2 DEF Kept
  <2>4. QED
    BY <1>2, <2>3 DEF DestroyedInv
<1>14. QED
  BY <1>10, <1>11, <1>12, <1>13

\* A move destroys what the target held and takes every element of the source.
LEMMA MoveAssignStep ==
    ASSUME ElementsInv, NEW p \in PoolIds, NEW q \in PoolIds, MoveAssign(p, q)
    PROVE  ElementsInv'
<1> USE DEF ElementsInv
<1>1. /\ p # q /\ destructions' = Destroyed(destructions, Held(pools[p]))
      /\ pools' = [pools EXCEPT ![p] = pools[q], ![q] = MovedFrom]
      /\ UNCHANGED <<arena, constructed, handles, stores>>
  BY DEF MoveAssign, OverwrittenBy
<1>2. /\ DOMAIN pools' = PoolIds /\ pools'[p] = pools[q] /\ pools'[q] = MovedFrom
      /\ \A r \in PoolIds : r # p /\ r # q => pools'[r] = pools[r]
  BY <1>1 DEF PoolsInv
<1>3. MovedFrom.store = None /\ None = 0
  BY DEF MovedFrom, None
<1>4. GivenInv'
  <2>1. ASSUME NEW e \in 1..constructed, handles[e].store # None, NEW r \in PoolIds,
               pools'[r].store = handles[e].store
        PROVE  handles[e].use < pools'[r].uses[handles[e].index]
    <3>1. r # q
      BY <1>2, <1>3, <2>1
    <3>2. QED
      BY <1>2, <2>1, <3>1 DEF GivenInv
  <2>2. QED
    BY <1>1, <2>1 DEF GivenInv
<1>5. PoolsInv'
  <2>1. \A r \in PoolIds : pools'[r] = MovedFrom \/ PoolOk(pools'[r], constructed, handles)
    BY <1>2 DEF PoolsInv
  <2>2. \A r \in PoolIds : pools'[r].store <= stores
    <3>1. stores \in Nat
      BY DEF PoolsInv
    <3>2. QED
      BY <1>2, <1>3, <3>1 DEF PoolsInv
  <2>3. ASSUME NEW r \in PoolIds, NEW t \in PoolIds, pools'[r].store = pools'[t].store,
               pools'[r].store # None
        PROVE  r = t
    <3>1. r # q /\ t # q
      BY <1>2, <1>3, <2>3
    <3>2. QED
      BY <1>1, <1>2, <2>3, <3>1 DEF PoolsInv
  <2>4. QED
    BY <1>1, <1>2, <2>1, <2>2, <2>3 DEF PoolsInv
<1>6. ArenaInv'
  BY <1>1 DEF ArenaInv
<1>7. DestroyedInv'
  <2>1. Held(MovedFrom) = {}
    <3>1. DOMAIN MovedFrom.slots = {}
      BY DEF MovedFrom
    <3>2. QED
      BY <3>1 DEF Held
  <2>2. /\ Held(pools[p])' = Held(pools[q]) /\ Held(pools[q])' = {}
        /\ \A r \in PoolIds : r # p /\ r # q => Held(pools[r])' = Held(pools[r])
    BY <1>2, <2>1 DEF Held
  <2>3. /\ Held(pools[p]) \subseteq Kept /\ \A e \in Held(pools[p]) : e \notin ToSet(arena)
        /\ \A r \in PoolIds : \A e \in Held(pools[p]) : e \in Held(pools[r]) => r = p
    BY HeldOnce
  <2>4. Kept' = Kept \ Held(pools[p])
    <3>1. Kept' = {e \in 1..constructed : e \in ToSet(arena) \/ \E r \in PoolIds : e \in Held(pools[r])'}
      BY <1>1 DEF Kept
    <3>2. \A e : (\E r \in PoolIds : e \in Held(pools[r])') <=>
                 (\E r \in PoolIds : r # p /\ e \in Held(pools[r]))
      BY <1>1, <2>2
    <3>3. QED
      BY <2>3, <3>1, <3>2 DEF Kept
  <2>5. QED
    BY <1>1, <2>3, <2>4, DestroyKeeps
<1>8. QED
  BY <1>4, <1>5, <1>6, <1>7

\* The end of a pool destroys what it held; no handle is of the store of the pool after it.
LEMMA RenewStep ==
    ASSUME ElementsInv, NEW p \in PoolIds, Renew(p)
    PROVE  ElementsInv'
<1> USE DEF ElementsInv
<1>1. PICK new, n : new = Fresh(n) /\ n = stores + 1
  OBVIOUS
<1>2. /\ destructions' = Destroyed(destructions, Held(pools[p])) /\ stores' = n
      /\ pools' = [pools EXCEPT ![p] = new]
      /\ UNCHANGED <<arena, constructed, handles>>
  BY <1>1 DEF Renew
<1>3. n \in Nat \ {0} /\ stores \in Nat /\ constructed \in Nat
  BY <1>1 DEF PoolsInv
<1>4. PoolOk(new, constructed, handles) /\ new.store = n
  <2>1. PoolOk(new, constructed, handles)
    BY <1>1, <1>3, FreshOk
  <2>2. QED
    BY <1>1, <2>1 DEF Fresh
<1>5. /\ DOMAIN pools' = PoolIds /\ pools'[p] = new
      /\ \A r \in PoolIds : r # p => pools'[r] = pools[r]
  BY <1>2 DEF PoolsInv
<1>6. GivenInv'
  <2>1. ASSUME NEW e \in 1..constructed, handles[e].store # None
        PROVE  /\ handles[e].store \in 1..n
               /\ \A r \in PoolIds : pools'[r].store = handles[e].store =>
                     handles[e].use < pools'[r].uses[handles[e].index]
    <3>1. handles[e].store \in 1..stores
      BY <2>1 DEF GivenInv
    <3>2. handles[e].store # n /\ handles[e].store \in 1..n
      BY <1>1, <1>3, <3>1
    <3>3. QED
      BY <1>4, <1>5, <2>1, <3>2 DEF GivenInv
  <2>2. QED
    BY <1>2, <2>1 DEF GivenInv
<1>7. PoolsInv'
  <2>1. \A r \in PoolIds : pools'[r] = MovedFrom \/ PoolOk(pools'[r], constructed, handles)
    BY <1>4, <1>5 DEF PoolsInv
  <2>2. \A r \in PoolIds : pools[r].store \in Nat /\ pools[r].store <= stores
    <3>1. \A r \in PoolIds : pools[r] # MovedFrom => pools[r].store \in Nat
      BY Parts DEF PoolsInv, PoolOk
    <3>2. MovedFrom.store \in Nat
      BY DEF MovedFrom, None
    <3>3. QED
      BY <3>1, <3>2 DEF PoolsInv
  <2>3. \A r \in PoolIds : pools'[r].store <= n
    BY <1>1, <1>3, <1>4, <1>5, <2>2
  <2>4. \A r \in PoolIds : r # p => pools'[r].store # n
    BY <1>1, <1>3, <1>5, <2>2
  <2>5. \A r, t \in PoolIds : pools'[r].store = pools'[t].store /\ pools'[r].store # None => r = t
    BY <1>4, <1>5, <2>4 DEF PoolsInv
  <2>6. QED
    BY <1>2, <1>3, <1>5, <2>1, <2>3, <2>5 DEF PoolsInv
<1>8. ArenaInv'
  BY <1>2 DEF ArenaInv
<1>9. DestroyedInv'
  <2>1. Held(new) = {}
    BY <1>1 DEF Held, Fresh
  <2>2. /\ Held(pools[p])' = {}
        /\ \A r \in PoolIds : r # p => Held(pools[r])' = Held(pools[r])
    BY <1>5, <2>1 DEF Held
  <2>3. /\ Held(pools[p]) \subseteq Kept /\ \A e \in Held(pools[p]) : e \notin ToSet(arena)
        /\ \A r \in PoolIds : \A e \in Held(pools[p]) : e \in Held(pools[r]) => r = p
    BY HeldOnce
  <2>4. Kept' = Kept \ Held(pools[p])
    <3>1. Kept' = {e \in 1..constructed : e \in ToSet(arena) \/ \E r \in PoolIds : e \in Held(pools[r])'}
      BY <1>2 DEF Kept
    <3>2. \A e : (\E r \in PoolIds : e \in Held(pools[r])') <=>
                 (\E r \in PoolIds : r # p /\ e \in Held(pools[r]))
      BY <2>2
    <3>3. QED
      BY <2>3, <3>1, <3>2 DEF Kept
  <2>5. QED
    BY <1>2, <2>3, <2>4, DestroyKeeps
<1>10. QED
  BY <1>6, <1>7, <1>8, <1>9

\* An arena's create() gives a new element one place and no handle.
LEMMA ArenaCreateStep ==
    ASSUME ElementsInv, ArenaCreate
    PROVE  ElementsInv'
<1> USE DEF ElementsInv
<1>1. PICK e : e = constructed + 1
  OBVIOUS
<1>2. /\ constructed < MaxElements /\ Len(arena) < PoolCapacity
      /\ arena' = Append(arena, e) /\ constructed' = e
      /\ UNCHANGED <<pools, destructions, handles, stores>>
  BY <1>1 DEF ArenaCreate
<1>3. constructed \in Nat /\ e \in Elements /\ e \notin 1..constructed /\ e \in Nat
      /\ 1..e = (1..constructed) \cup {e} /\ e \in 1..e /\ constructed <= e
  BY <1>1, <1>2, PoolsAssumption DEF PoolsInv, Elements
<1>4. handles[e] = NoHandle
  BY <1>1, <1>3 DEF GivenInv
<1>5. GivenInv'
  BY <1>1, <1>2, <1>3, <1>4 DEF GivenInv, NoHandle, None, Elements
<1>6. PoolsInv'
  <2>1. ASSUME NEW q \in PoolIds, pools[q] # MovedFrom PROVE PoolOk(pools[q], e, handles)
    <3>1. PoolOk(pools[q], constructed, handles)
      BY <2>1 DEF PoolsInv
    <3>2. QED
      BY <1>3, <3>1, PoolOkSame
  <2>2. e \in 0..MaxElements
    BY <1>3, PoolsAssumption DEF Elements
  <2>3. QED
    BY <1>2, <2>1, <2>2 DEF PoolsInv
<1>7. ArenaInv' /\ ToSet(arena') = ToSet(arena) \cup {e}
  <2>1. /\ arena \in Seq(1..e) /\ \A i \in DOMAIN arena : arena[i] \in 1..constructed
        /\ DOMAIN arena = 1..Len(arena) /\ Len(arena) \in Nat
    <3>1. arena \in Seq(1..constructed) /\ 1..constructed \subseteq 1..e
      BY <1>3 DEF ArenaInv
    <3>2. QED
      BY <3>1, SeqMonotonic, ArenaElements, LenProperties
  <2>2. /\ arena' \in Seq(1..e) /\ Len(arena') = Len(arena) + 1 /\ arena'[Len(arena) + 1] = e
        /\ DOMAIN arena' = 1..(Len(arena) + 1)
        /\ \A i \in 1..Len(arena) : arena'[i] = arena[i]
    BY <1>2, <1>3, <2>1, AppendProperties
  <2>3. \A i \in 1..(Len(arena) + 1) : i = Len(arena) + 1 \/ i \in 1..Len(arena)
    BY <2>1
  <2>4. \A i, j \in DOMAIN arena' : arena'[i] = arena'[j] => i = j
    BY <1>3, <2>1, <2>2, <2>3 DEF ArenaInv
  <2>5. \A i \in DOMAIN arena' : handles[arena'[i]] = NoHandle
    BY <1>4, <2>1, <2>2, <2>3 DEF ArenaInv
  <2>6. Len(arena') <= PoolCapacity
    BY <1>2, <2>1, <2>2, PoolsAssumption
  <2>7. ToSet(arena') = ToSet(arena) \cup {e}
    <3>1. \A i \in 1..Len(arena) : i \in 1..(Len(arena) + 1)
      BY <2>1
    <3>2. Len(arena) + 1 \in 1..(Len(arena) + 1)
      BY <2>1
    <3>3. /\ ToSet(arena') = {arena'[i] : i \in 1..(Len(arena) + 1)}
          /\ ToSet(arena) = {arena[i] : i \in 1..Len(arena)}
      BY <2>1, <2>2 DEF ToSet
    <3>4. QED
      BY <2>2, <2>3, <3>1, <3>2, <3>3
  <2>8. ArenaInv'
    BY <1>2, <2>2, <2>4, <2>5, <2>6 DEF ArenaInv
  <2>9. QED
    BY <2>7, <2>8
<1>8. DestroyedInv'
  <2>1. Kept' = Kept \cup {e}
    <3>1. \A q \in PoolIds : Held(pools[q]) \subseteq 1..constructed
      BY HeldOnce DEF Kept
    <3>2. \A d \in ToSet(arena) : d \in 1..constructed
      BY ArenaElements DEF ToSet
    <3>3. Kept' = {d \in 1..e : d \in ToSet(arena') \/ \E q \in PoolIds : d \in Held(pools[q])}
      BY <1>2 DEF Kept
    <3>4. QED
      BY <1>3, <1>7, <3>1, <3>2, <3>3 DEF Kept
  <2>2. (1..constructed') \ Kept' = (1..constructed) \ Kept
    BY <1>2, <1>3, <2>1 DEF Kept
  <2>3. QED
    BY <1>2, <2>2 DEF DestroyedInv
<1>9. QED
  BY <1>5, <1>6, <1>7, <1>8

\* reset() destroys what the arena holds.
LEMMA ArenaResetStep ==
    ASSUME ElementsInv, ArenaReset
    PROVE  ElementsInv'
<1> USE DEF ElementsInv
<1>1. /\ destructions' = Destroyed(destructions, ToSet(arena)) /\ arena' = <<>>
      /\ UNCHANGED <<pools, constructed, handles, stores>>
  BY DEF ArenaReset
<1>2. GivenInv' /\ PoolsInv'
  BY <1>1 DEF GivenInv, PoolsInv
<1>3. ArenaInv' /\ ToSet(arena') = {}
  BY <1>1, PoolsAssumption DEF ArenaInv, ToSet
<1>4. ToSet(arena) \subseteq Kept
  BY ArenaElements DEF ToSet, Kept
<1>5. Kept' = Kept \ ToSet(arena)
  <2>1. \A q \in PoolIds : \A e \in Held(pools[q]) : e \notin ToSet(arena)
    BY HeldOnce
  <2>2. Kept' = {e \in 1..constructed : \E q \in PoolIds : e \in Held(pools[q])}
    BY <1>1, <1>3 DEF Kept
  <2>3. QED
    BY <2>1, <2>2 DEF Kept
<1>6. DestroyedInv'
  BY <1>1, <1>4, <1>5, DestroyKeeps
<1>7. QED
  BY <1>2, <1>3, <1>6

\* The invariant holds at the start.
LEMMA PoolsBegin == PoolsInit => ElementsInv
<1> SUFFICES ASSUME PoolsInit PROVE ElementsInv
    OBVIOUS
<1>1. /\ constructed = 0 /\ stores = PoolCount /\ arena = <<>>
      /\ handles = [e \in Elements |-> NoHandle] /\ destructions = [e \in Elements |-> 0]
      /\ DOMAIN pools = PoolIds /\ \A p \in PoolIds : pools[p] = Fresh(p)
  BY DEF PoolsInit
<1>2. NoHandle \in HandleRecords
  BY DEF NoHandle, HandleRecords, None
<1>3. GivenInv
  BY <1>1, <1>2 DEF GivenInv
<1>4. PoolsInv
  <2>1. \A p \in PoolIds : p \in Nat \ {0} /\ p <= PoolCount
    BY PoolsAssumption DEF PoolIds
  <2>2. \A p \in PoolIds : PoolOk(pools[p], constructed, handles)
    BY <1>1, <2>1, FreshOk
  <2>3. \A p \in PoolIds : pools[p].store = p
    BY <1>1 DEF Fresh
  <2>4. QED
    BY <1>1, <2>1, <2>2, <2>3, PoolsAssumption DEF PoolsInv
<1>5. ArenaInv
  BY <1>1, PoolsAssumption DEF ArenaInv
<1>6. DestroyedInv
  BY <1>1 DEF DestroyedInv
<1>7. QED
  BY <1>3, <1>4, <1>5, <1>6 DEF ElementsInv

\* Every operation keeps the invariant.
LEMMA PoolsStep == ElementsInv /\ [PoolsNext]_poolsVars => ElementsInv'
<1> SUFFICES ASSUME ElementsInv, [PoolsNext]_poolsVars PROVE ElementsInv'
    OBVIOUS
<1>1. ASSUME NEW p \in PoolIds, PoolCreate(p) PROVE ElementsInv'
  BY <1>1, PoolCreateStep
<1>2. ASSUME NEW p \in PoolIds, PoolDestroy(p) PROVE ElementsInv'
  BY <1>2, PoolDestroyStep
<1>3. ASSUME NEW p \in PoolIds, PoolClear(p) PROVE ElementsInv'
  BY <1>3, PoolClearStep
<1>4. ASSUME NEW p \in PoolIds, Renew(p) PROVE ElementsInv'
  BY <1>4, RenewStep
<1>5. ASSUME NEW p \in PoolIds, NEW q \in PoolIds, MoveAssign(p, q) PROVE ElementsInv'
  BY <1>5, MoveAssignStep
<1>6. CASE ArenaCreate
  BY <1>6, ArenaCreateStep
<1>7. CASE ArenaReset
  BY <1>7, ArenaResetStep
<1>8. CASE UNCHANGED poolsVars
  <2>1. UNCHANGED <<pools, arena, constructed, destructions, handles, stores>>
    BY <1>8 DEF poolsVars
  <2>2. UNCHANGED Kept
    BY <2>1 DEF Kept
  <2>3. QED
    BY <2>1, <2>2 DEF ElementsInv, GivenInv, PoolsInv, ArenaInv, DestroyedInv
<1>9. QED
  BY <1>1, <1>2, <1>3, <1>4, <1>5, <1>6, <1>7, <1>8 DEF PoolsNext

-----------------------------------------------------------------------------
(* What the invariant says of the pools *)

\* The free slots and the others make up the pool.
LEMMA StackLength ==
    ASSUME NEW filled \in SUBSET PoolSlots, NEW stack, StackOf(stack, filled)
    PROVE  Len(stack) + Cardinality(filled) = PoolCapacity
<1> DEFINE n == Len(stack)
           free == PoolSlots \ filled
<1>1. stack \in Seq(PoolSlots) /\ n \in Nat /\ DOMAIN stack = 1..n
  BY DEF StackOf
<1>2. /\ \A i, j \in 1..n : stack[i] = stack[j] => i = j
      /\ \A i \in 1..n : stack[i] \in free
      /\ \A x \in free : \E i \in 1..n : stack[i] = x
  BY <1>1 DEF StackOf, ToSet
<1>3. PICK f : f = [i \in 1..n |-> stack[i]]
  OBVIOUS
<1>4. IsFiniteSet(free) /\ Cardinality(free) = PoolCapacity - Cardinality(filled)
  <2>1. PoolSlots \cap filled = filled
    OBVIOUS
  <2>2. QED
    BY <2>1, SlotsFinite, FS_Difference
<1> HIDE DEF n, free
<1>5. f \in Injection(1..n, free) /\ f \in Surjection(1..n, free)
  BY <1>2, <1>3 DEF Injection, IsInjective, Surjection
<1>6. Cardinality(1..n) = Cardinality(free)
  BY <1>4, <1>5, FS_Injection
<1>7. Cardinality(1..n) = n
  BY <1>1, FS_Interval
<1>8. Cardinality(filled) \in Nat
  BY SlotsFinite
<1>9. QED
  BY <1>1, <1>4, <1>6, <1>7, <1>8, PoolsAssumption DEF n

\* Free slots, counts and generations are as the types and the books say.
LEMMA BooksKept == ElementsInv => PoolsTypeOK /\ FreeSlotsOnce
<1> SUFFICES ASSUME ElementsInv PROVE PoolsTypeOK /\ FreeSlotsOnce
    OBVIOUS
<1> USE DEF ElementsInv
<1>1. ASSUME NEW p \in PoolIds
      PROVE  /\ pools[p].capacity \in {0, PoolCapacity}
             /\ \A s \in DOMAIN pools[p].slots :
                  /\ pools[p].slots[s] \in 0..constructed
                  /\ pools[p].generations[s] \in 0..(PoolGenerations - 1)
             /\ Len(pools[p].freeStack) + pools[p].inUse = pools[p].capacity
             /\ ToSet(pools[p].freeStack) = (DOMAIN pools[p].slots) \ Live(pools[p])
  <2>1. CASE pools[p] = MovedFrom
    <3>1. /\ MovedFrom.capacity = 0 /\ MovedFrom.inUse = 0 /\ MovedFrom.freeStack = <<>>
          /\ MovedFrom.slots = <<>> /\ DOMAIN MovedFrom.slots = {}
      BY DEF MovedFrom
    <3>2. ToSet(<<>>) = {} /\ Len(<<>>) = 0
      BY DEF ToSet
    <3>3. QED
      BY <2>1, <3>1, <3>2
  <2>2. CASE PoolOk(pools[p], constructed, handles)
    <3>1. /\ pools[p] \in PoolRecords(constructed) /\ StackOf(pools[p].freeStack, Live(pools[p]))
          /\ pools[p].inUse = Cardinality(Live(pools[p]))
      BY <2>2 DEF PoolOk, StackOk
    <3>2. /\ pools[p].capacity = PoolCapacity
          /\ pools[p].generations \in [PoolSlots -> 0..(PoolGenerations - 1)]
          /\ pools[p].slots \in [PoolSlots -> 0..constructed]
          /\ Live(pools[p]) \in SUBSET PoolSlots
      BY <3>1, Parts
    <3>3. Len(pools[p].freeStack) + pools[p].inUse = PoolCapacity
      BY <3>1, <3>2, StackLength
    <3>4. ToSet(pools[p].freeStack) = PoolSlots \ Live(pools[p])
      BY <3>1 DEF StackOf
    <3>5. QED
      BY <3>2, <3>3, <3>4
  <2>3. QED
    BY <2>1, <2>2 DEF PoolsInv
<1>2. Len(arena) <= PoolCapacity
  BY DEF ArenaInv
<1>3. QED
  BY <1>1, <1>2 DEF PoolsTypeOK, FreeSlotsOnce

\* An element is in its one place, or was destroyed.
LEMMA NothingIsLost == ElementsInv => NoLeakNoDoubleDestroy
<1> SUFFICES ASSUME ElementsInv, NEW e \in 1..constructed
             PROVE  LET places == {place \in PoolIds \X PoolSlots :
                                     /\ place[2] \in DOMAIN pools[place[1]].slots
                                     /\ pools[place[1]].slots[place[2]] = e}
                    IN  Cardinality(places) + (IF e \in ToSet(arena) THEN 1 ELSE 0)
                            + destructions[e] = 1
    BY DEF NoLeakNoDoubleDestroy
<1> USE DEF ElementsInv
<1> DEFINE places == {place \in PoolIds \X PoolSlots :
                         /\ place[2] \in DOMAIN pools[place[1]].slots
                         /\ pools[place[1]].slots[place[2]] = e}
<1>1. e \in Elements /\ e # None
  BY PoolsAssumption DEF PoolsInv, Elements, None
<1>2. destructions[e] = IF e \in Kept THEN 0 ELSE 1
  BY <1>1 DEF DestroyedInv
<1>3. CASE \E p \in PoolIds : e \in Held(pools[p])
  <2>1. PICK p \in PoolIds : e \in Held(pools[p])
    BY <1>3
  <2>2. PICK s \in DOMAIN pools[p].slots : pools[p].slots[s] = e
    BY <2>1 DEF Held
  <2>3. /\ s \in PoolSlots /\ e \notin ToSet(arena)
        /\ \A q \in PoolIds : \A t \in DOMAIN pools[q].slots :
              pools[q].slots[t] = e => q = p /\ t = s
    BY <1>1, <2>2, OnePlace
  <2>4. places = {<<p, s>>}
    BY <2>2, <2>3
  <2>5. e \in Kept
    BY <2>1 DEF Kept
  <2> HIDE DEF places
  <2>6. Cardinality(places) = 1
    BY <2>4, FS_Singleton
  <2>7. QED
    BY <1>2, <2>3, <2>5, <2>6 DEF places
<1>4. CASE ~\E p \in PoolIds : e \in Held(pools[p])
  <2>1. places = {}
    BY <1>1, <1>4 DEF Held
  <2>2. e \in Kept <=> e \in ToSet(arena)
    BY <1>4 DEF Kept
  <2> HIDE DEF places
  <2>3. Cardinality(places) = 0
    BY <2>1, FS_EmptySet
  <2>4. QED
    BY <1>2, <2>2, <2>3 DEF places
<1>5. QED
  BY <1>3, <1>4

\* Equal remainders are a multiple apart.
LEMMA ModApart ==
    ASSUME NEW m \in Nat, m > 1, NEW x \in Nat, NEW y \in Nat, x % m = y % m
    PROVE  (x - y) % m = 0
<1> DEFINE p == x \div m
           q == y \div m
           r == x % m
<1>0. m \in Nat \ {0}
  OBVIOUS
<1>1. p \in Int /\ q \in Int /\ r \in 0..(m - 1) /\ x = p * m + r /\ y = q * m + r
  BY <1>0
<1> HIDE DEF p, q, r
<1>2. x - y = (p - q) * m + 0 /\ x - y \in Int /\ p - q \in Int /\ 0 \in 0..(m - 1)
  BY <1>1
<1>3. QED
  BY <1>0, <1>2, ModUnique

\* A handle names its slot, and two uses of a slot in one generation are a full round apart.
LEMMA HandlesReach == ElementsInv => HandlesReachTheirOwn
<1> SUFFICES ASSUME ElementsInv, NEW p \in PoolIds, NEW e \in 1..constructed,
                    pools[p].store # None, handles[e].store = pools[p].store
             PROVE  /\ HandleIsValid(pools[p], handles[e]) =>
                         \/ pools[p].slots[handles[e].index] = e
                         \/ (handles[pools[p].slots[handles[e].index]].use - handles[e].use)
                                % PoolGenerations = 0
                    /\ pools[p].slots[handles[e].index] = e =>
                         HandleIsValid(pools[p], handles[e]) \/ handles[e].generation = 0
    BY DEF HandlesReachTheirOwn
<1> USE DEF ElementsInv
<1>1. PICK s : s = handles[e].index
  OBVIOUS
<1>2. /\ s \in PoolSlots /\ handles[e].generation = (handles[e].use + 1) % PoolGenerations
      /\ handles[e].use < pools[p].uses[s]
  BY <1>1 DEF GivenInv
<1>3. handles[e].use \in Nat /\ e # None
  BY PoolsAssumption DEF GivenInv, HandleRecords, PoolsInv, Elements, None
<1>4. PoolOk(pools[p], constructed, handles)
  BY DEF PoolsInv, MovedFrom
<1>5. /\ pools[p].capacity = PoolCapacity /\ pools[p].uses \in [PoolSlots -> Nat]
  BY <1>4, Parts DEF PoolOk
<1>6. pools[p].slots[s] # None =>
         /\ pools[p].generations[s] = pools[p].uses[s] % PoolGenerations
         /\ handles[pools[p].slots[s]] = [index |-> s, generation |-> pools[p].generations[s],
                                          store |-> pools[p].store, use |-> pools[p].uses[s] - 1]
  BY <1>2, <1>4 DEF PoolOk, SlotsOk
<1>7. ASSUME HandleIsValid(pools[p], handles[e])
      PROVE  (handles[pools[p].slots[s]].use - handles[e].use) % PoolGenerations = 0
  <2>1. pools[p].slots[s] # None /\ pools[p].generations[s] = handles[e].generation
    BY <1>1, <1>7 DEF HandleIsValid
  <2>2. PICK u, h : u = pools[p].uses[s] /\ h = handles[e].use + 1
    OBVIOUS
  <2>3. u \in Nat /\ h \in Nat
    BY <1>2, <1>3, <1>5, <2>2
  <2>4. u % PoolGenerations = h % PoolGenerations
    BY <1>2, <1>6, <2>1, <2>2
  <2>5. (u - h) % PoolGenerations = 0
    BY <2>3, <2>4, ModApart, PoolsAssumption
  <2>6. handles[pools[p].slots[s]].use - handles[e].use = u - h
    BY <1>3, <1>6, <2>1, <2>2, <2>3
  <2>7. QED
    BY <2>5, <2>6
<1>8. ASSUME pools[p].slots[s] = e
      PROVE  HandleIsValid(pools[p], handles[e]) \/ handles[e].generation = 0
  <2>1. handles[e].generation = pools[p].generations[s]
    BY <1>3, <1>6, <1>8
  <2>2. s < PoolCapacity
    BY <1>2, PoolsAssumption DEF PoolSlots
  <2>3. QED
    BY <1>1, <1>3, <1>5, <1>8, <2>1, <2>2 DEF HandleIsValid
<1>9. QED
  BY <1>1, <1>7, <1>8

\* Through every create(), destroy(), clear(), move and end of a pool, and through an arena's
\* resets, each element is in one place until its destructor runs, once, and then in none; the
\* free stack is the slots that hold none; and a handle reaches its own element or none, but for
\* a generation that went all the way round and the generation 0.
THEOREM PoolsLoseNothing == PoolsSpec => []PoolsKeepTheirElements
<1>1. ElementsInv => PoolsKeepTheirElements
  BY BooksKept, NothingIsLost, HandlesReach DEF PoolsKeepTheirElements
<1>2. QED
  BY PoolsBegin, PoolsStep, <1>1, PTL DEF PoolsSpec

-----------------------------------------------------------------------------
(* The particles *)

\* The part of the books that is arithmetic; the flags are in FlagsKeep.
AgesInv == SlotTypes /\ AgedOncePerTick /\ SpawnsAddUp

\* A sequence whose last was taken off.
LEMMA FrontIs ==
    ASSUME NEW S, NEW seq \in Seq(S), seq # <<>>
    PROVE  /\ Front(seq) \in Seq(S) /\ Len(Front(seq)) = Len(seq) - 1
           /\ \A i \in 1..(Len(seq) - 1) : Front(seq)[i] = seq[i]
           /\ Last(seq) = seq[Len(seq)]
<1> DEFINE n == Len(seq)
<1>1. n \in Nat \ {0}
  BY EmptySeq
<1>2. \A i \in 1..(n - 1) : seq[i] \in S
  BY <1>1, ElementOfSeq
<1>3. Front(seq) = SubSeq(seq, 1, n - 1) /\ Last(seq) = seq[n]
  BY DEF Front, Last
<1> HIDE DEF n
<1>4. /\ SubSeq(seq, 1, n - 1) \in Seq(S) /\ Len(SubSeq(seq, 1, n - 1)) = n - 1
      /\ \A i \in 1..(n - 1) : SubSeq(seq, 1, n - 1)[i] = seq[i]
  BY <1>1, <1>2, SubSeqProperties
<1>5. QED
  BY <1>3, <1>4 DEF n

\* Spawning appends newborns as far as there is room, and counts the others as dropped.
LEMMA EmitKeeps ==
    ASSUME AgesInv, particlesValid, NEW lives \in Seq(1..MaxLife), Emit(particles, lives)
    PROVE  /\ particles' \in Seq(ParticleRecords) /\ Len(particles') <= MaxParticles
           /\ Len(particles') >= Len(particles)
           /\ spawnedTotal' \in Nat /\ droppedTotal' \in Nat
           /\ spawnedTotal' = Len(particles') + died
           /\ droppedTotal' > 0 => spawnedTotal' >= MaxParticles
           /\ droppedTotal' >= droppedTotal
           /\ \A i \in 1..Len(particles) : particles'[i] = particles[i]
           /\ \A i \in (Len(particles) + 1)..Len(particles') :
                particles'[i].born = tick /\ particles'[i].age = 0 /\ particles'[i].life \in 1..MaxLife
<1> DEFINE room == MaxParticles - Len(particles)
           born == Fewer(room, Len(lives))
           newborn == [i \in 1..born |-> [born |-> tick, age |-> 0, life |-> lives[i]]]
<1>1. /\ particles \in Seq(ParticleRecords) /\ Len(particles) \in Nat /\ Len(particles) <= MaxParticles
      /\ spawnedTotal \in Nat /\ droppedTotal \in Nat /\ died \in Nat /\ tick \in 0..MaxUpdates
      /\ spawnedTotal = Len(particles) + died
      /\ droppedTotal > 0 => spawnedTotal >= MaxParticles
  BY DEF AgesInv, SlotTypes, SpawnsAddUp
<1>2. MaxParticles \in Nat /\ MaxLife \in Nat /\ MaxUpdates \in Nat
  BY ParticlesAssumption
<1>3. Len(lives) \in Nat /\ \A i \in 1..Len(lives) : lives[i] \in 1..MaxLife
  BY LenProperties, ElementOfSeq
<1>4. born \in Nat /\ born <= room /\ born <= Len(lives) /\ (born < Len(lives) => born = room)
  BY <1>1, <1>2, <1>3 DEF Fewer
<1>5. newborn \in Seq(ParticleRecords) /\ Len(newborn) = born
  <2>1. \A i \in 1..born : [born |-> tick, age |-> 0, life |-> lives[i]] \in ParticleRecords
    BY <1>1, <1>2, <1>3, <1>4 DEF ParticleRecords
  <2>2. newborn \in [1..born -> ParticleRecords]
    BY <2>1
  <2> HIDE DEF newborn, born
  <2>3. QED
    BY <1>4, <2>2
<1>6. /\ particles' = particles \o newborn
      /\ spawnedTotal' = spawnedTotal + born
      /\ droppedTotal' = droppedTotal + Len(lives) - born
  BY DEF Emit
<1>7. \A i \in 1..born : newborn[i].born = tick /\ newborn[i].age = 0 /\ newborn[i].life \in 1..MaxLife
  BY <1>3, <1>4
<1> HIDE DEF newborn, born
<1>8. /\ particles' \in Seq(ParticleRecords) /\ Len(particles') = Len(particles) + born
      /\ \A i \in 1..Len(particles) : particles'[i] = particles[i]
      /\ \A i \in 1..born : particles'[Len(particles) + i] = newborn[i]
  <2>1. /\ particles' \in Seq(ParticleRecords) /\ Len(particles') = Len(particles) + born
        /\ \A i \in 1..(Len(particles) + born) :
             particles'[i] = IF i <= Len(particles) THEN particles[i] ELSE newborn[i - Len(particles)]
    BY <1>1, <1>5, <1>6, ConcatProperties
  <2>2. ASSUME NEW i \in 1..born PROVE particles'[Len(particles) + i] = newborn[i]
    <3>1. Len(particles) + i \in 1..(Len(particles) + born) /\ ~(Len(particles) + i <= Len(particles))
          /\ Len(particles) + i - Len(particles) = i
      BY <1>1, <1>4
    <3>2. QED
      BY <2>1, <3>1
  <2>3. \A i \in 1..Len(particles) : i \in 1..(Len(particles) + born) /\ i <= Len(particles)
    BY <1>1, <1>4
  <2>4. QED
    BY <2>1, <2>2, <2>3
<1>9. ASSUME NEW i \in (Len(particles) + 1)..Len(particles')
      PROVE  particles'[i].born = tick /\ particles'[i].age = 0 /\ particles'[i].life \in 1..MaxLife
  <2>1. i - Len(particles) \in 1..born /\ Len(particles) + (i - Len(particles)) = i
    BY <1>1, <1>4, <1>8, <1>9
  <2>2. particles'[i] = newborn[i - Len(particles)]
    BY <1>8, <2>1
  <2>3. QED
    BY <1>7, <2>1, <2>2
<1>10. Len(particles') <= MaxParticles /\ Len(particles') >= Len(particles)
  BY <1>1, <1>2, <1>4, <1>8
<1>11. /\ spawnedTotal' \in Nat /\ droppedTotal' \in Nat /\ droppedTotal' >= droppedTotal
       /\ spawnedTotal' = Len(particles') + died
       /\ droppedTotal' > 0 => spawnedTotal' >= MaxParticles
  BY <1>1, <1>2, <1>3, <1>4, <1>6, <1>8
<1>12. QED
  BY <1>8, <1>9, <1>10, <1>11

\* The lives of a burst, and those of the continuous spawns, are lives of their emitters.
LEMMA BurstLives ==
    ASSUME AgesInv, NEW id \in DOMAIN emitters, NEW n \in 1..MaxBurst, NEW lives \in Lives(emitters[id], n)
    PROVE  lives \in Seq(1..MaxLife)
<1>1. emitters[id] \in EmitterDefs
  BY DEF AgesInv, SlotTypes
<1>2. n \in Nat /\ lives \in [1..n -> emitters[id].lifeMin..emitters[id].lifeMax]
  BY ParticlesAssumption DEF Lives
<1>3. emitters[id].lifeMin..emitters[id].lifeMax \subseteq 1..MaxLife
  BY <1>1, ParticlesAssumption DEF EmitterDefs
<1>4. lives \in [1..n -> 1..MaxLife]
  BY <1>2, <1>3
<1>5. lives \in UNION {[1..k -> 1..MaxLife] : k \in Nat}
  BY <1>2, <1>4
<1>6. QED
  BY <1>5, SeqDef

LEMMA ContinuousLives ==
    ASSUME AgesInv, NEW lives \in Continuous
    PROVE  lives \in Seq(1..MaxLife)
<1>1. emitters \in Seq(EmitterDefs)
  BY DEF AgesInv, SlotTypes
<1>2. CASE emitters = <<>>
  BY <1>2 DEF Continuous
<1>3. CASE emitters # <<>>
  <2>1. PICK parts \in [DOMAIN emitters -> UNION {[1..n -> 1..MaxLife] : n \in 0..MaxBurst}] :
           lives = FlattenSeq(parts)
    BY <1>3 DEF Continuous
  <2>2. UNION {[1..n -> 1..MaxLife] : n \in 0..MaxBurst} \subseteq Seq(1..MaxLife)
    BY ParticlesAssumption, SeqDef
  <2>3. DOMAIN emitters = 1..Len(emitters) /\ Len(emitters) \in Nat
    BY <1>1
  <2>4. parts \in [1..Len(emitters) -> Seq(1..MaxLife)]
    BY <2>1, <2>2, <2>3
  <2>5. parts \in Seq(Seq(1..MaxLife))
    BY <2>3, <2>4
  <2>6. QED
    BY <2>1, <2>5, FlattenTypes
<1>4. QED
  BY <1>2, <1>3

LEMMA ParticlesBegin == ASSUME ParticlesInit PROVE AgesInv
<1>1. /\ particles = <<>> /\ emitters = <<>> /\ Len(particles) = 0 /\ DOMAIN particles = {}
      /\ particles \in Seq(ParticleRecords) /\ emitters \in Seq(EmitterDefs) /\ Len(emitters) = 0
  BY EmptySeq DEF ParticlesInit
<1>2. SlotTypes
  BY <1>1, ParticlesAssumption DEF ParticlesInit, SlotTypes
<1>3. AgedOncePerTick
  BY <1>1 DEF AgedOncePerTick
<1>4. SpawnsAddUp
  BY <1>1 DEF ParticlesInit, SpawnsAddUp
<1>5. QED
  BY <1>2, <1>3, <1>4 DEF AgesInv

\* Drops are counted once more since the last update, never taken back.
LEMMA DropsGrow ==
    ASSUME NEW m \in Nat, NEW n \in Nat, n >= m, NEW k \in Nat
    PROVE  k + (n - m) \in Nat /\ k + (n - m) >= k
OBVIOUS

\* Aging touches no flag, and no other step leaves a drop unreported.
LEMMA FlagsKeep ==
    ASSUME AgesInv, FlagTypes, DropsAreReported, ParticlesNext
    PROVE  FlagTypes' /\ DropsAreReported'
<1>2. CASE UNCHANGED <<overflowWarned, droppedSinceUpdate, particlesValid>>
  BY <1>2 DEF FlagTypes, DropsAreReported
<1>3. ASSUME NEW id \in DOMAIN emitters, NEW n \in 1..MaxBurst, Burst(id, n)
      PROVE  FlagTypes' /\ DropsAreReported'
  <2>1. droppedSinceUpdate > 0 => droppedSinceUpdate' > 0
    <3>1. PICK lives \in Lives(emitters[id], n) : Emit(particles, lives)
      BY <1>3 DEF Burst
    <3>2. droppedTotal' >= droppedTotal /\ droppedTotal' \in Nat /\ droppedTotal \in Nat
      BY <1>3, <3>1, BurstLives, EmitKeeps DEF Burst, AgesInv, SlotTypes
    <3>3. droppedSinceUpdate' = droppedSinceUpdate + (droppedTotal' - droppedTotal) /\ droppedSinceUpdate \in Nat
      BY <1>3 DEF Burst, AgesInv, SlotTypes
    <3>4. droppedSinceUpdate' \in Nat /\ droppedSinceUpdate' >= droppedSinceUpdate
      BY ONLY <3>2, <3>3, DropsGrow
    <3>5. QED
      BY ONLY <3>3, <3>4
  <2>2. particlesValid /\ particlesValid' = particlesValid
        /\ overflowWarned' = (overflowWarned \/ droppedSinceUpdate' > 0)
    BY <1>3 DEF Burst
  <2>3. QED
    <3>1. FlagTypes'
      BY <2>2 DEF FlagTypes
    <3>2. overflowWarned <=> droppedSinceUpdate > 0
      BY <2>2 DEF DropsAreReported
    <3>3. overflowWarned' <=> droppedSinceUpdate' > 0
      BY ONLY <2>1, <2>2, <3>2
    <3>4. QED
      BY <3>1, <3>3 DEF DropsAreReported
<1>4. CASE UpdateEnd
  <2>1. droppedSinceUpdate' = 0 /\ (overflowWarned' <=> FALSE) /\ FlagTypes'
    BY <1>4 DEF UpdateEnd, FlagTypes
  <2>2. QED
    BY <2>1 DEF DropsAreReported
<1>5. CASE MoveParticles
  BY <1>5 DEF MoveParticles, FlagTypes, DropsAreReported
<1>6. QED
  BY <1>2, <1>3, <1>4, <1>5 DEF ParticlesNext, AddEmitter, UpdateBegin, Age

LEMMA AddEmitterKeeps ==
    ASSUME AgesInv, NEW def \in EmitterDefs, AddEmitter(def)
    PROVE  AgesInv'
<1>1. emitters' \in Seq(EmitterDefs) /\ Len(emitters') = Len(emitters) + 1 /\ Len(emitters) \in Nat
  BY DEF AgesInv, SlotTypes, AddEmitter
<1>2. QED
  BY <1>1, ParticlesAssumption
  DEF AddEmitter, AgesInv, SlotTypes, AgedOncePerTick, SpawnsAddUp

LEMMA BurstKeeps ==
    ASSUME AgesInv, NEW id \in DOMAIN emitters, NEW n \in 1..MaxBurst, Burst(id, n)
    PROVE  AgesInv'
<1>1. PICK lives \in Lives(emitters[id], n) : Emit(particles, lives)
  BY DEF Burst
<1>2. /\ particles' \in Seq(ParticleRecords) /\ Len(particles') <= MaxParticles
      /\ Len(particles') >= Len(particles)
      /\ spawnedTotal' \in Nat /\ droppedTotal' \in Nat
      /\ spawnedTotal' = Len(particles') + died
      /\ droppedTotal' > 0 => spawnedTotal' >= MaxParticles
      /\ droppedTotal' >= droppedTotal
      /\ \A i \in 1..Len(particles) : particles'[i] = particles[i]
      /\ \A i \in (Len(particles) + 1)..Len(particles') :
           particles'[i].born = tick /\ particles'[i].age = 0 /\ particles'[i].life \in 1..MaxLife
  BY <1>1, BurstLives, EmitKeeps DEF Burst
<1>3. /\ droppedSinceUpdate' \in Nat /\ droppedSinceUpdate' >= droppedSinceUpdate
      /\ droppedSinceUpdate \in Nat /\ died \in Nat /\ at = 0 /\ at' = 0 /\ Len(particles') \in Nat
  <2>1. droppedSinceUpdate' = droppedSinceUpdate + (droppedTotal' - droppedTotal) /\ at = 0 /\ at' = at
    BY DEF Burst
  <2>2. droppedTotal \in Nat /\ droppedSinceUpdate \in Nat /\ died \in Nat
    BY DEF AgesInv, SlotTypes
  <2>3. droppedTotal' \in Nat /\ droppedTotal' >= droppedTotal /\ Len(particles') \in Nat
    BY <1>2, LenProperties
  <2>4. QED
    BY ONLY <2>1, <2>2, <2>3, DropsGrow
<1>4. SlotTypes'
  <2>1. /\ emitters' = emitters /\ died' = died /\ tick' = tick
        /\ emitters \in Seq(EmitterDefs) /\ Len(emitters) <= MaxEmitters /\ tick \in 0..MaxUpdates
        /\ 0 \in 0..(Len(particles') + 1)
    BY <1>3 DEF AgesInv, SlotTypes, Burst
  <2>2. QED
    BY <1>2, <1>3, <2>1 DEF SlotTypes
<1>5. AgedOncePerTick'
  <2> SUFFICES ASSUME NEW i \in DOMAIN particles'
               PROVE  /\ particles'[i].age = tick - particles'[i].born - 0
                      /\ particles'[i].age < particles'[i].life
    BY DEF AgedOncePerTick, Burst
  <2>1. i \in 1..Len(particles') /\ Len(particles) \in Nat /\ Len(particles') \in Nat
    BY <1>2 DEF AgesInv, SlotTypes
  <2>2. CASE i <= Len(particles)
    <3>1. particles[i].age = tick - particles[i].born - (IF at # 0 /\ i >= at THEN 1 ELSE 0)
          /\ particles[i].age < particles[i].life
      BY <2>1, <2>2 DEF AgesInv, SlotTypes, AgedOncePerTick
    <3>2. at = 0 /\ particles'[i] = particles[i]
      BY <1>2, <1>3, <2>1, <2>2
    <3>3. QED
      BY <3>1, <3>2
  <2>3. CASE i > Len(particles)
    BY <1>2, <2>1, <2>3 DEF AgesInv, SlotTypes
  <2>4. QED
    BY <2>1, <2>2, <2>3
<1>6. SpawnsAddUp'
  <2>1. died' = died
    BY DEF Burst
  <2>2. QED
    BY <1>2, <2>1 DEF SpawnsAddUp
<1>7. QED
  BY <1>4, <1>5, <1>6 DEF AgesInv

LEMMA UpdateBeginKeeps == ASSUME AgesInv, UpdateBegin PROVE AgesInv'
<1>1. SlotTypes'
  BY ParticlesAssumption DEF UpdateBegin, AgesInv, SlotTypes
<1>2. AgedOncePerTick'
  <2> SUFFICES ASSUME NEW i \in DOMAIN particles
               PROVE  /\ particles[i].age = tick' - particles[i].born - (IF i >= 1 THEN 1 ELSE 0)
                      /\ particles[i].age < particles[i].life
    BY DEF AgedOncePerTick, UpdateBegin
  <2>1. i \in Nat /\ i >= 1 /\ particles[i] \in ParticleRecords /\ tick' = tick + 1 /\ tick \in Nat
    BY ParticlesAssumption DEF AgesInv, SlotTypes, UpdateBegin
  <2>2. particles[i].age = tick - particles[i].born /\ particles[i].age < particles[i].life
    <3>1. particles[i].age = tick - particles[i].born - 0 /\ particles[i].age < particles[i].life
      BY DEF AgesInv, AgedOncePerTick, UpdateBegin
    <3>2. particles[i].born \in Nat
      BY <2>1 DEF ParticleRecords
    <3>3. QED
      BY <2>1, <3>1, <3>2
  <2>3. particles[i].born \in Nat
    BY <2>1 DEF ParticleRecords
  <2>4. QED
    BY <2>1, <2>2, <2>3
<1>3. SpawnsAddUp'
  BY DEF UpdateBegin, AgesInv, SpawnsAddUp
<1>4. QED
  BY <1>1, <1>2, <1>3 DEF AgesInv

LEMMA AgeKeeps == ASSUME AgesInv, Age PROVE AgesInv'
<1> DEFINE aged == [particles EXCEPT ![at].age = @ + 1]
           dead == aged[at].age >= aged[at].life
           swapped == [aged EXCEPT ![at] = Last(aged)]
           n == Len(particles)
<1>1. /\ particles \in Seq(ParticleRecords) /\ n \in Nat /\ n <= MaxParticles /\ MaxParticles \in Nat
      /\ at \in 1..n /\ particles # <<>> /\ tick \in Nat /\ died \in Nat
      /\ \A i \in 1..n : particles[i] \in ParticleRecords
  BY ParticlesAssumption DEF Age, AgesInv, SlotTypes
<1>2. /\ \A i \in 1..n : particles[i].age = tick - particles[i].born - (IF i >= at THEN 1 ELSE 0)
      /\ \A i \in 1..n : particles[i].age < particles[i].life
  BY <1>1 DEF AgesInv, AgedOncePerTick
<1>3. /\ \A i \in 1..n : i # at => aged[i] = particles[i]
      /\ aged[at] = [particles[at] EXCEPT !.age = @ + 1]
      /\ DOMAIN aged = 1..n
  BY <1>1
<1>4. \A i \in 1..n : aged[i] \in ParticleRecords
  <2>1. particles[at].age + 1 \in 0..MaxLife
    <3>1. /\ particles[at].age \in Nat /\ particles[at].age < particles[at].life
          /\ particles[at].life \in Nat /\ particles[at].life <= MaxLife /\ MaxLife \in Nat
      BY <1>1, <1>2, ParticlesAssumption DEF ParticleRecords
    <3>2. QED
      BY <3>1
  <2>2. [particles[at] EXCEPT !.age = @ + 1] \in ParticleRecords
    BY <1>1, <2>1 DEF ParticleRecords
  <2> HIDE DEF aged
  <2>3. QED
    BY <1>1, <1>3, <2>2
<1>5. /\ aged[at].born = particles[at].born /\ aged[at].age = particles[at].age + 1
      /\ aged[at].life = particles[at].life
  BY <1>1, <1>3 DEF ParticleRecords
<1>6. aged[at].age = tick - aged[at].born /\ aged[at].age \in Nat /\ aged[at].life \in Nat /\ aged[at].born \in Nat
  <2>1. /\ particles[at].age \in Nat /\ particles[at].life \in Nat /\ particles[at].born \in Nat
        /\ particles[at].age = tick - particles[at].born - 1 /\ tick \in Nat
    BY <1>1, <1>2, ParticlesAssumption DEF ParticleRecords
  <2>2. QED
    BY <1>5, <2>1
<1>7. aged \in Seq(ParticleRecords) /\ Len(aged) = n
  <2>1. aged = [i \in 1..n |-> aged[i]]
    BY <1>3
  <2> HIDE DEF aged
  <2>2. aged \in [1..n -> ParticleRecords]
    BY <1>4, <2>1
  <2>3. QED
    BY <1>1, <2>2
<1>8. /\ particles' = IF dead THEN Front(swapped) ELSE aged
      /\ died' = IF dead THEN died + 1 ELSE died
      /\ at' = IF dead THEN at ELSE at + 1
      /\ UNCHANGED <<emitters, spawnedTotal, droppedTotal, droppedSinceUpdate, overflowWarned, particlesValid, tick>>
  BY DEF Age, NextAt
<1> HIDE DEF aged
<1>9. CASE dead
  <2>1. Last(aged) = aged[n] /\ n \in 1..n
    <3>1. aged # <<>>
      BY <1>1, <1>7, EmptySeq
    <3>2. QED
      BY <1>1, <1>7, <3>1 DEF Last
  <2>2. swapped \in Seq(ParticleRecords) /\ Len(swapped) = n /\ swapped # <<>>
    BY <1>1, <1>4, <1>7, <2>1
  <2>3. \A i \in 1..n : swapped[i] = IF i = at THEN aged[n] ELSE aged[i]
    BY <1>3, <2>1
  <2> HIDE DEF swapped, dead
  <2>4. /\ particles' \in Seq(ParticleRecords) /\ Len(particles') = n - 1
        /\ \A i \in 1..(n - 1) : particles'[i] = IF i = at THEN aged[n] ELSE aged[i]
    BY <1>1, <1>8, <1>9, <2>2, <2>3, FrontIs
  <2>5. at' = at /\ died' = died + 1
    BY <1>8, <1>9
  <2>6. \A i \in 1..(n - 1) : particles'[i] = IF i = at THEN particles[n] ELSE particles[i]
    BY <1>1, <1>3, <2>4
  <2>7. SlotTypes'
    BY <1>1, <1>8, <2>4, <2>5 DEF AgesInv, SlotTypes
  <2>8. AgedOncePerTick'
    <3> SUFFICES ASSUME NEW i \in 1..(n - 1)
                 PROVE  /\ particles'[i].age = tick - particles'[i].born - (IF i >= at THEN 1 ELSE 0)
                        /\ particles'[i].age < particles'[i].life
      BY <1>1, <1>8, <2>4, <2>5 DEF AgedOncePerTick
    <3>1. CASE i = at
      BY <1>1, <1>2, <2>6, <3>1
    <3>2. CASE i # at
      BY <1>1, <1>2, <2>6, <3>2
    <3>3. QED
      BY <3>1, <3>2
  <2>9. SpawnsAddUp'
    <3>1. /\ particlesValid' = particlesValid /\ spawnedTotal' = spawnedTotal /\ droppedTotal' = droppedTotal
      BY <1>8
    <3>2. particlesValid => spawnedTotal = n + died /\ (droppedTotal > 0 => spawnedTotal >= MaxParticles)
      BY DEF AgesInv, SpawnsAddUp
    <3>3. n - 1 + (died + 1) = n + died
      BY <1>1
    <3>4. QED
      BY <2>4, <2>5, <3>1, <3>2, <3>3 DEF SpawnsAddUp
  <2>10. QED
    BY <2>7, <2>8, <2>9 DEF AgesInv
<1>10. CASE ~dead
  <2>1. particles' = aged /\ at' = at + 1 /\ died' = died /\ aged[at].age < aged[at].life
    BY <1>6, <1>8, <1>10
  <2> HIDE DEF dead
  <2>2. SlotTypes'
    BY <1>1, <1>7, <1>8, <2>1 DEF AgesInv, SlotTypes
  <2>3. AgedOncePerTick'
    <3> SUFFICES ASSUME NEW i \in 1..n
                 PROVE  /\ aged[i].age = tick - aged[i].born - (IF i >= at + 1 THEN 1 ELSE 0)
                        /\ aged[i].age < aged[i].life
      BY <1>1, <1>3, <1>8, <2>1 DEF AgedOncePerTick
    <3>1. CASE i = at
      BY <1>1, <1>6, <2>1, <3>1
    <3>2. CASE i # at
      BY <1>1, <1>2, <1>3, <3>2
    <3>3. QED
      BY <3>1, <3>2
  <2>4. SpawnsAddUp'
    BY <1>1, <1>7, <1>8, <2>1 DEF AgesInv, SpawnsAddUp
  <2>5. QED
    BY <2>2, <2>3, <2>4 DEF AgesInv
<1>11. QED
  BY <1>9, <1>10

LEMMA UpdateEndKeeps == ASSUME AgesInv, UpdateEnd PROVE AgesInv'
<1>1. particlesValid /\ Len(particles) \in Nat /\ at \in Nat /\ at > Len(particles) /\ at # 0
  BY DEF AgesInv, SlotTypes, UpdateEnd
<1>2. PICK lives \in Continuous : Emit(particles, lives)
  BY DEF UpdateEnd
<1>3. /\ particles' \in Seq(ParticleRecords) /\ Len(particles') <= MaxParticles
      /\ Len(particles') >= Len(particles)
      /\ spawnedTotal' \in Nat /\ droppedTotal' \in Nat
      /\ spawnedTotal' = Len(particles') + died
      /\ droppedTotal' > 0 => spawnedTotal' >= MaxParticles
      /\ droppedTotal' >= droppedTotal
      /\ \A i \in 1..Len(particles) : particles'[i] = particles[i]
      /\ \A i \in (Len(particles) + 1)..Len(particles') :
           particles'[i].born = tick /\ particles'[i].age = 0 /\ particles'[i].life \in 1..MaxLife
  BY <1>1, <1>2, ContinuousLives, EmitKeeps
<1>4. SlotTypes'
  BY <1>3 DEF AgesInv, SlotTypes, UpdateEnd
<1>5. AgedOncePerTick'
  <2> SUFFICES ASSUME NEW i \in DOMAIN particles'
               PROVE  /\ particles'[i].age = tick - particles'[i].born - 0
                      /\ particles'[i].age < particles'[i].life
    BY DEF AgedOncePerTick, UpdateEnd
  <2>1. i \in 1..Len(particles') /\ Len(particles') \in Nat
    BY <1>3
  <2>2. CASE i <= Len(particles)
    BY <1>1, <1>3, <2>1, <2>2 DEF AgesInv, SlotTypes, AgedOncePerTick
  <2>3. CASE i > Len(particles)
    BY <1>1, <1>3, <2>1, <2>3 DEF AgesInv, SlotTypes
  <2>4. QED
    BY <1>1, <2>1, <2>2, <2>3
<1>6. SpawnsAddUp'
  BY <1>3 DEF AgesInv, SpawnsAddUp, UpdateEnd
<1>7. QED
  BY <1>4, <1>5, <1>6 DEF AgesInv

LEMMA MoveParticlesKeeps == ASSUME AgesInv, MoveParticles PROVE AgesInv'
BY ParticlesAssumption
DEF MoveParticles, AgesInv, SlotTypes, AgedOncePerTick, SpawnsAddUp

\* Each live particle was aged once per update since its birth, wherever the swaps of the dead
\* put it, and every spawn is alive, died, or was dropped for want of room.
THEOREM ParticlesAreAgedOnce == ParticlesSpec => []ParticlesAgeOnce
<1>1. ParticlesAgeOnce <=> AgesInv /\ FlagTypes /\ DropsAreReported
  BY DEF ParticlesAgeOnce, ParticlesTypeOK, SpawnBooks, AgesInv
<1>2. ParticlesInit => ParticlesAgeOnce
  <2>1. ParticlesInit => FlagTypes /\ (overflowWarned <=> FALSE) /\ droppedSinceUpdate = 0
    BY DEF ParticlesInit, FlagTypes
  <2>2. ParticlesInit => DropsAreReported
    BY <2>1 DEF DropsAreReported
  <2>3. QED
    BY <1>1, <2>1, <2>2, ParticlesBegin
<1>3. ParticlesAgeOnce /\ [ParticlesNext]_particlesVars => ParticlesAgeOnce'
  <2>1. ASSUME ParticlesAgeOnce, UNCHANGED particlesVars PROVE ParticlesAgeOnce'
    BY <2>1 DEF particlesVars, ParticlesAgeOnce, ParticlesTypeOK, SlotTypes, FlagTypes, AgedOncePerTick,
       SpawnBooks, SpawnsAddUp, DropsAreReported
  <2>2. AgesInv /\ ParticlesNext => AgesInv'
    BY AddEmitterKeeps, BurstKeeps, UpdateBeginKeeps, AgeKeeps, UpdateEndKeeps, MoveParticlesKeeps
    DEF ParticlesNext
  <2>3. ParticlesAgeOnce' <=> AgesInv' /\ FlagTypes' /\ DropsAreReported'
    BY DEF ParticlesAgeOnce, ParticlesTypeOK, SpawnBooks, AgesInv
  <2>4. QED
    BY <1>1, <2>1, <2>2, <2>3, FlagsKeep
<1>4. QED
  BY <1>2, <1>3, PTL DEF ParticlesSpec

-----------------------------------------------------------------------------
(* The configuration *)

\* Before the config is loaded nothing depends on it; a reloader is as create
\* or a poll left it, and while there is none a config that was loaded from this
\* very file follows the file itself.
ConfigInv ==
    /\ live = Rejected => reloader = NoReloader /\ replaced = {}
    /\ reloader # NoReloader =>
         /\ reloader = [bytes |-> reloader.bytes, config |-> reloader.config, movedFrom |-> reloader.movedFrom]
         /\ reloader.config # Rejected
    /\ live # Rejected /\ reloader = NoReloader /\ ~missed =>
         \A key \in Keys \ replaced : live[key] = LoadGameConfig(file)[key]
    /\ LiveFollowsAcceptedFile

\* An accepted change and a merge are whole configurations.
LEMMA ConfigsAreNotRejected ==
    \A fresh, base, override :
        /\ Applied(fresh) # Rejected
        /\ [key \in Keys |-> IF key \in DOMAIN override THEN override[key] ELSE base[key]] # Rejected
<1>1. DOMAIN Rejected = {"kind"} /\ "seed" \in Keys
  BY DEF Rejected, Keys, SimKeys
<1>2. QED
  BY <1>1 DEF Applied

\* A merge keeps every key the override does not name.
LEMMA MergeKeeps ==
    ASSUME NEW base, NEW override, ApplyConfigOverride(base, override) # Rejected
    PROVE  \A key \in Keys \ DOMAIN override : ApplyConfigOverride(base, override)[key] = base[key]
BY DEF ApplyConfigOverride

\* After an accepted poll each key that followed the old baseline follows the new one.
LEMMA AppliedFollows ==
    ASSUME NEW fresh, ~Refused(fresh), NEW key \in Keys, live[key] = reloader.config[key]
    PROVE  Applied(fresh)[key] = fresh[key]
BY DEF Applied, Changed, Refused, Keys

LEMMA ConfigBegins == ASSUME ConfigInit PROVE ConfigInv
BY DEF ConfigInit, ConfigInv, LiveFollowsAcceptedFile, Bound

LEMMA EditFollows == ASSUME ConfigInv, Edit PROVE ConfigInv'
BY DEF ConfigInv, Edit, LiveFollowsAcceptedFile, Bound

LEMMA LoadFollows == ASSUME ConfigInv, Load PROVE ConfigInv'
BY DEF ConfigInv, Load, LiveFollowsAcceptedFile, Bound

LEMMA OverrideFollows == ASSUME ConfigInv, Override PROVE ConfigInv'
<1>1. PICK override \in Overrides :
        LET merged == ApplyConfigOverride(live, override)
        IN IF merged = Rejected THEN UNCHANGED <<live, replaced>>
           ELSE live' = merged /\ replaced' = replaced \cup DOMAIN override
  BY DEF Override
<1>2. CASE ApplyConfigOverride(live, override) = Rejected
  BY <1>1, <1>2 DEF ConfigInv, Override, LiveFollowsAcceptedFile, Bound
<1>3. CASE ApplyConfigOverride(live, override) # Rejected
  <2>1. \A key \in Keys \ replaced' : live'[key] = live[key]
    BY <1>1, <1>3, MergeKeeps
  <2>2. QED
    BY <1>1, <1>3, <2>1 DEF ConfigInv, Override, LiveFollowsAcceptedFile, Bound
<1>4. QED
  BY <1>2, <1>3

LEMMA CreateFollows == ASSUME ConfigInv, CreateReloader PROVE ConfigInv'
BY DEF ConfigInv, CreateReloader, LiveFollowsAcceptedFile, Bound, NoReloader

LEMMA PollFollows == ASSUME ConfigInv, Poll PROVE ConfigInv'
<1>1. PICK fresh : fresh = LoadGameConfig(file)
  OBVIOUS
<1>2. CASE \E status : PollFails(status, live)
  BY <1>2 DEF ConfigInv, PollFails, LiveFollowsAcceptedFile, Bound
<1>3. CASE PollAccepts(fresh) /\ fresh # Rejected /\ ~Refused(fresh) /\ ~reloader.movedFrom
  <2>1. live # Rejected /\ reloader # NoReloader
    BY DEF Poll, PollGuard
  <2>2. reloader' = [bytes |-> file, config |-> fresh, movedFrom |-> reloader.movedFrom]
    BY <1>3, <2>1 DEF ConfigInv, PollAccepts
  <2>3. live' # Rejected /\ reloader' # NoReloader
    BY <1>3, <2>2, ConfigsAreNotRejected DEF PollAccepts, NoReloader
  <2>4. ASSUME Bound' PROVE \A key \in Keys \ replaced' : live'[key] = reloader'.config[key]
    <3>1. Bound /\ replaced' = replaced /\ live' = Applied(fresh)
      BY <1>3, <2>1, <2>4 DEF Bound, PollAccepts
    <3>2. QED
      BY <1>3, <2>2, <3>1, AppliedFollows DEF ConfigInv, LiveFollowsAcceptedFile
  <2>5. QED
    BY <1>3, <2>2, <2>3, <2>4 DEF ConfigInv, LiveFollowsAcceptedFile
<1>4. QED
  BY <1>1, <1>2, <1>3 DEF Poll

LEMMA MoveAwayFollows == ASSUME ConfigInv, MoveAway PROVE ConfigInv'
<1>1. reloader' = [bytes |-> reloader.bytes, config |-> reloader.config, movedFrom |-> TRUE]
  BY DEF ConfigInv, MoveAway
<1>2. reloader' # NoReloader
  BY <1>1 DEF NoReloader
<1>3. QED
  BY <1>1, <1>2 DEF ConfigInv, MoveAway, LiveFollowsAcceptedFile, Bound

\* Whatever is edited, overridden, polled or moved away in whatever order, the live
\* configuration is key by key the accepted file's or the program's own.
THEOREM LiveIsTheAcceptedFile == ConfigSpec => []LiveFollowsAcceptedFile
<1>1. ConfigInit => ConfigInv
  BY ConfigBegins
<1>2. ConfigInv /\ [ConfigNext]_configVars => ConfigInv'
  <2>1. ASSUME ConfigInv, UNCHANGED configVars PROVE ConfigInv'
    BY <2>1 DEF configVars, ConfigInv, LiveFollowsAcceptedFile, Bound
  <2>2. QED
    BY <2>1, EditFollows, LoadFollows, OverrideFollows, CreateFollows, PollFollows, MoveAwayFollows
    DEF ConfigNext
<1>3. ConfigInv => LiveFollowsAcceptedFile
  BY DEF ConfigInv
<1>4. QED
  BY <1>1, <1>2, <1>3, PTL DEF ConfigSpec

-----------------------------------------------------------------------------
(* Sums of the values of a function over a finite set, which the community  *)
(* modules define by recursion over its subsets.                            *)

\* The element a sum takes next, and one turn of the recursion.
Taken(s) == CHOOSE x \in s : TRUE
SumOf(f, s, g) == IF s = {} THEN 0 ELSE f[Taken(s)] + g[s \ {Taken(s)}]
Sums(f, g) == g = [s \in SUBSET DOMAIN f |-> SumOf(f, s, g)]

\* What holds of the empty set, and of each set if it holds without the next element.
LEMMA SubsetsAll ==
    ASSUME NEW S, IsFiniteSet(S), NEW T \in SUBSET SUBSET S, {} \in T,
           \A s \in SUBSET S : s # {} /\ s \ {Taken(s)} \in T => s \in T
    PROVE  T = SUBSET S
<1> DEFINE B == (SUBSET S) \ T
<1> SUFFICES ASSUME B # {} PROVE FALSE
    OBVIOUS
<1>1. B \subseteq FiniteSubsetsOf(S)
  BY FS_Subset DEF FiniteSubsetsOf
<1>2. PICK s \in B : \A r \in B : <<r, s>> \notin StrictSubsetOrdering(S)
  <2> HIDE DEF B
  <2>1. QED
    BY <1>1, FS_StrictSubsetOrderingWellFounded, WFMin
<1>3. s # {} /\ s \in SUBSET S
  OBVIOUS
<1>4. Taken(s) \in s
  BY <1>3 DEF Taken
<1>5. s \ {Taken(s)} \in B
  BY <1>3
<1>6. <<s \ {Taken(s)}, s>> \in StrictSubsetOrdering(S)
  BY <1>3, <1>4 DEF StrictSubsetOrdering
<1>7. QED
  BY <1>2, <1>5, <1>6

\* The recursion has a solution on a finite set.
LEMMA SumExists ==
    ASSUME NEW f, IsFiniteSet(DOMAIN f)
    PROVE  \E g : Sums(f, g)
<1> DEFINE S == DOMAIN f
           n == Cardinality(S)
           Below(m, g) == \A s \in SUBSET S : Cardinality(s) < m => g[s] = SumOf(f, s, g)
           T == {m \in 1..(n + 1) : \E g : g = [s \in SUBSET S |-> g[s]] /\ Below(m, g)}
<1>1. n \in Nat /\ \A s \in SUBSET S : IsFiniteSet(s) /\ Cardinality(s) \in Nat /\ Cardinality(s) <= n
  BY FS_CardinalityType, FS_Subset
<1>2. ASSUME NEW s \in SUBSET S, s # {}
      PROVE  Taken(s) \in s /\ s \ {Taken(s)} \in SUBSET S /\ Cardinality(s \ {Taken(s)}) = Cardinality(s) - 1
  <2>1. Taken(s) \in s
    BY <1>2 DEF Taken
  <2>2. QED
    BY <1>1, <2>1, FS_RemoveElement
<1>3. ASSUME NEW m \in 1..(n + 1), m = 1 \/ m - 1 \in T PROVE m \in T
  <2>1. \E g : Below(m - 1, g)
    <3>1. CASE m = 1
      <4>1. ASSUME NEW s \in SUBSET S PROVE ~(Cardinality(s) < m - 1)
        BY <1>1, <3>1
      <4>2. QED
        BY <4>1
    <3>2. CASE m # 1
      BY <1>3, <3>2
    <3>3. QED
      BY <3>1, <3>2
  <2>2. PICK g : Below(m - 1, g)
    BY <2>1
  <2> DEFINE h == [s \in SUBSET S |-> IF Cardinality(s) < m - 1 THEN g[s] ELSE SumOf(f, s, g)]
  <2>3. ASSUME NEW s \in SUBSET S, Cardinality(s) < m PROVE h[s] = SumOf(f, s, h)
    <3>1. h[s] = SumOf(f, s, g)
      BY <2>2
    <3>2. ASSUME s # {} PROVE h[s \ {Taken(s)}] = g[s \ {Taken(s)}]
      <4>1. Cardinality(s \ {Taken(s)}) < m - 1
        BY <1>1, <1>2, <2>3, <3>2
      <4>2. QED
        BY <1>2, <3>2, <4>1
    <3> HIDE DEF h
    <3>3. QED
      BY <3>1, <3>2 DEF SumOf
  <2>4. h = [s \in SUBSET S |-> h[s]]
    OBVIOUS
  <2> HIDE DEF h
  <2>5. Below(m, h)
    BY <2>3
  <2>6. QED
    BY <2>4, <2>5
<1>4. T = 1..(n + 1)
  <2>1. T \in SUBSET (1..(n + 1)) /\ n + 1 \in Nat
    BY <1>1
  <2>2. \A m \in 1..(n + 1) : (m = 1 \/ m - 1 \in T) => m \in T
    BY <1>3
  <2> HIDE DEF T
  <2>3. QED
    BY <2>1, <2>2, AllBut
<1>5. n + 1 \in T
  <2> HIDE DEF T
  <2>1. n + 1 \in 1..(n + 1)
    BY <1>1
  <2>2. QED
    BY <1>4, <2>1
<1>6. PICK g : g = [s \in SUBSET S |-> g[s]] /\ Below(n + 1, g)
  BY <1>5
<1>7. \A s \in SUBSET S : g[s] = SumOf(f, s, g)
  <2> SUFFICES ASSUME NEW s \in SUBSET S PROVE g[s] = SumOf(f, s, g)
      OBVIOUS
  <2>1. Cardinality(s) < n + 1
    BY <1>1
  <2>2. QED
    BY <1>6, <2>1
<1>8. g = [s \in SUBSET S |-> SumOf(f, s, g)]
  BY <1>6, <1>7
<1>9. QED
  BY <1>8 DEF Sums

\* A sum is taken one element at a time.
Adds(f, S, g) ==
    /\ g[{}] = 0
    /\ \A s \in SUBSET S : s # {} => g[s] = f[Taken(s)] + g[s \ {Taken(s)}]

LEMMA SumIs ==
    ASSUME NEW f, IsFiniteSet(DOMAIN f)
    PROVE  \E g : Adds(f, DOMAIN f, g) /\ SumFunction(f) = g[DOMAIN f]
<1> DEFINE g == CHOOSE g : Sums(f, g)
<1>1. Sums(f, g)
  BY SumExists
<1>2. SumFunction(f) = g[DOMAIN f]
  BY DEF SumFunction, SumFunctionOnSet, FoldFunctionOnSet, MapThenFoldSet, Sums, SumOf, Taken
<1> HIDE DEF g
<1>3. \A s \in SUBSET DOMAIN f : g[s] = SumOf(f, s, g)
  BY <1>1 DEF Sums
<1>4. g[{}] = 0
  <2>1. {} \in SUBSET DOMAIN f
    OBVIOUS
  <2>2. QED
    BY <1>3, <2>1 DEF SumOf
<1>5. Adds(f, DOMAIN f, g)
  BY <1>3, <1>4 DEF Adds, SumOf
<1>6. QED
  BY <1>2, <1>5

\* The sum of numbers is one, and of zeros is zero.
LEMMA SumTypes ==
    ASSUME NEW S, IsFiniteSet(S), NEW f \in [S -> Int]
    PROVE  /\ SumFunction(f) \in Int
           /\ f \in [S -> Nat] => SumFunction(f) \in Nat
           /\ (\A x \in S : f[x] = 0) => SumFunction(f) = 0
<1>1. PICK g : Adds(f, S, g) /\ SumFunction(f) = g[S]
  BY SumIs
<1> DEFINE T == {s \in SUBSET S : g[s] \in Int /\ (f \in [S -> Nat] => g[s] \in Nat)
                                  /\ ((\A x \in S : f[x] = 0) => g[s] = 0)}
<1>2. {} \in T
  <2>1. g[{}] = 0
    BY <1>1 DEF Adds
  <2>2. QED
    BY <2>1
<1>3. ASSUME NEW s \in SUBSET S, s # {}, s \ {Taken(s)} \in T PROVE s \in T
  <2>1. Taken(s) \in S /\ g[s] = f[Taken(s)] + g[s \ {Taken(s)}]
    BY <1>1, <1>3 DEF Adds, Taken
  <2>2. QED
    BY <1>3, <2>1
<1>4. T = SUBSET S
  <2> HIDE DEF T
  <2>1. T \in SUBSET SUBSET S
    BY DEF T
  <2>2. QED
    BY <1>2, <1>3, <2>1, SubsetsAll
<1>5. QED
  BY <1>1, <1>4

\* The sum of what two functions have together is that of their sums.
LEMMA SumAdds ==
    ASSUME NEW S, IsFiniteSet(S), NEW f \in [S -> Int], NEW d \in [S -> Int], NEW h \in [S -> Int],
           \A x \in S : h[x] = f[x] + d[x]
    PROVE  SumFunction(h) = SumFunction(f) + SumFunction(d)
<1>1. PICK gf : Adds(f, S, gf) /\ SumFunction(f) = gf[S]
  BY SumIs
<1>2. PICK gd : Adds(d, S, gd) /\ SumFunction(d) = gd[S]
  BY SumIs
<1>3. PICK gh : Adds(h, S, gh) /\ SumFunction(h) = gh[S]
  BY SumIs
<1> DEFINE T == {s \in SUBSET S : gf[s] \in Int /\ gd[s] \in Int /\ gh[s] = gf[s] + gd[s]}
<1>4. {} \in T
  <2>1. gf[{}] = 0 /\ gd[{}] = 0 /\ gh[{}] = 0
    BY <1>1, <1>2, <1>3 DEF Adds
  <2>2. QED
    BY <2>1
<1>5. ASSUME NEW s \in SUBSET S, s # {}, s \ {Taken(s)} \in T PROVE s \in T
  <2>1. /\ Taken(s) \in S
        /\ gf[s] = f[Taken(s)] + gf[s \ {Taken(s)}]
        /\ gd[s] = d[Taken(s)] + gd[s \ {Taken(s)}]
        /\ gh[s] = h[Taken(s)] + gh[s \ {Taken(s)}]
    BY <1>1, <1>2, <1>3, <1>5 DEF Adds, Taken
  <2>2. QED
    BY <1>5, <2>1
<1>6. T = SUBSET S
  <2> HIDE DEF T
  <2>1. T \in SUBSET SUBSET S
    BY DEF T
  <2>2. QED
    BY <1>4, <1>5, <2>1, SubsetsAll
<1>7. QED
  BY <1>1, <1>2, <1>3, <1>6

\* The sum of ones and zeros is the number of the ones.
LEMMA SumCounts ==
    ASSUME NEW S, IsFiniteSet(S), NEW f \in [S -> {0, 1}]
    PROVE  SumFunction(f) = Cardinality({x \in S : f[x] = 1})
<1>1. PICK g : Adds(f, S, g) /\ SumFunction(f) = g[S]
  BY SumIs
<1> DEFINE Ones(s) == {x \in s : f[x] = 1}
           T == {s \in SUBSET S : g[s] = Cardinality(Ones(s))}
<1>2. {} \in T
  <2>1. g[{}] = 0
    BY <1>1 DEF Adds
  <2>2. Ones({}) = {} /\ Cardinality({}) = 0
    BY FS_EmptySet
  <2>3. QED
    BY <2>1, <2>2
<1>3. ASSUME NEW s \in SUBSET S, s # {}, s \ {Taken(s)} \in T PROVE s \in T
  <2> DEFINE x == Taken(s)
             rest == s \ {x}
  <2>1. x \in s /\ rest \in SUBSET S /\ g[s] = f[x] + g[rest]
    BY <1>1, <1>3 DEF Adds, Taken
  <2>2. g[rest] = Cardinality(Ones(rest)) /\ IsFiniteSet(Ones(rest)) /\ Cardinality(Ones(rest)) \in Nat
    BY <1>3, <2>1, FS_Subset, FS_CardinalityType
  <2> HIDE DEF x, rest
  <2>3. CASE f[x] = 1
    <3>1. Ones(s) = Ones(rest) \cup {x} /\ x \notin Ones(rest)
      BY <2>1, <2>3 DEF rest
    <3>2. Cardinality(Ones(s)) = Cardinality(Ones(rest)) + 1
      BY <2>2, <3>1, FS_AddElement
    <3>3. g[s] = Cardinality(Ones(s))
      BY <2>1, <2>2, <2>3, <3>2
    <3>4. QED
      BY <3>3
  <2>4. CASE f[x] = 0
    <3>1. Ones(s) = Ones(rest)
      BY <2>1, <2>4 DEF rest
    <3>2. g[s] = Cardinality(Ones(s))
      BY <2>1, <2>2, <2>4, <3>1
    <3>3. QED
      BY <3>2
  <2>5. QED
    BY <2>1, <2>3, <2>4
<1>4. T = SUBSET S
  <2> HIDE DEF T
  <2>1. T \in SUBSET SUBSET S
    BY DEF T
  <2>2. QED
    BY <1>2, <1>3, <2>1, SubsetsAll
<1>5. QED
  BY <1>1, <1>4

\* A sum in which only one place changes.
LEMMA SumChanges ==
    ASSUME NEW S, IsFiniteSet(S), NEW f \in [S -> Int], NEW h \in [S -> Int], NEW t \in S,
           \A x \in S \ {t} : h[x] = f[x]
    PROVE  SumFunction(h) = SumFunction(f) + (h[t] - f[t])
<1>1. PICK gf : Adds(f, S, gf) /\ SumFunction(f) = gf[S]
  BY SumIs
<1>2. PICK gh : Adds(h, S, gh) /\ SumFunction(h) = gh[S]
  BY SumIs
<1> DEFINE T == {s \in SUBSET S : gf[s] \in Int /\ gh[s] = gf[s] + (IF t \in s THEN h[t] - f[t] ELSE 0)}
<1>3. {} \in T
  <2>1. gf[{}] = 0 /\ gh[{}] = 0
    BY <1>1, <1>2 DEF Adds
  <2>2. QED
    BY <2>1
<1>4. ASSUME NEW s \in SUBSET S, s # {}, s \ {Taken(s)} \in T PROVE s \in T
  <2>1. /\ Taken(s) \in s /\ Taken(s) \in S
        /\ gf[s] = f[Taken(s)] + gf[s \ {Taken(s)}]
        /\ gh[s] = h[Taken(s)] + gh[s \ {Taken(s)}]
    BY <1>1, <1>2, <1>4 DEF Adds, Taken
  <2>2. CASE Taken(s) = t
    BY <1>4, <2>1, <2>2
  <2>3. CASE Taken(s) # t
    BY <1>4, <2>1, <2>3
  <2>4. QED
    BY <2>2, <2>3
<1>5. T = SUBSET S
  <2> HIDE DEF T
  <2>1. T \in SUBSET SUBSET S
    BY DEF T
  <2>2. QED
    BY <1>3, <1>4, <2>1, SubsetsAll
<1>6. QED
  BY <1>1, <1>2, <1>5

-----------------------------------------------------------------------------
(* The logger *)

\* What dispatch decides with is well typed.
RatesTyped ==
    /\ now \in Int /\ epoch \in Int
    /\ event \in [LogThreads -> Events] /\ stamp \in [LogThreads -> Int]
    /\ rates \in [Events -> [ever : BOOLEAN, last : Int, suppressed : Nat]]
    /\ dispatched \in [Events -> Int]
    /\ passed \in [Events -> SUBSET (Int \X Int \X Int)]

\* The rate remembers the latest time stamp let through since the rates were cleared.
LastIsLatest ==
    \A e \in Events : \A p \in passed[e] :
        /\ p[1] <= epoch
        /\ p[1] = epoch => rates[e].ever /\ p[2] <= rates[e].last

RateInv == RatesTyped /\ LastIsLatest /\ OnePerWindow

\* Clearing the rates starts an epoch that nothing has been let through in.
LEMMA ClearKeeps ==
    ASSUME RateInv, rates' = [e \in Events |-> NoRate], epoch' = epoch + 1,
           UNCHANGED <<now, event, stamp, dispatched, passed>>
    PROVE  RateInv'
<1>1. RatesTyped'
  BY DEF RateInv, RatesTyped, NoRate
<1>2. LastIsLatest'
  <2> SUFFICES ASSUME NEW e \in Events, NEW p \in passed[e]
               PROVE  p[1] <= epoch' /\ p[1] # epoch'
      BY DEF LastIsLatest
  <2>1. p[1] <= epoch /\ p[1] \in Int /\ epoch \in Int
    BY DEF RateInv, LastIsLatest, RatesTyped
  <2>2. QED
    BY <2>1
<1>3. OnePerWindow'
  BY DEF RateInv, OnePerWindow
<1>4. QED
  BY <1>1, <1>2, <1>3 DEF RateInv

\* A record is let through a window after the last one, which was the latest.
LEMMA PassKeeps ==
    ASSUME RateInv, NEW t \in LogThreads, DispatchPassed(t)
    PROVE  RateInv'
<1> USE LoggerAssumption
<1> DEFINE e0 == event[t]
           new == <<epoch, stamp[t], dispatched[e0]>>
<1>1. /\ e0 \in Events /\ stamp[t] \in Int /\ epoch \in Int /\ dispatched[e0] \in Int
      /\ new \in Int \X Int \X Int
  BY DEF RateInv, RatesTyped
<1>2. /\ rates' = [rates EXCEPT ![e0] = RateAfter(e0, stamp[t])]
      /\ passed' = [passed EXCEPT ![e0] = passed[e0] \cup {new}]
      /\ dispatched' = [dispatched EXCEPT ![e0] = dispatched[e0] + 1]
      /\ UNCHANGED <<now, epoch, event, stamp>> /\ OpensWindow(t)
  BY DEF DispatchPassed
<1>3. \A p \in passed[e0] :
        p[1] = epoch => p[2] \in Int /\ stamp[t] - p[2] >= RateWindow /\ p[2] <= stamp[t]
  <2> SUFFICES ASSUME NEW p \in passed[e0], p[1] = epoch
               PROVE  p[2] \in Int /\ stamp[t] - p[2] >= RateWindow /\ p[2] <= stamp[t]
      OBVIOUS
  <2>1. rates[e0].ever /\ p[2] <= rates[e0].last
    BY <1>1 DEF RateInv, LastIsLatest
  <2>2. p[2] \in Int /\ rates[e0].last \in Int
    BY <1>1 DEF RateInv, RatesTyped
  <2>3. stamp[t] - rates[e0].last >= RateWindow
    BY <1>2, <2>1 DEF OpensWindow
  <2>4. QED
    BY <1>1, <2>1, <2>2, <2>3
<1>4. RatesTyped'
  BY <1>1, <1>2 DEF RateInv, RatesTyped, RateAfter
<1>5. LastIsLatest'
  <2> SUFFICES ASSUME NEW e \in Events, NEW p \in passed'[e]
               PROVE  p[1] <= epoch /\ (p[1] = epoch => rates'[e].ever /\ p[2] <= rates'[e].last)
      BY <1>2 DEF LastIsLatest
  <2>1. CASE e # e0
    BY <1>2, <2>1 DEF RateInv, RatesTyped, LastIsLatest
  <2>2. CASE e = e0
    <3>1. rates'[e].ever /\ rates'[e].last = stamp[t]
      BY <1>1, <1>2, <2>2 DEF RateInv, RatesTyped, RateAfter
    <3>2. p \in passed[e0] \/ p = new
      BY <1>1, <1>2, <2>2 DEF RateInv, RatesTyped
    <3>3. CASE p \in passed[e0]
      BY <1>1, <1>3, <3>1, <3>3 DEF RateInv, LastIsLatest
    <3>4. CASE p = new
      BY <1>1, <3>1, <3>4
    <3>5. QED
      BY <3>2, <3>3, <3>4
  <2>3. QED
    BY <2>1, <2>2
<1>6. OnePerWindow'
  <2> SUFFICES ASSUME NEW e \in Events, NEW p \in passed'[e], NEW q \in passed'[e],
                      p # q, p[1] = q[1]
               PROVE  p[2] - q[2] >= RateWindow \/ q[2] - p[2] >= RateWindow
      BY DEF OnePerWindow
  <2>1. CASE e # e0 \/ (p \in passed[e0] /\ q \in passed[e0])
    BY <1>1, <1>2, <2>1 DEF RateInv, RatesTyped, OnePerWindow
  <2>2. CASE e = e0 /\ p = new
    <3>1. q \in passed[e0] /\ q[1] = epoch /\ p[2] = stamp[t]
      BY <1>1, <1>2, <2>2 DEF RateInv, RatesTyped
    <3>2. QED
      BY <1>3, <3>1
  <2>3. CASE e = e0 /\ q = new
    <3>1. p \in passed[e0] /\ p[1] = epoch /\ q[2] = stamp[t]
      BY <1>1, <1>2, <2>3 DEF RateInv, RatesTyped
    <3>2. QED
      BY <1>3, <3>1
  <2>4. QED
    BY <1>1, <1>2, <2>1, <2>2, <2>3 DEF RateInv, RatesTyped
<1>7. QED
  BY <1>4, <1>5, <1>6 DEF RateInv

\* Every step keeps the latest time stamp remembered.
LEMMA RateStep ==
    ASSUME RateInv, [LoggerNext]_loggerVars
    PROVE  RateInv'
<1> USE LoggerAssumption DEF threadVars, sinkVars, loggerHistory
<1>1. CASE ClockMoves
  BY <1>1 DEF ClockMoves, ClockTimes, RateInv, RatesTyped, LastIsLatest, OnePerWindow
<1>2. CASE InitLogger
  BY <1>2, ClearKeeps DEF InitLogger
<1>3. ASSUME NEW t \in LogThreads, NEW e \in Events, Call(t, e) \/ DrainLock(t, e) PROVE RateInv'
  BY <1>3 DEF Call, DrainLock, RateInv, RatesTyped, LastIsLatest, OnePerWindow
<1>4. ASSUME NEW t \in LogThreads, Stamp(t) PROVE RateInv'
  BY <1>4 DEF Stamp, RateInv, RatesTyped, LastIsLatest, OnePerWindow
<1>5. ASSUME NEW t \in LogThreads, DispatchUnlimited(t) PROVE RateInv'
  BY <1>5 DEF DispatchUnlimited, RateInv, RatesTyped, LastIsLatest, OnePerWindow
<1>6. ASSUME NEW t \in LogThreads, DispatchSuppressed(t) PROVE RateInv'
  <2>1. /\ UNCHANGED <<now, epoch, event, stamp, passed>> /\ event[t] \in Events
        /\ rates' = [rates EXCEPT ![event[t]].suppressed = @ + 1]
        /\ dispatched' = [dispatched EXCEPT ![event[t]] = @ + 1]
    BY <1>6 DEF DispatchSuppressed, RateInv, RatesTyped
  <2>2. RatesTyped'
    BY <2>1 DEF RateInv, RatesTyped
  <2>3. \A e \in Events : rates'[e].ever = rates[e].ever /\ rates'[e].last = rates[e].last
    BY <2>1 DEF RateInv, RatesTyped
  <2>4. LastIsLatest' /\ OnePerWindow'
    BY <2>1, <2>3 DEF RateInv, LastIsLatest, OnePerWindow
  <2>5. QED
    BY <2>2, <2>4 DEF RateInv
<1>7. ASSUME NEW t \in LogThreads, DispatchPassed(t) PROVE RateInv'
  BY <1>7, PassKeeps
<1>8. ASSUME NEW t \in LogThreads, Retire(t) PROVE RateInv'
  BY <1>8, ClearKeeps DEF Retire
<1>9. ASSUME NEW t \in LogThreads,
             LockSink(t) \/ WriteSummary(t) \/ WriteRecord(t) \/ Shutdown(t)
               \/ DrainWrite(t) \/ Flush(t)
      PROVE  RateInv'
  BY <1>9 DEF LockSink, WriteSummary, WriteRecord, Shutdown, DrainWrite, Flush,
              RateInv, RatesTyped, LastIsLatest, OnePerWindow
<1>10. CASE UNCHANGED loggerVars
  BY <1>10 DEF loggerVars, RateInv, RatesTyped, LastIsLatest, OnePerWindow
<1>11. QED
  BY <1>1, <1>2, <1>3, <1>4, <1>5, <1>6, <1>7, <1>8, <1>9, <1>10 DEF LoggerNext

LEMMA RateStarts ==
    ASSUME LoggerInit PROVE RateInv
<1>1. (CHOOSE e \in Events : TRUE) \in Events
  BY LoggerAssumption
<1>2. QED
  BY <1>1, LoggerAssumption DEF LoggerInit, NoRate, NoCounts, RateInv, RatesTyped, LastIsLatest, OnePerWindow

\* The counts, and where each thread is.
ReportsTyped ==
    /\ logPc \in [LogThreads -> Writing \cup {"idle", "checked", "stamped", "report",
                                              "emit", "retire", "drain"}]
    /\ summary \in [LogThreads -> Nat] /\ pending \in [LogThreads -> [Events -> Nat]]
    /\ logged \in [Events -> Int] /\ told \in [Events -> Int] /\ forgotten \in [Events -> Int]

\* Only a thread on its way to report a count holds one.
ReportersHold ==
    \A t \in LogThreads :
        /\ logPc[t] \notin {"report", "reporting"} => summary[t] = 0
        /\ logPc[t] \notin {"drain", "draining"} => \A e \in Events : pending[t][e] = 0

\* The sink is written to by the holder of its mutex.
WriterHolds ==
    /\ lock \in LogThreads \cup {NoThread}
    /\ \A t \in LogThreads : logPc[t] \in Writing <=> lock = t

\* Since the logger retired with no record under way, one shutdown at most drains, it alone
\* writes, and it has yet to flush.
QuietDrain ==
    retired /\ quiet =>
        /\ \A t \in LogThreads : logPc[t] \in {"idle", "retire", "drain", "draining"}
        /\ \A s, t \in LogThreads :
             logPc[s] \in {"drain", "draining"} /\ logPc[t] \in {"drain", "draining"} => s = t
        /\ \A e \in Events : rates[e].suppressed = 0
        /\ dirty => \E t \in LogThreads : logPc[t] \in {"drain", "draining"}

ReportInv == ReportsTyped /\ ReportersHold /\ WriterHolds
LoggerInv == RateInv /\ ReportInv /\ BooksBalance /\ QuietDrain

\* What thread t has of e to report, and whether a record of e waits there to be written.
Owes(t, e) == pending[t][e] + IF event[t] = e THEN summary[t] ELSE 0
Waits(t, e) == IF t \in Emitting(e) THEN 1 ELSE 0

\* A step that touches one thread changes what is on its way by that thread's share.
LEMMA SharesChange ==
    ASSUME RatesTyped, RatesTyped', ReportsTyped, ReportsTyped', NEW t \in LogThreads, NEW e \in Events,
           \A s \in LogThreads \ {t} : /\ logPc'[s] = logPc[s] /\ event'[s] = event[s]
                                       /\ summary'[s] = summary[s] /\ pending'[s] = pending[s]
    PROVE  /\ Reporting(e) \in Int /\ Reporting(e)' \in Int
           /\ Owes(t, e) \in Int /\ Owes(t, e)' \in Int
           /\ Reporting(e)' = Reporting(e) + (Owes(t, e)' - Owes(t, e))
           /\ Cardinality(Emitting(e)) \in Int /\ Cardinality(Emitting(e))' \in Int
           /\ Cardinality(Emitting(e))' = Cardinality(Emitting(e)) + (Waits(t, e)' - Waits(t, e))
<1> DEFINE f == [s \in LogThreads |-> Owes(s, e)]
           h == [s \in LogThreads |-> Owes(s, e)']
<1>1. \A s \in LogThreads : Owes(s, e) \in Int /\ Owes(s, e)' \in Int
  BY DEF Owes, RatesTyped, ReportsTyped
<1>2. Reporting(e) = SumFunction(f) /\ Reporting(e)' = SumFunction(h)
  BY DEF Reporting, Owes
<1>3. \A s \in LogThreads \ {t} : Owes(s, e)' = Owes(s, e)
  BY DEF Owes
<1>4. /\ f \in [LogThreads -> Int] /\ h \in [LogThreads -> Int]
      /\ \A s \in LogThreads \ {t} : h[s] = f[s]
      /\ f[t] = Owes(t, e) /\ h[t] = Owes(t, e)'
  BY <1>1, <1>3
<1> HIDE DEF f, h
<1>5. /\ SumFunction(f) \in Int /\ SumFunction(h) \in Int
      /\ SumFunction(h) = SumFunction(f) + (h[t] - f[t])
  BY <1>4, SumTypes, SumChanges, LoggerAssumption
<1>6. /\ IsFiniteSet(Emitting(e)) /\ IsFiniteSet(Emitting(e)')
      /\ Cardinality(Emitting(e)) \in Int /\ Cardinality(Emitting(e))' \in Int
  <2>1. Emitting(e) \subseteq LogThreads /\ Emitting(e)' \subseteq LogThreads
    BY DEF Emitting
  <2>2. QED
    BY <2>1, FS_Subset, FS_CardinalityType, LoggerAssumption
<1>7. Cardinality(Emitting(e))' = Cardinality(Emitting(e)) + (Waits(t, e)' - Waits(t, e))
  <2>1. \A s \in LogThreads \ {t} : s \in Emitting(e)' <=> s \in Emitting(e)
    BY DEF Emitting
  <2>2. Emitting(e) \subseteq LogThreads /\ Emitting(e)' \subseteq LogThreads
    BY DEF Emitting
  <2>3. CASE t \in Emitting(e) /\ t \in Emitting(e)'
    <3>1. Emitting(e)' = Emitting(e)
      BY <2>1, <2>2, <2>3
    <3>2. QED
      BY <1>6, <2>3, <3>1 DEF Waits
  <2>4. CASE t \notin Emitting(e) /\ t \notin Emitting(e)'
    <3>1. Emitting(e)' = Emitting(e)
      BY <2>1, <2>2, <2>4
    <3>2. QED
      BY <1>6, <2>4, <3>1 DEF Waits
  <2>5. CASE t \in Emitting(e) /\ t \notin Emitting(e)'
    <3>1. Emitting(e)' = Emitting(e) \ {t}
      BY <2>1, <2>2, <2>5
    <3>2. Cardinality(Emitting(e)') = Cardinality(Emitting(e)) - 1
      BY <1>6, <2>5, <3>1, FS_RemoveElement
    <3>3. QED
      BY <1>6, <2>5, <3>2 DEF Waits
  <2>6. CASE t \notin Emitting(e) /\ t \in Emitting(e)'
    <3>1. Emitting(e)' = Emitting(e) \cup {t}
      BY <2>1, <2>2, <2>6
    <3>2. Cardinality(Emitting(e)') = Cardinality(Emitting(e)) + 1
      BY <1>6, <2>6, <3>1, FS_AddElement
    <3>3. QED
      BY <1>6, <2>6, <3>2 DEF Waits
  <2>7. QED
    BY <2>3, <2>4, <2>5, <2>6
<1>8. QED
  BY <1>1, <1>2, <1>4, <1>5, <1>6, <1>7

\* The records of e whose way is over, and those counted to be reported.
Accounted(e) == logged[e] + rates[e].suppressed + told[e] + forgotten[e]

\* The types of the terms of the books.
LEMMA BooksTyped ==
    ASSUME RatesTyped, ReportsTyped, NEW e \in Events
    PROVE  /\ dispatched[e] \in Int /\ logged[e] \in Int /\ told[e] \in Int /\ forgotten[e] \in Int
           /\ rates[e].suppressed \in Nat /\ Accounted(e) \in Int
<1>1. /\ dispatched[e] \in Int /\ logged[e] \in Int /\ told[e] \in Int /\ forgotten[e] \in Int
      /\ rates[e].suppressed \in Nat
  BY DEF RatesTyped, ReportsTyped
<1>2. QED
  BY <1>1 DEF Accounted

\* So the books balance after it if that thread's share does.
LEMMA BooksKeep ==
    ASSUME RatesTyped, RatesTyped', ReportsTyped, ReportsTyped', BooksBalance, NEW t \in LogThreads,
           \A s \in LogThreads \ {t} : /\ logPc'[s] = logPc[s] /\ event'[s] = event[s]
                                       /\ summary'[s] = summary[s] /\ pending'[s] = pending[s],
           \A e \in Events :
               dispatched'[e] + Accounted(e) + Waits(t, e) + Owes(t, e)
                 = dispatched[e] + Accounted(e)' + Waits(t, e)' + Owes(t, e)'
    PROVE  BooksBalance'
<1> SUFFICES ASSUME NEW e \in Events
             PROVE  dispatched'[e] = logged'[e] + Cardinality(Emitting(e))' + rates'[e].suppressed
                                       + told'[e] + Reporting(e)' + forgotten'[e]
    BY DEF BooksBalance
<1>1. /\ Reporting(e) \in Int /\ Reporting(e)' \in Int
      /\ Owes(t, e) \in Int /\ Owes(t, e)' \in Int
      /\ Reporting(e)' = Reporting(e) + (Owes(t, e)' - Owes(t, e))
      /\ Cardinality(Emitting(e)) \in Int /\ Cardinality(Emitting(e))' \in Int
      /\ Cardinality(Emitting(e))' = Cardinality(Emitting(e)) + (Waits(t, e)' - Waits(t, e))
  BY SharesChange
<1>2. Waits(t, e) \in Int /\ Waits(t, e)' \in Int
  BY DEF Waits
<1>3. /\ dispatched[e] \in Int /\ logged[e] \in Int /\ told[e] \in Int /\ forgotten[e] \in Int
      /\ rates[e].suppressed \in Int /\ Accounted(e) \in Int
  BY BooksTyped
<1>4. /\ dispatched'[e] \in Int /\ logged'[e] \in Int /\ told'[e] \in Int /\ forgotten'[e] \in Int
      /\ rates'[e].suppressed \in Int /\ Accounted(e)' \in Int
  <2>1. dispatched'[e] \in Int
    BY DEF RatesTyped
  <2>2. logged'[e] \in Int /\ told'[e] \in Int /\ forgotten'[e] \in Int
    BY DEF ReportsTyped
  <2>3. rates'[e].suppressed \in Int
    BY DEF RatesTyped
  <2>4. QED
    BY <2>1, <2>2, <2>3 DEF Accounted
<1>5. dispatched[e] = Accounted(e) + Cardinality(Emitting(e)) + Reporting(e)
  <2>1. dispatched[e] = logged[e] + Cardinality(Emitting(e)) + rates[e].suppressed
                          + told[e] + Reporting(e) + forgotten[e]
    BY DEF BooksBalance
  <2>2. QED
    BY <1>1, <1>3, <2>1 DEF Accounted
<1>6. dispatched'[e] = Accounted(e)' + Cardinality(Emitting(e))' + Reporting(e)'
  <2>1. dispatched'[e] + Accounted(e) + Waits(t, e) + Owes(t, e)
          = dispatched[e] + Accounted(e)' + Waits(t, e)' + Owes(t, e)'
    OBVIOUS
  <2>2. QED
    BY <1>1, <1>2, <1>3, <1>4, <1>5, <2>1
<1>7. QED
  BY <1>1, <1>4, <1>6 DEF Accounted

\* Every step keeps the counts held by the threads that report them and the sink by its writer.
LEMMA ReportStep ==
    ASSUME RateInv, RateInv', ReportInv, [LoggerNext]_loggerVars
    PROVE  ReportInv'
<1> USE LoggerAssumption DEF threadVars, sinkVars, loggerHistory
<1>1. CASE ClockMoves
  BY <1>1 DEF ClockMoves, ReportInv, ReportsTyped, ReportersHold, WriterHolds
<1>2. CASE InitLogger
  <2>1. /\ UNCHANGED <<logPc, summary, pending, lock, logged, told>>
        /\ forgotten' = [e \in Events |-> forgotten[e] + rates[e].suppressed]
    BY <1>2 DEF InitLogger
  <2>2. \A e \in Events : forgotten[e] \in Int /\ rates[e].suppressed \in Int
    BY DEF ReportInv, ReportsTyped, RateInv, RatesTyped
  <2>3. forgotten' \in [Events -> Int]
    BY <2>1, <2>2
  <2>4. QED
    BY <2>1, <2>3 DEF ReportInv, ReportsTyped, ReportersHold, WriterHolds
<1>3. ASSUME NEW t \in LogThreads, NEW e \in Events, Call(t, e) PROVE ReportInv'
  BY <1>3 DEF Call, Goes, ReportInv, ReportsTyped, ReportersHold, WriterHolds, Writing
<1>4. ASSUME NEW t \in LogThreads, NEW e \in Events, DrainLock(t, e) PROVE ReportInv'
  BY <1>4 DEF DrainLock, Goes, ReportInv, ReportsTyped, ReportersHold, WriterHolds, Writing
<1>5. ASSUME NEW t \in LogThreads, Stamp(t) PROVE ReportInv'
  BY <1>5 DEF Stamp, Goes, ReportInv, ReportsTyped, ReportersHold, WriterHolds, Writing
<1>6. ASSUME NEW t \in LogThreads, DispatchUnlimited(t) PROVE ReportInv'
  BY <1>6 DEF DispatchUnlimited, Goes, ReportInv, ReportsTyped, ReportersHold, WriterHolds, Writing
<1>7. ASSUME NEW t \in LogThreads, DispatchSuppressed(t) PROVE ReportInv'
  BY <1>7 DEF DispatchSuppressed, Goes, ReportInv, ReportsTyped, ReportersHold, WriterHolds, Writing
<1>8. ASSUME NEW t \in LogThreads, DispatchPassed(t) PROVE ReportInv'
  <2>1. event[t] \in Events /\ rates[event[t]].suppressed \in Nat
    BY DEF RateInv, RatesTyped
  <2>2. CASE rates[event[t]].suppressed > 0
    BY <1>8, <2>1, <2>2 DEF DispatchPassed, Goes, ReportInv, ReportsTyped, ReportersHold, WriterHolds, Writing
  <2>3. CASE ~(rates[event[t]].suppressed > 0)
    BY <1>8, <2>1, <2>3 DEF DispatchPassed, Goes, ReportInv, ReportsTyped, ReportersHold, WriterHolds, Writing
  <2>4. QED
    BY <2>2, <2>3
<1>9. ASSUME NEW t \in LogThreads, LockSink(t) PROVE ReportInv'
  BY <1>9 DEF LockSink, Goes, ReportInv, ReportsTyped, ReportersHold, WriterHolds, Writing
<1>10. ASSUME NEW t \in LogThreads, WriteSummary(t) PROVE ReportInv'
  <2>1. event[t] \in Events
    BY DEF RateInv, RatesTyped
  <2>2. QED
    BY <1>10, <2>1 DEF WriteSummary, Goes, ReportInv, ReportsTyped, ReportersHold, WriterHolds, Writing
<1>11. ASSUME NEW t \in LogThreads, WriteRecord(t) PROVE ReportInv'
  <2>1. event[t] \in Events
    BY DEF RateInv, RatesTyped
  <2>2. QED
    BY <1>11, <2>1 DEF WriteRecord, Goes, ReportInv, ReportsTyped, ReportersHold, WriterHolds, Writing
<1>12. ASSUME NEW t \in LogThreads, Shutdown(t) PROVE ReportInv'
  BY <1>12 DEF Shutdown, Goes, ReportInv, ReportsTyped, ReportersHold, WriterHolds, Writing
<1>13. ASSUME NEW t \in LogThreads, Retire(t) PROVE ReportInv'
  <2>1. [e \in Events |-> rates[e].suppressed] \in [Events -> Nat]
    BY DEF RateInv, RatesTyped
  <2>2. QED
    BY <1>13, <2>1 DEF Retire, Goes, ReportInv, ReportsTyped, ReportersHold, WriterHolds, Writing
<1>14. ASSUME NEW t \in LogThreads, DrainWrite(t) PROVE ReportInv'
  <2>1. event[t] \in Events
    BY DEF RateInv, RatesTyped
  <2>2. QED
    BY <1>14, <2>1 DEF DrainWrite, Goes, ReportInv, ReportsTyped, ReportersHold, WriterHolds, Writing
<1>15. ASSUME NEW t \in LogThreads, Flush(t) PROVE ReportInv'
  BY <1>15 DEF Flush, Goes, ReportInv, ReportsTyped, ReportersHold, WriterHolds, Writing, NoCounts
<1>16. CASE UNCHANGED loggerVars
  BY <1>16 DEF loggerVars, ReportInv, ReportsTyped, ReportersHold, WriterHolds
<1>17. QED
  BY <1>1, <1>2, <1>3, <1>4, <1>5, <1>6, <1>7, <1>8, <1>9, <1>10, <1>11, <1>12, <1>13, <1>14,
     <1>15, <1>16 DEF LoggerNext

\* A step that moves one thread on without a record or a count changing hands.
LEMMA BooksStay ==
    ASSUME RatesTyped, RatesTyped', ReportsTyped, ReportsTyped', BooksBalance, NEW t \in LogThreads,
           UNCHANGED <<dispatched, logged, told, forgotten, rates, pending, summary>>,
           \A s \in LogThreads \ {t} : logPc'[s] = logPc[s] /\ event'[s] = event[s],
           event'[t] = event[t] \/ summary[t] = 0,
           \/ logPc[t] \in {"report", "emit"} /\ logPc'[t] \in {"reporting", "emitting"} /\ event'[t] = event[t]
           \/ {logPc[t], logPc'[t]} \cap {"report", "reporting", "emit", "emitting"} = {}
    PROVE  BooksBalance'
<1>1. ASSUME NEW e \in Events
      PROVE  dispatched'[e] + Accounted(e) + Waits(t, e) + Owes(t, e)
               = dispatched[e] + Accounted(e)' + Waits(t, e)' + Owes(t, e)'
  <2>1. dispatched'[e] = dispatched[e] /\ Accounted(e)' = Accounted(e)
    BY DEF Accounted
  <2>2. Waits(t, e)' = Waits(t, e)
    BY DEF Waits, Emitting
  <2>3. Owes(t, e)' = Owes(t, e)
    BY DEF Owes, ReportsTyped
  <2>4. QED
    BY <2>1, <2>2, <2>3
<1>2. QED
  BY <1>1, BooksKeep

\* A record that passes the facade is counted in its event's rate or goes on to be written,
\* with the count it has to report.
LEMMA DispatchBooks ==
    ASSUME RatesTyped, RatesTyped', ReportInv, ReportsTyped', BooksBalance, NEW t \in LogThreads,
           DispatchUnlimited(t) \/ DispatchSuppressed(t) \/ DispatchPassed(t)
    PROVE  BooksBalance'
<1> DEFINE e0 == event[t]
<1>1. e0 \in Events /\ logPc[t] = "stamped" /\ summary[t] = 0
  BY DEF DispatchUnlimited, DispatchSuppressed, DispatchPassed, Goes, ReportInv, ReportersHold, RatesTyped
<1>2. /\ UNCHANGED <<event, pending, logged, told, forgotten>>
      /\ \A s \in LogThreads \ {t} : logPc'[s] = logPc[s] /\ summary'[s] = summary[s]
      /\ dispatched' = [dispatched EXCEPT ![e0] = dispatched[e0] + 1]
  BY DEF DispatchUnlimited, DispatchSuppressed, DispatchPassed, Goes, ReportInv, ReportsTyped, sinkVars
<1>3. ASSUME NEW e \in Events
      PROVE  dispatched'[e] + Accounted(e) + Waits(t, e) + Owes(t, e)
               = dispatched[e] + Accounted(e)' + Waits(t, e)' + Owes(t, e)'
  <2>1. dispatched'[e] = IF e = e0 THEN dispatched[e] + 1 ELSE dispatched[e]
    BY <1>1, <1>2 DEF RatesTyped
  <2>2. Waits(t, e) = 0 /\ Owes(t, e) = pending[t][e] /\ pending[t][e] \in Int
    BY <1>1 DEF Waits, Emitting, Owes, ReportInv, ReportsTyped
  <2>3. /\ dispatched[e] \in Int /\ logged[e] \in Int /\ told[e] \in Int /\ forgotten[e] \in Int
        /\ rates[e].suppressed \in Nat /\ Accounted(e) \in Int
    BY BooksTyped DEF ReportInv
  <2>4. Accounted(e)' = logged[e] + rates'[e].suppressed + told[e] + forgotten[e]
    BY <1>2 DEF Accounted
  <2>5. CASE e # e0
    <3>1. rates'[e] = rates[e]
      BY <1>1, <2>5 DEF DispatchUnlimited, DispatchSuppressed, DispatchPassed, RatesTyped
    <3>2. Waits(t, e)' = 0 /\ Owes(t, e)' = pending[t][e]
      BY <1>2, <2>2, <2>5 DEF Waits, Emitting, Owes
    <3>3. QED
      BY <2>1, <2>2, <2>3, <2>4, <2>5, <3>1, <3>2 DEF Accounted
  <2>6. CASE e = e0 /\ DispatchUnlimited(t)
    <3>1. rates'[e] = rates[e]
      BY <2>6 DEF DispatchUnlimited
    <3>2. Waits(t, e)' = 1
      BY <1>2, <2>6 DEF DispatchUnlimited, Goes, Waits, Emitting, ReportInv, ReportsTyped
    <3>3. Owes(t, e)' = pending[t][e]
      BY <1>1, <1>2, <2>2, <2>6 DEF DispatchUnlimited, Owes
    <3>4. QED
      BY <2>1, <2>2, <2>3, <2>4, <2>6, <3>1, <3>2, <3>3 DEF Accounted
  <2>7. CASE e = e0 /\ DispatchSuppressed(t)
    <3>1. rates'[e].suppressed = rates[e].suppressed + 1
      BY <1>1, <2>7 DEF DispatchSuppressed, RatesTyped
    <3>2. Waits(t, e)' = 0
      BY <1>2, <2>7 DEF DispatchSuppressed, Goes, Waits, Emitting, ReportInv, ReportsTyped
    <3>3. Owes(t, e)' = pending[t][e]
      BY <1>1, <1>2, <2>2, <2>7 DEF DispatchSuppressed, Owes
    <3>4. QED
      BY <2>1, <2>2, <2>3, <2>4, <2>7, <3>1, <3>2, <3>3 DEF Accounted
  <2>8. CASE e = e0 /\ DispatchPassed(t)
    <3>1. rates'[e].suppressed = 0
      BY <1>1, <2>8 DEF DispatchPassed, RateAfter, RatesTyped
    <3>2. Waits(t, e)' = 1
      BY <1>1, <1>2, <2>8 DEF DispatchPassed, Goes, Waits, Emitting, ReportInv, ReportsTyped
    <3>3. summary'[t] = rates[e].suppressed
      BY <2>8 DEF DispatchPassed, ReportInv, ReportsTyped
    <3>4. Owes(t, e)' = pending[t][e] + rates[e].suppressed
      BY <1>2, <2>8, <3>3 DEF Owes
    <3>5. QED
      BY <2>1, <2>2, <2>3, <2>4, <2>8, <3>1, <3>2, <3>4 DEF Accounted
  <2>9. QED
    BY <2>5, <2>6, <2>7, <2>8
<1>4. \A s \in LogThreads \ {t} : event'[s] = event[s] /\ pending'[s] = pending[s]
  BY <1>2
<1>5. QED
  BY <1>2, <1>3, <1>4, BooksKeep DEF ReportInv

\* What a write adds to the sink's counts was on its way, or counted for shutdown to report.
LEMMA WriteBooks ==
    ASSUME RatesTyped, RatesTyped', ReportInv, ReportsTyped', BooksBalance, NEW t \in LogThreads,
           WriteSummary(t) \/ WriteRecord(t) \/ DrainWrite(t)
    PROVE  BooksBalance'
<1> DEFINE e0 == event[t]
<1>1. /\ e0 \in Events /\ UNCHANGED <<event, dispatched, rates, forgotten>>
      /\ \A s \in LogThreads \ {t} : /\ logPc'[s] = logPc[s] /\ summary'[s] = summary[s]
                                     /\ event'[s] = event[s] /\ pending'[s] = pending[s]
  BY DEF WriteSummary, WriteRecord, DrainWrite, Goes, RatesTyped, ReportInv, ReportsTyped, loggerHistory
<1>2. ASSUME NEW e \in Events
      PROVE  dispatched'[e] + Accounted(e) + Waits(t, e) + Owes(t, e)
               = dispatched[e] + Accounted(e)' + Waits(t, e)' + Owes(t, e)'
  <2>1. /\ dispatched[e] \in Int /\ logged[e] \in Int /\ told[e] \in Int /\ forgotten[e] \in Int
        /\ rates[e].suppressed \in Nat /\ Accounted(e) \in Int
    BY BooksTyped DEF ReportInv
  <2>2. /\ Accounted(e)' = logged'[e] + rates[e].suppressed + told'[e] + forgotten[e]
        /\ dispatched'[e] = dispatched[e]
    BY <1>1 DEF Accounted
  <2>3. pending[t][e] \in Nat /\ summary[t] \in Nat
    BY DEF ReportInv, ReportsTyped
  <2>4. CASE WriteSummary(t)
    <3>1. Waits(t, e)' = Waits(t, e) /\ Waits(t, e) \in Int
      BY <1>1, <2>4 DEF WriteSummary, Goes, Waits, Emitting, ReportInv, ReportsTyped
    <3>2. Owes(t, e)' = pending[t][e]
      BY <1>1, <2>3, <2>4 DEF WriteSummary, Owes, ReportInv, ReportsTyped
    <3>3. Owes(t, e) = pending[t][e] + IF e = e0 THEN summary[t] ELSE 0
      BY DEF Owes
    <3>4. logged'[e] = logged[e] /\ told'[e] = told[e] + IF e = e0 THEN summary[t] ELSE 0
      BY <1>1, <2>1, <2>4 DEF WriteSummary, ReportInv, ReportsTyped
    <3>5. QED
      BY <2>1, <2>2, <2>3, <3>1, <3>2, <3>3, <3>4 DEF Accounted
  <2>5. CASE WriteRecord(t)
    <3>1. /\ Waits(t, e)' = 0
          /\ Waits(t, e) = IF e = e0 THEN 1 ELSE 0
      BY <1>1, <2>5 DEF WriteRecord, Goes, Waits, Emitting, ReportInv, ReportsTyped
    <3>2. Owes(t, e)' = Owes(t, e) /\ Owes(t, e) \in Int
      BY <1>1, <2>3, <2>5 DEF WriteRecord, Owes
    <3>3. told'[e] = told[e] /\ logged'[e] = logged[e] + IF e = e0 THEN 1 ELSE 0
      BY <1>1, <2>1, <2>5 DEF WriteRecord, ReportInv, ReportsTyped
    <3>4. QED
      BY <2>1, <2>2, <3>1, <3>2, <3>3 DEF Accounted
  <2>6. CASE DrainWrite(t)
    <3>1. Waits(t, e)' = 0 /\ Waits(t, e) = 0
      BY <1>1, <2>6 DEF DrainWrite, Goes, Waits, Emitting, ReportInv, ReportsTyped
    <3>2. Owes(t, e)' = IF e = e0 THEN 0 ELSE pending[t][e]
      BY <1>1, <2>3, <2>6 DEF DrainWrite, Goes, Owes, ReportInv, ReportsTyped, ReportersHold
    <3>3. Owes(t, e) = pending[t][e]
      BY <2>3, <2>6 DEF DrainWrite, Goes, Owes, ReportInv, ReportersHold
    <3>4. logged'[e] = logged[e] /\ told'[e] = told[e] + IF e = e0 THEN pending[t][e] ELSE 0
      BY <1>1, <2>1, <2>6 DEF DrainWrite, ReportInv, ReportsTyped
    <3>5. QED
      BY <2>1, <2>2, <2>3, <3>1, <3>2, <3>3, <3>4 DEF Accounted
  <2>7. QED
    BY <2>4, <2>5, <2>6
<1>3. QED
  BY <1>1, <1>2, BooksKeep DEF ReportInv

\* Retiring, a shutdown takes over the counts of the rates it clears.
LEMMA RetireBooks ==
    ASSUME RatesTyped, RatesTyped', ReportInv, ReportsTyped', BooksBalance, NEW t \in LogThreads, Retire(t)
    PROVE  BooksBalance'
<1>1. /\ UNCHANGED <<event, dispatched, summary, logged, told, forgotten>>
      /\ \A s \in LogThreads \ {t} : logPc'[s] = logPc[s] /\ pending'[s] = pending[s]
  BY DEF Retire, Goes, ReportInv, ReportsTyped, sinkVars
<1>2. ASSUME NEW e \in Events
      PROVE  dispatched'[e] + Accounted(e) + Waits(t, e) + Owes(t, e)
               = dispatched[e] + Accounted(e)' + Waits(t, e)' + Owes(t, e)'
  <2>1. /\ dispatched[e] \in Int /\ logged[e] \in Int /\ told[e] \in Int /\ forgotten[e] \in Int
        /\ rates[e].suppressed \in Nat /\ Accounted(e) \in Int
    BY BooksTyped DEF ReportInv
  <2>2. rates'[e].suppressed = 0
    BY DEF Retire, NoRate
  <2>3. Waits(t, e)' = 0 /\ Waits(t, e) = 0
    BY DEF Retire, Goes, Waits, Emitting, ReportInv, ReportsTyped
  <2>4. summary[t] = 0 /\ pending[t][e] = 0
    BY DEF Retire, Goes, ReportInv, ReportersHold
  <2>5. pending'[t][e] = rates[e].suppressed
    BY DEF Retire, ReportInv, ReportsTyped
  <2>6. Owes(t, e) = 0 /\ Owes(t, e)' = rates[e].suppressed
    BY <1>1, <2>1, <2>4, <2>5 DEF Owes
  <2>7. Accounted(e)' = logged[e] + rates'[e].suppressed + told[e] + forgotten[e]
    BY <1>1 DEF Accounted
  <2>8. QED
    BY <1>1, <2>1, <2>2, <2>3, <2>6, <2>7 DEF Accounted
<1>3. \A s \in LogThreads \ {t} : event'[s] = event[s] /\ summary'[s] = summary[s]
  BY <1>1
<1>4. QED
  BY <1>1, <1>2, <1>3, BooksKeep DEF ReportInv

\* An init counts what it discards.
LEMMA InitBooks ==
    ASSUME RatesTyped, ReportsTyped, BooksBalance, InitLogger
    PROVE  BooksBalance'
<1> SUFFICES ASSUME NEW e \in Events
             PROVE  dispatched'[e] = logged'[e] + Cardinality(Emitting(e))' + rates'[e].suppressed
                                       + told'[e] + Reporting(e)' + forgotten'[e]
    BY DEF BooksBalance
<1>1. UNCHANGED <<logPc, event, summary, pending, logged, told, dispatched>>
  BY DEF InitLogger, threadVars
<1>2. rates'[e].suppressed = 0 /\ forgotten'[e] = forgotten[e] + rates[e].suppressed
  BY DEF InitLogger, NoRate
<1>3. Cardinality(Emitting(e))' = Cardinality(Emitting(e)) /\ Cardinality(Emitting(e)) \in Int
  <2>1. Emitting(e)' = Emitting(e)
    BY <1>1 DEF Emitting
  <2>2. Emitting(e) \subseteq LogThreads
    BY DEF Emitting
  <2>3. QED
    BY <2>1, <2>2, FS_Subset, FS_CardinalityType, LoggerAssumption
<1>4. Reporting(e)' = Reporting(e) /\ Reporting(e) \in Int
  <2> DEFINE f == [s \in LogThreads |-> Owes(s, e)]
  <2>1. f \in [LogThreads -> Int]
    BY DEF Owes, RatesTyped, ReportsTyped
  <2>2. Reporting(e) = SumFunction(f) /\ Reporting(e)' = Reporting(e)
    BY <1>1 DEF Reporting, Owes
  <2> HIDE DEF f
  <2>3. QED
    BY <2>1, <2>2, SumTypes, LoggerAssumption
<1>5. dispatched[e] = logged[e] + Cardinality(Emitting(e)) + rates[e].suppressed
                        + told[e] + Reporting(e) + forgotten[e]
  BY DEF BooksBalance
<1>6. /\ dispatched[e] \in Int /\ logged[e] \in Int /\ told[e] \in Int /\ forgotten[e] \in Int
      /\ rates[e].suppressed \in Nat
  BY BooksTyped
<1>7. QED
  BY <1>1, <1>2, <1>3, <1>4, <1>5, <1>6

\* Every step keeps the books.
LEMMA RecordsStep ==
    ASSUME RateInv, RateInv', ReportInv, ReportInv', BooksBalance, [LoggerNext]_loggerVars
    PROVE  BooksBalance'
<1> USE DEF threadVars, sinkVars, loggerHistory
<1>1. RatesTyped /\ RatesTyped' /\ ReportsTyped /\ ReportsTyped'
  BY DEF RateInv, ReportInv
<1>2. CASE ClockMoves \/ UNCHANGED loggerVars
  BY <1>2 DEF ClockMoves, loggerVars, BooksBalance, Emitting, Reporting
<1>3. CASE InitLogger
  BY <1>1, <1>3, InitBooks
<1>4. ASSUME NEW t \in LogThreads, NEW e \in Events, Call(t, e) PROVE BooksBalance'
  <2>1. /\ summary[t] = 0 /\ logPc[t] = "idle" /\ logPc'[t] = "checked"
        /\ \A s \in LogThreads \ {t} : logPc'[s] = logPc[s] /\ event'[s] = event[s]
    BY <1>1, <1>4 DEF Call, Goes, ReportInv, ReportersHold, ReportsTyped, RatesTyped
  <2>2. UNCHANGED <<dispatched, logged, told, forgotten, rates, pending, summary>>
    BY <1>4 DEF Call
  <2>3. QED
    BY <1>1, <2>1, <2>2, BooksStay
<1>5. ASSUME NEW t \in LogThreads, NEW e \in Events, DrainLock(t, e) PROVE BooksBalance'
  <2>1. /\ summary[t] = 0 /\ logPc[t] = "drain" /\ logPc'[t] = "draining"
        /\ \A s \in LogThreads \ {t} : logPc'[s] = logPc[s] /\ event'[s] = event[s]
    BY <1>1, <1>5 DEF DrainLock, Goes, ReportInv, ReportersHold, ReportsTyped, RatesTyped
  <2>2. UNCHANGED <<dispatched, logged, told, forgotten, rates, pending, summary>>
    BY <1>5 DEF DrainLock
  <2>3. QED
    BY <1>1, <2>1, <2>2, BooksStay
<1>6. ASSUME NEW t \in LogThreads, Stamp(t) \/ Shutdown(t) \/ Flush(t) PROVE BooksBalance'
  <2>1. /\ UNCHANGED <<event, dispatched, logged, told, forgotten, rates, pending, summary>>
        /\ \A s \in LogThreads \ {t} : logPc'[s] = logPc[s]
        /\ {logPc[t], logPc'[t]} \cap {"report", "reporting", "emit", "emitting"} = {}
    BY <1>1, <1>6 DEF Stamp, Shutdown, Flush, Goes, ReportsTyped
  <2>2. QED
    BY <1>1, <2>1, BooksStay
<1>7. ASSUME NEW t \in LogThreads, LockSink(t) PROVE BooksBalance'
  <2>1. /\ UNCHANGED <<event, dispatched, logged, told, forgotten, rates, pending, summary>>
        /\ \A s \in LogThreads \ {t} : logPc'[s] = logPc[s]
        /\ logPc[t] \in {"report", "emit"} /\ logPc'[t] \in {"reporting", "emitting"}
    BY <1>1, <1>7 DEF LockSink, Goes, ReportsTyped
  <2>2. QED
    BY <1>1, <2>1, BooksStay
<1>8. ASSUME NEW t \in LogThreads, DispatchUnlimited(t) \/ DispatchSuppressed(t) \/ DispatchPassed(t)
      PROVE  BooksBalance'
  BY <1>1, <1>8, DispatchBooks
<1>9. ASSUME NEW t \in LogThreads, WriteSummary(t) \/ WriteRecord(t) \/ DrainWrite(t) PROVE BooksBalance'
  BY <1>1, <1>9, WriteBooks
<1>10. ASSUME NEW t \in LogThreads, Retire(t) PROVE BooksBalance'
  BY <1>1, <1>10, RetireBooks
<1>11. QED
  BY <1>2, <1>3, <1>4, <1>5, <1>6, <1>7, <1>8, <1>9, <1>10 DEF LoggerNext

Draining == {"drain", "draining"}

\* Every step of a quiet shutdown leaves the flush to the one that drains.
LEMMA QuietStep ==
    ASSUME RateInv, ReportInv, QuietDrain, [LoggerNext]_loggerVars
    PROVE  QuietDrain'
<1> USE DEF threadVars, sinkVars, loggerHistory
<1> SUFFICES ASSUME retired', quiet'
             PROVE  /\ \A t \in LogThreads : logPc'[t] \in {"idle", "retire", "drain", "draining"}
                    /\ \A s, t \in LogThreads :
                         logPc'[s] \in Draining /\ logPc'[t] \in Draining => s = t
                    /\ \A e \in Events : rates'[e].suppressed = 0
                    /\ dirty' => \E t \in LogThreads : logPc'[t] \in Draining
    BY DEF QuietDrain, Draining
<1>1. ASSUME UNCHANGED <<retired, quiet>>
      PROVE  /\ \A t \in LogThreads : logPc[t] \in {"idle", "retire", "drain", "draining"}
             /\ \A s, t \in LogThreads : logPc[s] \in Draining /\ logPc[t] \in Draining => s = t
             /\ \A e \in Events : rates[e].suppressed = 0
             /\ dirty => \E t \in LogThreads : logPc[t] \in Draining
  BY <1>1 DEF QuietDrain, Draining
<1>2. logPc \in [LogThreads -> Writing \cup {"idle", "checked", "stamped", "report",
                                             "emit", "retire", "drain"}]
  BY DEF ReportInv, ReportsTyped
<1>3. CASE ClockMoves \/ UNCHANGED loggerVars
  <2>1. UNCHANGED <<retired, quiet, logPc, rates, dirty>>
    BY <1>3 DEF ClockMoves, loggerVars
  <2>2. QED
    BY <1>1, <2>1
<1>4. CASE InitLogger
  BY <1>4 DEF InitLogger
<1>5. ASSUME NEW t \in LogThreads, NEW e \in Events, Call(t, e) PROVE FALSE
  BY <1>5 DEF Call
<1>6. ASSUME NEW t \in LogThreads, NEW e \in Events, DrainLock(t, e)
      PROVE  /\ \A s \in LogThreads : logPc'[s] \in {"idle", "retire", "drain", "draining"}
             /\ \A s, r \in LogThreads : logPc'[s] \in Draining /\ logPc'[r] \in Draining => s = r
             /\ \A d \in Events : rates'[d].suppressed = 0
             /\ dirty' => \E s \in LogThreads : logPc'[s] \in Draining
  BY <1>1, <1>2, <1>6 DEF DrainLock, Goes, Draining
<1>7. ASSUME NEW t \in LogThreads,
             \/ Stamp(t) \/ DispatchUnlimited(t) \/ DispatchSuppressed(t) \/ DispatchPassed(t)
             \/ LockSink(t) \/ WriteSummary(t) \/ WriteRecord(t)
      PROVE  FALSE
  BY <1>1, <1>7 DEF Stamp, DispatchUnlimited, DispatchSuppressed, DispatchPassed, LockSink,
                    WriteSummary, WriteRecord, Goes
<1>8. ASSUME NEW t \in LogThreads, Shutdown(t)
      PROVE  /\ \A s \in LogThreads : logPc'[s] \in {"idle", "retire", "drain", "draining"}
             /\ \A s, r \in LogThreads : logPc'[s] \in Draining /\ logPc'[r] \in Draining => s = r
             /\ \A d \in Events : rates'[d].suppressed = 0
             /\ dirty' => \E s \in LogThreads : logPc'[s] \in Draining
  BY <1>1, <1>2, <1>8 DEF Shutdown, Goes, Draining
<1>9. ASSUME NEW t \in LogThreads, Retire(t)
      PROVE  /\ \A s \in LogThreads : logPc'[s] \in {"idle", "retire", "drain", "draining"}
             /\ \A s, r \in LogThreads : logPc'[s] \in Draining /\ logPc'[r] \in Draining => s = r
             /\ \A d \in Events : rates'[d].suppressed = 0
             /\ dirty' => \E s \in LogThreads : logPc'[s] \in Draining
  <2>1. \A s \in LogThreads \ {t} : logPc'[s] = logPc[s] /\ logPc[s] \in {"idle", "retire"}
    BY <1>2, <1>9 DEF Retire, Goes
  <2>2. logPc'[t] = "drain"
    BY <1>2, <1>9 DEF Retire, Goes
  <2>3. \A d \in Events : rates'[d].suppressed = 0
    BY <1>9 DEF Retire, NoRate
  <2>4. QED
    BY <2>1, <2>2, <2>3 DEF Draining
<1>10. ASSUME NEW t \in LogThreads, DrainWrite(t)
      PROVE  /\ \A s \in LogThreads : logPc'[s] \in {"idle", "retire", "drain", "draining"}
             /\ \A s, r \in LogThreads : logPc'[s] \in Draining /\ logPc'[r] \in Draining => s = r
             /\ \A d \in Events : rates'[d].suppressed = 0
             /\ dirty' => \E s \in LogThreads : logPc'[s] \in Draining
  BY <1>1, <1>2, <1>10 DEF DrainWrite, Goes, Draining
<1>11. ASSUME NEW t \in LogThreads, Flush(t)
      PROVE  /\ \A s \in LogThreads : logPc'[s] \in {"idle", "retire", "drain", "draining"}
             /\ \A s, r \in LogThreads : logPc'[s] \in Draining /\ logPc'[r] \in Draining => s = r
             /\ \A d \in Events : rates'[d].suppressed = 0
             /\ dirty' => \E s \in LogThreads : logPc'[s] \in Draining
  <2>1. \A s \in LogThreads \ {t} : logPc'[s] = logPc[s] /\ logPc[s] \in {"idle", "retire"}
    BY <1>1, <1>2, <1>11 DEF Flush, Goes, Draining
  <2>2. logPc[t] = "drain" /\ logPc'[t] = "idle" /\ UNCHANGED rates
    BY <1>2, <1>11 DEF Flush, Goes
  <2>3. lock = NoThread
    <3>1. lock \in LogThreads \cup {NoThread}
      BY DEF ReportInv, WriterHolds
    <3>2. \A s \in LogThreads : lock = s => logPc[s] \in Writing
      BY DEF ReportInv, WriterHolds
    <3>3. QED
      BY <2>1, <2>2, <3>1, <3>2 DEF Writing
  <2>4. dirty' = FALSE
    BY <1>11, <2>3 DEF Flush
  <2>5. QED
    BY <1>1, <1>11, <2>1, <2>2, <2>4 DEF Flush, Draining
<1>12. QED
  BY <1>3, <1>4, <1>5, <1>6, <1>7, <1>8, <1>9, <1>10, <1>11 DEF LoggerNext

\* At rest after a quiet shutdown, nothing is on its way.
LEMMA QuietEnds ==
    ASSUME LoggerInv PROVE QuietShutdownComplete
<1> SUFFICES ASSUME retired, quiet, \A t \in LogThreads : logPc[t] = "idle"
             PROVE  /\ ~dirty
                    /\ \A e \in Events : rates[e].suppressed = 0
                    /\ \A e \in Events : dispatched[e] = logged[e] + told[e] + forgotten[e]
    BY DEF QuietShutdownComplete
<1>1. ~dirty /\ \A e \in Events : rates[e].suppressed = 0
  BY DEF LoggerInv, QuietDrain
<1>2. ASSUME NEW e \in Events PROVE dispatched[e] = logged[e] + told[e] + forgotten[e]
  <2>1. Cardinality(Emitting(e)) = 0
    <3>1. Emitting(e) = {}
      BY DEF Emitting
    <3>2. QED
      BY <3>1, FS_EmptySet
  <2>2. Reporting(e) = 0
    <3> DEFINE f == [t \in LogThreads |-> Owes(t, e)]
    <3>1. \A t \in LogThreads : Owes(t, e) = 0
      BY DEF Owes, LoggerInv, ReportInv, ReportersHold
    <3>2. f \in [LogThreads -> Int] /\ \A t \in LogThreads : f[t] = 0
      BY <3>1
    <3>3. Reporting(e) = SumFunction(f)
      BY DEF Reporting, Owes
    <3> HIDE DEF f
    <3>4. QED
      BY <3>2, <3>3, SumTypes, LoggerAssumption
  <2>3. /\ dispatched[e] \in Int /\ logged[e] \in Int /\ told[e] \in Int /\ forgotten[e] \in Int
    BY BooksTyped DEF LoggerInv, RateInv, ReportInv
  <2>4. dispatched[e] = logged[e] + Cardinality(Emitting(e)) + rates[e].suppressed
                          + told[e] + Reporting(e) + forgotten[e]
    BY DEF LoggerInv, BooksBalance
  <2>5. QED
    BY <1>1, <2>1, <2>2, <2>3, <2>4
<1>3. QED
  BY <1>1, <1>2

LEMMA LoggerStarts ==
    ASSUME LoggerInit PROVE LoggerInv
<1>1. RateInv
  BY RateStarts
<1>2. ReportInv
  BY LoggerAssumption DEF LoggerInit, NoCounts, ReportInv, ReportsTyped, ReportersHold, WriterHolds, Writing
<1>3. BooksBalance
  <2> SUFFICES ASSUME NEW e \in Events
               PROVE  dispatched[e] = logged[e] + Cardinality(Emitting(e)) + rates[e].suppressed
                                        + told[e] + Reporting(e) + forgotten[e]
      BY DEF BooksBalance
  <2>1. Cardinality(Emitting(e)) = 0
    <3>1. Emitting(e) = {}
      BY DEF Emitting, LoggerInit
    <3>2. QED
      BY <3>1, FS_EmptySet
  <2>2. Reporting(e) = 0
    <3> DEFINE f == [t \in LogThreads |-> Owes(t, e)]
    <3>1. \A t \in LogThreads : Owes(t, e) = 0
      BY DEF Owes, LoggerInit, NoCounts
    <3>2. f \in [LogThreads -> Int] /\ \A t \in LogThreads : f[t] = 0
      BY <3>1
    <3>3. Reporting(e) = SumFunction(f)
      BY DEF Reporting, Owes
    <3> HIDE DEF f
    <3>4. QED
      BY <3>2, <3>3, SumTypes, LoggerAssumption
  <2>3. /\ dispatched[e] = 0 /\ logged[e] = 0 /\ told[e] = 0 /\ forgotten[e] = 0
        /\ rates[e].suppressed = 0
    BY DEF LoggerInit, NoCounts, NoRate
  <2>4. QED
    BY <2>1, <2>2, <2>3
<1>4. QuietDrain
  BY DEF LoggerInit, QuietDrain
<1>5. QED
  BY <1>1, <1>2, <1>3, <1>4 DEF LoggerInv

LEMMA LoggerStep ==
    ASSUME LoggerInv, [LoggerNext]_loggerVars PROVE LoggerInv'
<1>1. RateInv /\ ReportInv /\ BooksBalance /\ QuietDrain
  BY DEF LoggerInv
<1>2. RateInv'
  BY <1>1, RateStep
<1>3. ReportInv'
  BY <1>1, <1>2, ReportStep
<1>4. BooksBalance'
  BY <1>1, <1>2, <1>3, RecordsStep
<1>5. QuietDrain'
  BY <1>1, QuietStep
<1>6. QED
  BY <1>2, <1>3, <1>4, <1>5 DEF LoggerInv

\* However many threads record, shut down and write, and however the clock is set: no record
\* is lost or counted twice between the rate windows, the reports and an init; one event's
\* records are a window apart; and a shutdown with no record under way leaves nothing
\* unreported or unflushed (logging.cpp).
THEOREM TheLoggerLosesNothing == LoggerSpec => []SuppressedAreReported
<1>1. LoggerInit => LoggerInv
  BY LoggerStarts
<1>2. LoggerInv /\ [LoggerNext]_loggerVars => LoggerInv'
  BY LoggerStep
<1>3. LoggerInv => SuppressedAreReported
  BY QuietEnds DEF SuppressedAreReported, LoggerInv, RateInv
<1>4. QED
  BY <1>1, <1>2, <1>3, PTL DEF LoggerSpec

\* In particular two records of one event that pass between two clearings are a window apart.
COROLLARY WindowsApart == LoggerSpec => []OnePerWindow
<1>1. SuppressedAreReported => OnePerWindow
  BY DEF SuppressedAreReported
<1>2. QED
  BY <1>1, TheLoggerLosesNothing, PTL

-----------------------------------------------------------------------------
(* Rings and order statistics *)

\* A shift inside a remainder, and a whole turn.
LEMMA ModShift ==
    ASSUME NEW m \in Nat \ {0}, NEW a \in Nat, NEW b \in Nat
    PROVE  ((a % m) + b) % m = (a + b) % m
<1> DEFINE r == a % m
           s == r + b
           t == s % m
           x == a + b
           k == (a \div m) + (s \div m)
<1>1. r \in 0..(m - 1) /\ a = (a \div m) * m + r /\ a \div m \in Int
  OBVIOUS
<1> HIDE DEF r
<1>2. s \in Int
  BY <1>1
<1> HIDE DEF s
<1>3. t \in 0..(m - 1) /\ s = (s \div m) * m + t /\ s \div m \in Int
  BY <1>2
<1> HIDE DEF t
<1>4. x \in Int /\ k \in Int /\ x = k * m + t
  <2>1. s = r + b
    BY DEF s
  <2>2. QED
    BY <1>1, <1>3, <2>1
<1> HIDE DEF x, k
<1>5. x % m = t
  BY <1>3, <1>4, ModUnique
<1>6. QED
  BY <1>5 DEF t, s, r, x

LEMMA ModTurn ==
    ASSUME NEW m \in Nat \ {0}, NEW a \in Nat
    PROVE  (a + m) % m = a % m
<1> DEFINE q == a \div m
           r == a % m
<1>1. q \in Int /\ r \in 0..(m - 1) /\ a = q * m + r
  OBVIOUS
<1> HIDE DEF q, r
<1>2. a + m = (q + 1) * m + r
  BY <1>1
<1>3. (a + m) % m = r
  BY <1>1, <1>2, ModUnique
<1>4. QED
  BY <1>3 DEF r

\* Two numbers less than a turn apart have different remainders.
LEMMA ModDiffers ==
    ASSUME NEW m \in Nat \ {0}, NEW a \in Nat, NEW b \in Nat, a < b, b - a < m
    PROVE  (a % m) # (b % m)
<1>1. ASSUME (a % m) = (b % m) PROVE FALSE
  <2> DEFINE q == a \div m
             p == b \div m
             r == a % m
  <2>1. q \in Int /\ r \in Int /\ a = q * m + r
    OBVIOUS
  <2>2. p \in Int /\ b = p * m + r
    BY <1>1
  <2> HIDE DEF q, p, r
  <2>3. (p - q) * m = b - a
    BY <2>1, <2>2
  <2>4. CASE p - q >= 1
    <3>1. (p - q) * m >= m
      BY <2>1, <2>2, <2>4
    <3>2. QED
      BY <2>3, <3>1
  <2>5. CASE p - q <= 0
    <3>1. (p - q) * m <= 0
      BY <2>1, <2>2, <2>5
    <3>2. QED
      BY <2>3, <3>1
  <2>6. QED
    BY <2>1, <2>2, <2>4, <2>5
<1>2. QED
  BY <1>1

Lesser(a, b) == IF a < b THEN a ELSE b

LEMMA MinIs ==
    ASSUME NEW a \in Int, NEW b \in Int PROVE Min({a, b}) = Lesser(a, b)
  BY DEF Min, Lesser

\* What a ring of a number of slots keeps of what was put into it, the k-th in its place.
InPlace(slots, log, total, count, size) ==
    \A k \in 1..total : k > total - count => slots[(k - 1) % size] = log[k]

\* The next one takes the place of the oldest, or a free one.
LEMMA PutInPlace ==
    ASSUME NEW size \in Nat \ {0}, NEW total \in Nat, NEW slots, DOMAIN slots = 0..(size - 1),
           NEW log, NEW new, \A k \in 1..total : new[k] = log[k],
           InPlace(slots, log, total, Lesser(total, size), size),
           NEW put, put = [slots EXCEPT ![total % size] = new[total + 1]]
    PROVE  /\ InPlace(put, new, total + 1, Lesser(total + 1, size), size)
           /\ ((total % size) + 1) % size = (total + 1) % size
           /\ Lesser(total + 1, size)
                = IF Lesser(total, size) < size THEN Lesser(total, size) + 1 ELSE Lesser(total, size)
           /\ total % size \in 0..(size - 1)
<1>1. total % size \in 0..(size - 1)
  OBVIOUS
<1>2. ((total % size) + 1) % size = (total + 1) % size
  BY ModShift
<1>3. Lesser(total + 1, size)
        = IF Lesser(total, size) < size THEN Lesser(total, size) + 1 ELSE Lesser(total, size)
  BY DEF Lesser
<1>4. ASSUME NEW k \in 1..(total + 1), k > (total + 1) - Lesser(total + 1, size)
      PROVE  put[(k - 1) % size] = new[k]
  <2>1. CASE k = total + 1
    <3>1. k - 1 = total
      BY <2>1
    <3>2. QED
      BY <1>1, <2>1, <3>1
  <2>2. CASE k # total + 1
    <3>1. k \in 1..total /\ k - 1 \in Nat /\ k - 1 < total /\ total - (k - 1) < size
          /\ k > total - Lesser(total, size)
      BY <1>4, <2>2 DEF Lesser
    <3>2. ((k - 1) % size) # (total % size) /\ (k - 1) % size \in 0..(size - 1)
      <4> DEFINE j == k - 1
      <4>1. (j % size) # (total % size)
        <5>1. j \in Nat /\ j < total /\ total - j < size
          BY <3>1
        <5> HIDE DEF j
        <5>2. QED
          BY <5>1, ModDiffers
      <4>2. (k - 1) % size \in 0..(size - 1)
        BY <3>1
      <4>3. QED
        BY <4>1, <4>2
    <3>3. put[(k - 1) % size] = slots[(k - 1) % size]
      BY <1>1, <3>2
    <3>4. slots[(k - 1) % size] = log[k]
      BY <3>1 DEF InPlace
    <3>5. QED
      BY <3>1, <3>3, <3>4
  <2>3. QED
    BY <2>1, <2>2
<1>5. InPlace(put, new, total + 1, Lesser(total + 1, size), size)
  <2>1. \A k \in 1..(total + 1) : k > (total + 1) - Lesser(total + 1, size) => put[(k - 1) % size] = new[k]
    BY <1>4
  <2>2. QED
    BY ONLY <2>1 DEF InPlace
<1>6. QED
  BY <1>1, <1>2, <1>3, <1>5

\* A histogram of a capacity holds the last samples of a sequence.
HoldsLast(h, size, log) ==
    /\ h = [capacity |-> size, window |-> h.window, cursor |-> Len(log) % size,
            count |-> Lesser(Len(log), size), total |-> Len(log)]
    /\ DOMAIN h.window = 0..(size - 1)
    /\ InPlace(h.window, log, Len(log), Lesser(Len(log), size), size)

LEMMA HoldsNone ==
    ASSUME NEW size \in Nat \ {0} PROVE HoldsLast(NewHistogram(size), size, <<>>)
<1>1. Len(<<>>) = 0 /\ 0 % size = 0 /\ Lesser(0, size) = 0
  <2>1. 0 = 0 * size + 0 /\ 0 \in 0..(size - 1)
    OBVIOUS
  <2>2. QED
    BY <2>1, ModUnique DEF Lesser
<1>2. QED
  BY <1>1 DEF HoldsLast, NewHistogram, InPlace

LEMMA RecordHolds ==
    ASSUME NEW size \in Nat \ {0}, NEW h, NEW log \in Seq(Nat), HoldsLast(h, size, log), NEW x \in Nat
    PROVE  HoldsLast(Record(h, x), size, Append(log, x))
<1> DEFINE n == Len(log)
           new == Append(log, x)
           w == h.window
           put == [w EXCEPT ![n % size] = x]
<1>1. n \in Nat /\ Len(new) = n + 1 /\ new[n + 1] = x /\ \A k \in 1..n : new[k] = log[k]
  BY LenProperties, AppendProperties
<1>2. /\ h = [capacity |-> size, window |-> w, cursor |-> n % size,
              count |-> Lesser(n, size), total |-> n]
      /\ DOMAIN w = 0..(size - 1)
      /\ InPlace(w, log, n, Lesser(n, size), size)
  BY DEF HoldsLast
<1> HIDE DEF n, new, w
<1>3. /\ InPlace(put, new, n + 1, Lesser(n + 1, size), size)
      /\ ((n % size) + 1) % size = (n + 1) % size
      /\ Lesser(n + 1, size) = IF Lesser(n, size) < size THEN Lesser(n, size) + 1 ELSE Lesser(n, size)
      /\ n % size \in 0..(size - 1)
  <2>1. put = [w EXCEPT ![n % size] = new[n + 1]]
    BY <1>1
  <2> HIDE DEF put
  <2>2. QED
    BY <1>1, <1>2, <2>1, PutInPlace
<1>4. Record(h, x) = [capacity |-> size, window |-> put, cursor |-> (n + 1) % size,
                      count |-> Lesser(n + 1, size), total |-> n + 1]
  <2>1. h.capacity = size /\ h.cursor = n % size /\ h.count = Lesser(n, size) /\ h.total = n /\ size # 0
    BY <1>2
  <2>2. Record(h, x) = [h EXCEPT !.total = n + 1, !.window[n % size] = x, !.cursor = ((n % size) + 1) % size,
                          !.count = IF Lesser(n, size) < size THEN Lesser(n, size) + 1 ELSE Lesser(n, size)]
    BY <2>1 DEF Record
  <2>3. QED
    BY <1>2, <1>3, <2>2
<1>5. DOMAIN put = 0..(size - 1)
  BY <1>2
<1> HIDE DEF put
<1>6. QED
  BY <1>1, <1>3, <1>4, <1>5 DEF HoldsLast, new

\* The last elements of a sequence, one by one.
LEMMA LastIs ==
    ASSUME NEW S, NEW seq \in Seq(S), NEW m \in 0..Len(seq)
    PROVE  LastOf(seq, m) = [k \in 1..m |-> seq[(Len(seq) - m) + k]]
<1> DEFINE n == Len(seq)
           from == n - m + 1
<1>1. n \in Nat /\ from \in 1..(n + 1) /\ (n - from) + 1 = m
      /\ DOMAIN seq = 1..n /\ \A k \in 1..m : (n - m) + k = (from + k) - 1 /\ (n - m) + k \in 1..n
  BY LenProperties
<1> DEFINE cut == SubSeq(seq, from, n)
<1>2. cut = [k \in 1..m |-> seq[(n - m) + k]]
  <2>1. \A i \in from..n : seq[i] \in S
    BY <1>1, ElementOfSeq
  <2>2. from \in Int /\ n \in Int
    BY <1>1
  <2> HIDE DEF n, from
  <2>3. /\ cut \in Seq(S) /\ Len(cut) = IF from <= n THEN n - from + 1 ELSE 0
        /\ \A i \in 1..(n - from + 1) : cut[i] = seq[from + i - 1]
    BY <2>1, <2>2, SubSeqProperties
  <2> HIDE DEF cut
  <2>4. Len(cut) = m /\ \A k \in 1..m : cut[k] = seq[(n - m) + k]
    <3>1. (IF from <= n THEN n - from + 1 ELSE 0) = m /\ 1..(n - from + 1) = 1..m
      BY <1>1
    <3>2. \A k \in 1..m : from + k - 1 = (n - m) + k
      BY <1>1
    <3>3. Len(cut) = m
      BY <2>3, <3>1
    <3>4. \A k \in 1..m : cut[k] = seq[from + k - 1]
      BY <2>3, <3>1
    <3>5. QED
      BY <3>2, <3>3, <3>4
  <2>5. DOMAIN cut = 1..m /\ cut \in [1..m -> S]
    BY <2>3, <2>4, LenProperties
  <2>6. QED
    BY <2>4, <2>5
<1>3. QED
  BY <1>2 DEF LastOf

\* A histogram's stored samples are the last ones recorded, in their order.
LEMMA StoredIs ==
    ASSUME NEW size \in Nat \ {0}, NEW h, NEW log \in Seq(Nat), HoldsLast(h, size, log)
    PROVE  LET m == Lesser(Len(log), size)
           IN  /\ m \in 0..size /\ m \in 0..Len(log)
               /\ Stored(h) = [k \in 1..m |-> log[(Len(log) - m) + k]]
               /\ Stored(h) = LastOf(log, m)
<1> DEFINE n == Len(log)
           m == Lesser(n, size)
           w == h.window
<1>1. n \in Nat /\ m \in 0..size /\ m \in 0..n
  BY LenProperties DEF Lesser
<1>2. /\ h.capacity = size /\ h.cursor = n % size /\ h.count = m
      /\ InPlace(w, log, n, m, size)
  BY DEF HoldsLast
<1> HIDE DEF w
<1>3. \A k \in 1..m : w[(((n - m) + k) - 1) % size] = log[(n - m) + k]
  <2> SUFFICES ASSUME NEW k \in 1..m PROVE w[(((n - m) + k) - 1) % size] = log[(n - m) + k]
      OBVIOUS
  <2> DEFINE j == (n - m) + k
  <2>1. j \in 1..n /\ j > n - m
    BY <1>1
  <2> HIDE DEF j, m, n
  <2>2. w[(j - 1) % size] = log[j]
    BY <1>2, <2>1 DEF InPlace
  <2>3. QED
    BY <2>2 DEF j
<1>4. ASSUME m = size PROVE Stored(h) = [k \in 1..m |-> log[(n - m) + k]]
  <2>1. Stored(h) = [k \in 1..m |-> w[(((n % size) + k) - 1) % size]]
    BY <1>2, <1>4 DEF Stored, w
  <2>2. ASSUME NEW k \in 1..m PROVE w[(((n % size) + k) - 1) % size] = log[(n - m) + k]
    <3> DEFINE i == k - 1
               a == (n - m) + i
    <3>1. i \in Nat /\ a \in Nat
      BY <1>1
    <3>2. ((n % size) + i) % size = (n + i) % size
      BY <1>1, <3>1, ModShift
    <3>3. n + i = a + size
      BY <1>1, <1>4, <3>1
    <3>4. (a + size) % size = a % size
      <4> HIDE DEF a
      <4>1. QED
        BY <3>1, ModTurn
    <3>5. ((n % size) + k) - 1 = (n % size) + i /\ ((n - m) + k) - 1 = a
      BY <1>1
    <3>6. w[a % size] = log[(n - m) + k]
      BY <1>3, <3>5
    <3> HIDE DEF i, a
    <3>7. QED
      BY <3>2, <3>3, <3>4, <3>5, <3>6
  <2> HIDE DEF n, m
  <2>3. QED
    BY <2>1, <2>2
<1>5. ASSUME m # size PROVE Stored(h) = [k \in 1..m |-> log[(n - m) + k]]
  <2>1. Stored(h) = [k \in 1..m |-> w[k - 1]] /\ n = m
    BY <1>1, <1>2, <1>5 DEF Stored, w, Lesser
  <2>2. ASSUME NEW k \in 1..m PROVE w[k - 1] = log[(n - m) + k]
    <3> DEFINE i == k - 1
    <3>1. i \in 0..(size - 1) /\ i = 0 * size + i
      BY <1>1
    <3> HIDE DEF i
    <3>2. i % size = i
      BY <3>1, ModUnique
    <3>3. ((n - m) + k) - 1 = i
      BY <1>1, <2>1 DEF i
    <3>4. w[i % size] = log[(n - m) + k]
      BY <1>3, <3>3
    <3>5. QED
      BY <3>2, <3>4 DEF i
  <2> HIDE DEF n, m
  <2>3. QED
    BY <2>1, <2>2
<1>6. Stored(h) = [k \in 1..m |-> log[(n - m) + k]]
  BY <1>4, <1>5
<1>7. LastOf(log, m) = [k \in 1..m |-> log[(n - m) + k]]
  <2> HIDE DEF m
  <2>1. QED
    BY <1>1, LastIs
<1>8. QED
  BY <1>1, <1>6, <1>7

\* Some number of a finite set of them is the greatest.
LEMMA GreatestExists ==
    ASSUME NEW samples \in Seq(Nat), Len(samples) > 0
    PROVE  \E i \in 1..Len(samples) : \A j \in 1..Len(samples) : samples[j] <= samples[i]
<1> DEFINE n == Len(samples)
           T == {m \in 1..n : \E i \in 1..m : \A j \in 1..m : samples[j] <= samples[i]}
<1>1. n \in Nat \ {0} /\ \A i \in 1..n : samples[i] \in Nat
  BY LenProperties, ElementOfSeq
<1>2. ASSUME NEW m \in 1..n, m = 1 \/ m - 1 \in T PROVE m \in T
  <2>1. CASE m = 1
    BY <1>1, <2>1
  <2>2. CASE m # 1
    <3>1. PICK i \in 1..(m - 1) : \A j \in 1..(m - 1) : samples[j] <= samples[i]
      BY <1>2, <2>2
    <3>2. CASE samples[m] <= samples[i]
      <4>1. \A j \in 1..m : samples[j] <= samples[i]
        <5>1. \A j \in 1..m : j = m \/ j \in 1..(m - 1)
          BY <1>1
        <5>2. QED
          BY <3>1, <3>2, <5>1
      <4>2. QED
        BY <4>1
    <3>3. CASE ~(samples[m] <= samples[i])
      <4>1. \A j \in 1..m : samples[j] <= samples[m]
        BY <1>1, <3>1, <3>3
      <4>2. QED
        BY <4>1
    <3>4. QED
      BY <3>2, <3>3
  <2>3. QED
    BY <2>1, <2>2
<1>3. T = 1..n
  <2>1. T \in SUBSET (1..n) /\ \A m \in 1..n : (m = 1 \/ m - 1 \in T) => m \in T
    BY <1>2
  <2> HIDE DEF T
  <2>2. QED
    BY <1>1, <2>1, AllBut
<1>4. n \in T
  <2> HIDE DEF T
  <2>1. QED
    BY <1>1, <1>3
<1>5. QED
  BY <1>4

\* In order, the last sample is the greatest.
LEMMA SortedEnds ==
    ASSUME NEW samples \in Seq(Nat), Len(samples) > 0
    PROVE  LET top == Sorted(samples)[Len(samples)]
           IN  /\ Len(Sorted(samples)) = Len(samples)
               /\ \E i \in 1..Len(samples) : samples[i] = top
               /\ \A i \in 1..Len(samples) : samples[i] <= top
<1> DEFINE n == Len(samples)
           below(v) == {i \in DOMAIN samples : samples[i] < v}
           upTo(v) == {i \in DOMAIN samples : samples[i] <= v}
           Fits(v) == Cardinality(below(v)) < n /\ n <= Cardinality(upTo(v))
           top == CHOOSE v \in Range(samples) : Fits(v)
<1>1. n \in Nat \ {0} /\ DOMAIN samples = 1..n /\ \A i \in 1..n : samples[i] \in Nat
  BY LenProperties, ElementOfSeq
<1>2. IsFiniteSet(1..n) /\ Cardinality(1..n) = n
  BY <1>1, UpTo
<1>3. Sorted(samples)[n] = top /\ Len(Sorted(samples)) = n
  <2>1. Sorted(samples) = [k \in 1..n |-> CHOOSE v \in Range(samples) :
                                           Cardinality(below(v)) < k /\ k <= Cardinality(upTo(v))]
    BY DEF Sorted
  <2> HIDE DEF below, upTo
  <2>2. QED
    BY <1>1, <2>1
<1>4. \E v \in Range(samples) : Fits(v)
  <2>1. PICK i \in 1..n : \A j \in 1..n : samples[j] <= samples[i]
    BY GreatestExists
  <2> DEFINE v == samples[i]
  <2>2. v \in Range(samples)
    BY <1>1 DEF Range
  <2>3. upTo(v) = 1..n
    BY <1>1, <2>1
  <2>4. below(v) \subseteq 1..n /\ below(v) # 1..n
    BY <1>1, <2>1
  <2>5. Cardinality(below(v)) < n
    <3> HIDE DEF below
    <3>1. Cardinality(below(v)) <= n /\ Cardinality(below(v)) # n /\ Cardinality(below(v)) \in Nat
      BY <1>2, <2>4, FS_Subset, FS_CardinalityType
    <3>2. QED
      BY <1>1, <3>1
  <2>6. n <= Cardinality(upTo(v))
    <3>1. Cardinality(upTo(v)) = n
      BY <1>2, <2>3
    <3> DEFINE c == Cardinality(upTo(v))
    <3>2. c = n /\ n \in Nat
      BY <1>1, <3>1
    <3> HIDE DEF c, n
    <3>3. n <= c
      BY <3>2
    <3>4. QED
      BY <3>3 DEF c
  <2> HIDE DEF below, upTo
  <2>7. Fits(v)
    BY <2>5, <2>6
  <2>8. QED
    BY <2>2, <2>7
<1>5. top \in Range(samples) /\ Fits(top)
  <2> HIDE DEF Fits
  <2>1. QED
    BY <1>4
<1> HIDE DEF top
<1>6. upTo(top) = 1..n
  <2>1. upTo(top) \subseteq 1..n /\ n <= Cardinality(upTo(top))
    BY <1>1, <1>5
  <2> HIDE DEF upTo
  <2>2. Cardinality(upTo(top)) <= n /\ Cardinality(upTo(top)) \in Nat
    BY <1>2, <2>1, FS_Subset, FS_CardinalityType
  <2>3. Cardinality(upTo(top)) = n
    BY <1>1, <2>1, <2>2
  <2>4. QED
    BY <1>2, <2>1, <2>3, FS_Subset
<1>7. \A i \in 1..n : samples[i] <= top
  BY <1>1, <1>6
<1>8. \E i \in 1..n : samples[i] = top
  BY <1>1, <1>5 DEF Range
<1>9. QED
  BY <1>3, <1>7, <1>8

\* With fewer than a hundred samples the 99th percentile is the greatest.
LEMMA TopIsP99 ==
    ASSUME NEW sorted, Len(sorted) \in 1..99
    PROVE  Percentile(sorted, 99) = sorted[Len(sorted)]
<1> DEFINE n == Len(sorted)
           rank == (99 * n + 99) \div 100
<1>1. rank = n
  <2>1. n \in 1..99
    OBVIOUS
  <2> HIDE DEF n
  <2>2. QED
    BY <2>1
<1>2. QED
  BY <1>1 DEF Percentile

-----------------------------------------------------------------------------
(* The frame budget report *)

\* Sums over the systems grow by the number of those that counted one more.
LEMMA CountsAdd ==
    ASSUME NEW S, IsFiniteSet(S), NEW f \in [S -> Nat], NEW h \in [S -> Nat], NEW Over \in SUBSET S,
           \A s \in S : h[s] = f[s] + (IF s \in Over THEN 1 ELSE 0)
    PROVE  /\ SumFunction(h) = SumFunction(f) + Cardinality(Over)
           /\ SumFunction(f) \in Nat /\ Cardinality(Over) \in Nat
<1> DEFINE d == [s \in S |-> IF s \in Over THEN 1 ELSE 0]
<1>1. d \in [S -> {0, 1}] /\ d \in [S -> Int] /\ f \in [S -> Int] /\ h \in [S -> Int]
  OBVIOUS
<1>2. \A s \in S : h[s] = f[s] + d[s]
  OBVIOUS
<1>3. {s \in S : d[s] = 1} = Over
  OBVIOUS
<1> HIDE DEF d
<1>4. SumFunction(h) = SumFunction(f) + SumFunction(d)
  BY <1>1, <1>2, SumAdds
<1>5. SumFunction(d) = Cardinality(Over)
  BY <1>1, <1>3, SumCounts
<1>6. SumFunction(f) \in Nat
  BY <1>1, SumTypes
<1>7. Cardinality(Over) \in Nat
  BY FS_Subset, FS_CardinalityType
<1>8. QED
  BY <1>4, <1>5, <1>6, <1>7

LEMMA WindowSize == SystemWindow \in Nat \ {0} /\ SystemWindow <= 99
<1>1. SystemWindow \in 1..99
  BY FrameBudgetAssumption
<1>2. QED
  BY <1>1

\* A system is judged by the samples its window keeps.
LEMMA ResultIs ==
    ASSUME NEW s \in Systems, NEW log \in Seq(Nat), HoldsLast(timing[s].window, SystemWindow, log)
    PROVE  LET kept == Lesser(Len(log), SystemWindow)
               recent == LastOf(log, kept)
               over == \E i \in DOMAIN recent : recent[i] > Budgets[s]
           IN  /\ (SystemResult(s) = "PASS") = (kept > 0 /\ ~over)
               /\ (SystemResult(s) = "FAIL") = over
<1> DEFINE h == timing[s].window
           m == Lesser(Len(log), SystemWindow)
           recent == LastOf(log, m)
           sorted == Sorted(recent)
           over == \E i \in DOMAIN recent : recent[i] > Budgets[s]
<1> SUFFICES /\ (SystemResult(s) = "PASS") <=> (m > 0 /\ ~over)
             /\ (SystemResult(s) = "FAIL") <=> over
    OBVIOUS
<1>1. SystemWindow \in Nat \ {0} /\ SystemWindow <= 99 /\ Budgets[s] \in Nat
  BY FrameBudgetAssumption, WindowSize
<1>2. m \in 0..SystemWindow /\ m \in 0..Len(log) /\ Stored(h) = recent
      /\ recent = [k \in 1..m |-> log[(Len(log) - m) + k]]
  <2> HIDE DEF recent, h
  <2>1. HoldsLast(h, SystemWindow, log)
    BY DEF h
  <2>2. QED
    BY <1>1, <2>1, StoredIs DEF recent
<1>3. Len(log) \in Nat
  BY LenProperties
<1> HIDE DEF m, h, recent
<1>4. \A k \in 1..m : recent[k] = log[(Len(log) - m) + k] /\ recent[k] \in Nat
  <2>1. \A k \in 1..m : (Len(log) - m) + k \in 1..Len(log)
    BY <1>2, <1>3
  <2>2. QED
    BY <1>2, <2>1, ElementOfSeq
<1>5. recent \in Seq(Nat) /\ Len(recent) = m /\ DOMAIN recent = 1..m
  <2>1. recent \in [1..m -> Nat] /\ m \in Nat
    BY <1>2, <1>4
  <2>2. QED
    BY <2>1, SeqDef, LenProperties
<1>6. CASE m = 0
  <2>1. Len(sorted) = 0
    BY <1>5, <1>6 DEF Sorted
  <2>2. Stats(h) = [n |-> 0]
    BY <1>2, <2>1 DEF Stats
  <2>3. SystemResult(s) = "NO_SAMPLES"
    BY <2>2 DEF SystemResult, h
  <2>4. ~over
    BY <1>5, <1>6
  <2>5. ~(m > 0) /\ SystemResult(s) # "PASS" /\ SystemResult(s) # "FAIL"
    BY <1>6, <2>3
  <2> HIDE DEF over
  <2>6. QED
    BY <2>4, <2>5, Zenon
<1>7. CASE m # 0
  <2>1. Len(recent) > 0
    BY <1>2, <1>5, <1>7
  <2>2. Len(sorted) = m /\ (\E i \in 1..m : recent[i] = sorted[m]) /\ \A i \in 1..m : recent[i] <= sorted[m]
    BY <1>5, <2>1, SortedEnds
  <2> HIDE DEF sorted
  <2>3. Percentile(sorted, 99) = sorted[m]
    <3>1. Len(sorted) \in 1..99
      BY <1>1, <1>2, <1>7, <2>2
    <3>2. QED
      BY <2>2, <3>1, TopIsP99
  <2>4. Stats(h).n = m /\ Stats(h).p99 = sorted[m]
    BY <1>2, <1>7, <2>2, <2>3 DEF Stats, sorted
  <2>5. SystemResult(s) = IF sorted[m] > Budgets[s] THEN "FAIL" ELSE "PASS"
    BY <1>7, <2>4 DEF SystemResult, h
  <2>6. ASSUME sorted[m] > Budgets[s] PROVE over
    BY <1>5, <2>2, <2>6
  <2>7. ASSUME over PROVE sorted[m] > Budgets[s]
    <3>1. PICK i \in 1..m : recent[i] > Budgets[s]
      BY <1>5, <2>7
    <3>2. sorted[m] \in Nat /\ recent[i] \in Nat /\ recent[i] <= sorted[m]
      BY <1>4, <2>2
    <3>3. QED
      BY <1>1, <3>1, <3>2
  <2>8. m > 0 /\ "PASS" # "FAIL"
    BY <1>2, <1>7
  <2> DEFINE tops == sorted[m] > Budgets[s]
  <2>9. SystemResult(s) = IF tops THEN "FAIL" ELSE "PASS"
    BY <2>5
  <2>10. over <=> tops
    BY <2>6, <2>7
  <2> HIDE DEF over, tops
  <2>11. QED
    BY <2>8, <2>9, <2>10, Zenon
<1>8. QED
  BY <1>6, <1>7

\* Of a report without frames the heap allocations do not pass.
LEMMA NoFramesNoPass ==
    ASSUME NEW n, Len(ShownFrames(n)) = 0, DOMAIN ShownFrames(n) = {}
    PROVE  ~BuildReport(n).passed
<1> DEFINE shown == ShownFrames(n)
           heap == FoldLeft(LAMBDA h, r : Record(h, r.allocs), NewHistogram(Len(shown)), shown)
<1>1. heap = NewHistogram(0)
  BY DEF FoldLeft, MapThenFoldSet
<1> HIDE DEF heap
<1>2. Stored(heap) = [k \in 1..0 |-> heap.window[((heap.cursor + k) - 1) % heap.capacity]]
  BY <1>1 DEF Stored, NewHistogram
<1> DEFINE none == Stored(heap)
<1>3. Len(none) = 0
  BY <1>2
<1> HIDE DEF none
<1>4. Len(Sorted(none)) = 0
  BY <1>3 DEF Sorted
<1>5. Stats(heap) = [n |-> 0]
  BY <1>4 DEF Stats, none
<1>6. EntryResult("sim_heap_allocs", heap) # "PASS"
  BY <1>5 DEF EntryResult, BudgetCheck
<1>7. QED
  BY <1>6 DEF BuildReport, heap

FrameRecords == [ticks : Nat, tickAfter : Nat, allocs : Nat, warns : Nat, errors : Nat]

\* What is measured: each system's window holds its latest times, and its counters count.
WindowsInv ==
    /\ sampleLog \in [Systems -> Seq(Nat)]
    /\ \A s \in Systems : /\ timing[s].warns \in Nat /\ timing[s].errors \in Nat
                          /\ HoldsLast(timing[s].window, SystemWindow, sampleLog[s])

\* The open frame's record so far is what the totals have grown by since it was opened.
FrameInv ==
    /\ ticks \in Nat /\ reserved \in Nat
    /\ frameLog \in Seq(FrameRecords)
    /\ inFrame.open \in BOOLEAN
    /\ inFrame.open =>
         LET n == Len(frameLog)
         IN  /\ n > 0
             /\ inFrame.ticks \in Nat /\ inFrame.reserved \in Nat
             /\ inFrame.events.warns \in Nat /\ inFrame.events.errors \in Nat
             /\ ticks = inFrame.ticks + frameLog[n].ticks
             /\ reserved = inFrame.reserved + frameLog[n].allocs
             /\ BudgetEventTotals.warns = inFrame.events.warns + frameLog[n].warns
             /\ BudgetEventTotals.errors = inFrame.events.errors + frameLog[n].errors

\* The ring holds the latest of the completed frames.
Completed == IF inFrame.open THEN Len(frameLog) - 1 ELSE Len(frameLog)
RingHolds(r, log, n) ==
    /\ r = [slots |-> r.slots, cursor |-> n % FrameWindow, count |-> Lesser(n, FrameWindow), total |-> n]
    /\ DOMAIN r.slots = 0..(FrameWindow - 1)
    /\ InPlace(r.slots, log, n, Lesser(n, FrameWindow), FrameWindow)
RingInv == RingHolds(ring, frameLog, Completed)

\* A report is made after the frames, and no frame is opened after it.
ReportMade == (Reported => ~inFrame.open) /\ ReportIsWhatHappened

MeasuringInv == WindowsInv /\ FrameInv /\ RingInv /\ ReportMade

\* The totals are sums of natural numbers.
LEMMA TotalsTyped ==
    ASSUME WindowsInv
    PROVE  BudgetEventTotals.warns \in Nat /\ BudgetEventTotals.errors \in Nat
<1> DEFINE warned == [s \in Systems |-> timing[s].warns]
           failed == [s \in Systems |-> timing[s].errors]
<1>1. warned \in [Systems -> Nat] /\ failed \in [Systems -> Nat]
  BY DEF WindowsInv
<1>2. BudgetEventTotals = [warns |-> SumFunction(warned), errors |-> SumFunction(failed)]
  BY DEF BudgetEventTotals
<1> HIDE DEF warned, failed
<1>3. warned \in [Systems -> Int] /\ failed \in [Systems -> Int] /\ IsFiniteSet(Systems)
  BY <1>1, FrameBudgetAssumption
<1>4. SumFunction(warned) \in Nat /\ SumFunction(failed) \in Nat
  BY <1>1, <1>3, SumTypes
<1>5. QED
  BY <1>2, <1>4

\* A frame's record as the history keeps it.
LEMMA LogAt ==
    ASSUME FrameInv, NEW k \in 1..Len(frameLog)
    PROVE  /\ frameLog[k] \in FrameRecords
           /\ frameLog[k] = [ticks |-> frameLog[k].ticks, tickAfter |-> frameLog[k].tickAfter,
                             allocs |-> frameLog[k].allocs, warns |-> frameLog[k].warns,
                             errors |-> frameLog[k].errors]
<1>1. frameLog[k] \in FrameRecords
  BY ElementOfSeq DEF FrameInv
<1>2. QED
  BY <1>1 DEF FrameRecords

\* The history with another last record.
LEMMA LogWith ==
    ASSUME NEW S, NEW log \in Seq(S), Len(log) > 0, NEW e \in S
    PROVE  LET new == [log EXCEPT ![Len(log)] = e]
           IN  /\ new \in Seq(S) /\ Len(new) = Len(log)
               /\ new[Len(log)] = e
               /\ \A k \in 1..(Len(log) - 1) : new[k] = log[k]
<1> DEFINE n == Len(log)
           new == [log EXCEPT ![n] = e]
<1>1. n \in Nat /\ n \in 1..n
  BY LenProperties
<1>2. new \in Seq(S) /\ Len(new) = n /\ \A j \in 1..n : new[j] = IF j = n THEN e ELSE log[j]
  BY <1>1, ExceptSeq
<1> HIDE DEF n, new
<1>3. new[n] = e /\ \A k \in 1..(n - 1) : new[k] = log[k]
  BY <1>1, <1>2
<1>4. QED
  BY <1>2, <1>3 DEF n, new

LEMMA MeasuringBegins == ASSUME MeasuringInit PROVE MeasuringInv
<1>1. WindowsInv
  <2>1. ASSUME NEW s \in Systems
        PROVE  /\ timing[s].warns \in Nat /\ timing[s].errors \in Nat
               /\ HoldsLast(timing[s].window, SystemWindow, sampleLog[s])
    <3>1. timing[s].window = NewHistogram(SystemWindow) /\ sampleLog[s] = <<>>
          /\ timing[s].warns = 0 /\ timing[s].errors = 0
      BY DEF MeasuringInit
    <3>2. HoldsLast(NewHistogram(SystemWindow), SystemWindow, <<>>)
      BY WindowSize, HoldsNone
    <3>3. QED
      BY <3>1, <3>2
  <2>2. sampleLog \in [Systems -> Seq(Nat)]
    BY EmptySeq DEF MeasuringInit
  <2>3. QED
    BY <2>1, <2>2 DEF WindowsInv
<1>2. FrameInv /\ ~inFrame.open /\ frameLog = <<>> /\ Len(frameLog) = 0
  BY EmptySeq DEF MeasuringInit, FrameInv, NotInFrame
<1>3. RingInv
  <2>1. FrameWindow \in Nat \ {0}
    BY FrameBudgetAssumption
  <2>2. 0 % FrameWindow = 0
    <3>1. 0 = 0 * FrameWindow + 0 /\ 0 \in 0..(FrameWindow - 1)
      BY <2>1
    <3>2. QED
      BY <2>1, <3>1, ModUnique
  <2>3. Lesser(0, FrameWindow) = 0
    BY <2>1 DEF Lesser
  <2>4. Completed = 0
    BY <1>2 DEF Completed
  <2>5. ring = NewRing
    BY DEF MeasuringInit
  <2>6. RingHolds(NewRing, frameLog, 0)
    <3> DEFINE slots == [i \in 0..(FrameWindow - 1) |-> NoRecord]
    <3>1. NewRing = [slots |-> slots, cursor |-> 0, count |-> 0, total |-> 0]
          /\ DOMAIN slots = 0..(FrameWindow - 1)
      BY DEF NewRing
    <3> HIDE DEF slots
    <3>2. NewRing.slots = slots
      BY <3>1
    <3>3. InPlace(slots, frameLog, 0, 0, FrameWindow)
      BY DEF InPlace
    <3>4. QED
      BY <2>2, <2>3, <3>1, <3>2, <3>3 DEF RingHolds
  <2>7. QED
    BY <2>4, <2>5, <2>6 DEF RingInv
<1>4. ReportMade
  <2>1. ~Reported
    BY DEF MeasuringInit, Reported
  <2>2. QED
    BY <2>1 DEF ReportMade, ReportIsWhatHappened, ReportTellsRecentFrames, VerdictIsTheWindow
<1>5. QED
  BY <1>1, <1>2, <1>3, <1>4 DEF MeasuringInv

\* Opening a frame starts its record from nothing.
LEMMA OpenKeeps == ASSUME MeasuringInv, OpenFrame PROVE WindowsInv' /\ FrameInv' /\ RingInv'
<1> DEFINE n == Len(frameLog)
<1>1. WindowsInv' /\ BudgetEventTotals' = BudgetEventTotals
  BY DEF MeasuringInv, WindowsInv, OpenFrame, BudgetEventTotals
<1>2. NoRecord \in FrameRecords
  BY DEF NoRecord, FrameRecords
<1>3. /\ frameLog' = Append(frameLog, NoRecord) /\ ~inFrame.open
      /\ inFrame' = [open |-> TRUE, ticks |-> ticks, reserved |-> reserved, events |-> BudgetEventTotals]
      /\ ticks' = ticks /\ reserved' = reserved /\ ring' = ring
  BY DEF OpenFrame, Outside
<1>4. frameLog \in Seq(FrameRecords) /\ ticks \in Nat /\ reserved \in Nat
  BY DEF MeasuringInv, FrameInv
<1>5. n \in Nat /\ frameLog' \in Seq(FrameRecords) /\ Len(frameLog') = n + 1
      /\ frameLog'[n + 1] = NoRecord /\ \A k \in 1..n : frameLog'[k] = frameLog[k]
  BY <1>2, <1>3, <1>4, LenProperties, AppendProperties
<1>6. BudgetEventTotals.warns \in Nat /\ BudgetEventTotals.errors \in Nat
  BY TotalsTyped DEF MeasuringInv
<1> HIDE DEF n
<1>7. FrameInv'
  <2>1. /\ inFrame'.open /\ inFrame'.ticks = ticks /\ inFrame'.reserved = reserved
        /\ inFrame'.events = BudgetEventTotals
    BY <1>3
  <2>2. Len(frameLog') > 0 /\ frameLog'[Len(frameLog')] = NoRecord
    BY <1>5
  <2>3. frameLog'[Len(frameLog')].ticks = 0 /\ frameLog'[Len(frameLog')].allocs = 0
        /\ frameLog'[Len(frameLog')].warns = 0 /\ frameLog'[Len(frameLog')].errors = 0
    BY <2>2 DEF NoRecord
  <2>4. QED
    BY <1>1, <1>3, <1>4, <1>5, <1>6, <2>1, <2>2, <2>3 DEF FrameInv
<1>8. RingInv'
  <2>1. Completed' = n /\ Completed = n
    BY <1>3, <1>5 DEF Completed, n
  <2>2. RingHolds(ring, frameLog, n)
    BY <2>1 DEF MeasuringInv, RingInv
  <2>3. RingHolds(ring, frameLog', n)
    BY <1>5, <2>2 DEF RingHolds, InPlace
  <2>4. QED
    BY <1>3, <2>1, <2>3 DEF RingInv
<1>9. QED
  BY <1>1, <1>7, <1>8

\* A record is its fields.
LEMMA RecordIs ==
    ASSUME NEW r \in FrameRecords
    PROVE  \E a \in Nat, b \in Nat, g \in Nat, w \in Nat, c \in Nat :
             r = [ticks |-> a, tickAfter |-> b, allocs |-> g, warns |-> w, errors |-> c]
<1>1. r.ticks \in Nat /\ r.tickAfter \in Nat /\ r.allocs \in Nat /\ r.warns \in Nat /\ r.errors \in Nat
      /\ r = [ticks |-> r.ticks, tickAfter |-> r.tickAfter, allocs |-> r.allocs, warns |-> r.warns,
              errors |-> r.errors]
  BY DEF FrameRecords
<1>2. QED
  BY <1>1

\* A record with a tick counted in it.
Counted(r, after, grown, w, c) ==
    [r EXCEPT !.ticks = @ + 1, !.tickAfter = after, !.allocs = @ + grown, !.warns = @ + w, !.errors = @ + c]

LEMMA CountedIs ==
    ASSUME NEW r \in FrameRecords, NEW after \in Nat, NEW grown \in Nat, NEW w \in Nat, NEW c \in Nat
    PROVE  /\ Counted(r, after, grown, w, c) \in FrameRecords
           /\ Counted(r, after, grown, w, c).ticks = r.ticks + 1
           /\ Counted(r, after, grown, w, c).allocs = r.allocs + grown
           /\ Counted(r, after, grown, w, c).warns = r.warns + w
           /\ Counted(r, after, grown, w, c).errors = r.errors + c
<1>1. PICK a \in Nat, b \in Nat, g \in Nat, x \in Nat, y \in Nat :
        r = [ticks |-> a, tickAfter |-> b, allocs |-> g, warns |-> x, errors |-> y]
  BY RecordIs
<1>2. Counted(r, after, grown, w, c)
        = [ticks |-> a + 1, tickAfter |-> after, allocs |-> g + grown, warns |-> x + w, errors |-> y + c]
  <2> DEFINE p == a + 1
             q == g + grown
             u == x + w
             v == y + c
  <2>1. r.ticks + 1 = p /\ r.allocs + grown = q /\ r.warns + w = u /\ r.errors + c = v
    BY <1>1
  <2>2. Counted(r, after, grown, w, c)
          = [r EXCEPT !.ticks = p, !.tickAfter = after, !.allocs = q, !.warns = u, !.errors = v]
    BY <2>1 DEF Counted
  <2> HIDE DEF p, q, u, v
  <2>3. Counted(r, after, grown, w, c)
          = [ticks |-> p, tickAfter |-> after, allocs |-> q, warns |-> u, errors |-> v]
    BY <1>1, <2>2
  <2>4. QED
    BY <2>3 DEF p, q, u, v
<1>3. r.ticks = a /\ r.allocs = g /\ r.warns = x /\ r.errors = y
  BY <1>1
<1>4. [ticks |-> a + 1, tickAfter |-> after, allocs |-> g + grown, warns |-> x + w, errors |-> y + c]
        \in FrameRecords
  <2>1. a + 1 \in Nat /\ g + grown \in Nat /\ x + w \in Nat /\ y + c \in Nat
    OBVIOUS
  <2>2. QED
    BY <2>1 DEF FrameRecords
<1>5. QED
  BY <1>2, <1>3, <1>4

\* A tick counts for the systems and for the open frame alike.
LEMMA TickKeeps == ASSUME MeasuringInv, MeasuredTick PROVE WindowsInv' /\ FrameInv' /\ RingInv' /\ ~Reported'
<1> DEFINE n == Len(frameLog)
<1>1. PICK t \in [Systems -> MeasuredTimes], grown \in 0..1 :
         /\ timing' = [s \in Systems |-> CheckSystemBudget(timing[s], Budgets[s], t[s])]
         /\ sampleLog' = [s \in Systems |-> Append(sampleLog[s], t[s])]
         /\ reserved' = reserved + grown
         /\ frameLog' = [frameLog EXCEPT
                           ![n].ticks = @ + 1, ![n].tickAfter = ticks + 1,
                           ![n].allocs = @ + grown,
                           ![n].warns = @ + Cardinality({s \in Systems : t[s] >= Budgets[s] + 1}),
                           ![n].errors = @ + Cardinality({s \in Systems : t[s] >= CriticalMultiplier * Budgets[s]})]
  BY DEF MeasuredTick
<1>2. inFrame.open /\ inFrame' = inFrame /\ ticks' = ticks + 1 /\ ring' = ring /\ report' = report
  BY DEF MeasuredTick
<1>3. \A s \in Systems : t[s] \in Nat /\ Budgets[s] \in Nat
  BY FrameBudgetAssumption
<1>4. /\ sampleLog \in [Systems -> Seq(Nat)]
      /\ \A s \in Systems : /\ timing[s].warns \in Nat /\ timing[s].errors \in Nat
                            /\ HoldsLast(timing[s].window, SystemWindow, sampleLog[s])
  BY DEF MeasuringInv, WindowsInv
<1> DEFINE late == {s \in Systems : t[s] >= Budgets[s] + 1}
           critical == {s \in Systems : t[s] >= CriticalMultiplier * Budgets[s]}
<1>5. \A s \in Systems :
        /\ timing'[s].window = Record(timing[s].window, t[s])
        /\ timing'[s].warns = timing[s].warns + (IF s \in late THEN 1 ELSE 0)
        /\ timing'[s].errors = timing[s].errors + (IF s \in critical THEN 1 ELSE 0)
  <2> SUFFICES ASSUME NEW s \in Systems
               PROVE  /\ timing'[s].window = Record(timing[s].window, t[s])
                      /\ timing'[s].warns = timing[s].warns + (IF s \in late THEN 1 ELSE 0)
                      /\ timing'[s].errors = timing[s].errors + (IF s \in critical THEN 1 ELSE 0)
      OBVIOUS
  <2>1. timing'[s] = CheckSystemBudget(timing[s], Budgets[s], t[s])
    BY <1>1
  <2>2. (t[s] > Budgets[s]) <=> s \in late
    BY <1>3
  <2>3. (t[s] >= CriticalMultiplier * Budgets[s]) <=> s \in critical
    OBVIOUS
  <2> HIDE DEF late, critical
  <2>4. QED
    BY <2>1, <2>2, <2>3 DEF CheckSystemBudget
<1>6. late \in SUBSET Systems /\ critical \in SUBSET Systems
  OBVIOUS
<1> HIDE DEF late, critical
<1>7. WindowsInv'
  <2>1. ASSUME NEW s \in Systems
        PROVE  /\ timing'[s].warns \in Nat /\ timing'[s].errors \in Nat
               /\ HoldsLast(timing'[s].window, SystemWindow, sampleLog'[s])
               /\ sampleLog'[s] \in Seq(Nat)
    <3>1. sampleLog[s] \in Seq(Nat) /\ sampleLog'[s] = Append(sampleLog[s], t[s]) /\ t[s] \in Nat
      BY <1>1, <1>3, <1>4
    <3>2. HoldsLast(Record(timing[s].window, t[s]), SystemWindow, Append(sampleLog[s], t[s]))
      BY <1>4, <3>1, WindowSize, RecordHolds
    <3> DEFINE warned == timing[s].warns
               failed == timing[s].errors
    <3>3. timing'[s].warns \in Nat /\ timing'[s].errors \in Nat
      <4>1. warned \in Nat /\ failed \in Nat
        BY <1>4
      <4>2. timing'[s].warns = warned + (IF s \in late THEN 1 ELSE 0)
            /\ timing'[s].errors = failed + (IF s \in critical THEN 1 ELSE 0)
        BY <1>5
      <4> HIDE DEF warned, failed
      <4>3. QED
        BY <4>1, <4>2
    <3>4. sampleLog'[s] \in Seq(Nat)
      BY <3>1, AppendProperties
    <3>5. QED
      BY <1>5, <3>1, <3>2, <3>3, <3>4
  <2>2. sampleLog' \in [Systems -> Seq(Nat)]
    BY <1>1, <2>1
  <2>3. QED
    BY <2>1, <2>2 DEF WindowsInv
<1>8. /\ BudgetEventTotals'.warns = BudgetEventTotals.warns + Cardinality(late)
      /\ BudgetEventTotals'.errors = BudgetEventTotals.errors + Cardinality(critical)
      /\ Cardinality(late) \in Nat /\ Cardinality(critical) \in Nat
  <2> DEFINE warned == [s \in Systems |-> timing[s].warns]
             failed == [s \in Systems |-> timing[s].errors]
             warnedNext == [s \in Systems |-> timing'[s].warns]
             failedNext == [s \in Systems |-> timing'[s].errors]
  <2>1. /\ warned \in [Systems -> Nat] /\ failed \in [Systems -> Nat]
        /\ warnedNext \in [Systems -> Nat] /\ failedNext \in [Systems -> Nat]
    BY <1>4, <1>7 DEF WindowsInv
  <2>2. \A s \in Systems : /\ warnedNext[s] = warned[s] + (IF s \in late THEN 1 ELSE 0)
                           /\ failedNext[s] = failed[s] + (IF s \in critical THEN 1 ELSE 0)
    BY <1>5
  <2>3. /\ BudgetEventTotals = [warns |-> SumFunction(warned), errors |-> SumFunction(failed)]
        /\ BudgetEventTotals' = [warns |-> SumFunction(warnedNext), errors |-> SumFunction(failedNext)]
    BY DEF BudgetEventTotals
  <2> HIDE DEF warned, failed, warnedNext, failedNext
  <2>4. IsFiniteSet(Systems)
    BY FrameBudgetAssumption
  <2>5. SumFunction(warnedNext) = SumFunction(warned) + Cardinality(late) /\ Cardinality(late) \in Nat
    BY <1>6, <2>1, <2>2, <2>4, CountsAdd
  <2>6. SumFunction(failedNext) = SumFunction(failed) + Cardinality(critical) /\ Cardinality(critical) \in Nat
    BY <1>6, <2>1, <2>2, <2>4, CountsAdd
  <2>7. QED
    BY <2>3, <2>5, <2>6
<1>9. /\ frameLog \in Seq(FrameRecords) /\ ticks \in Nat /\ reserved \in Nat /\ n > 0 /\ n \in Nat
       /\ inFrame.ticks \in Nat /\ inFrame.reserved \in Nat
       /\ inFrame.events.warns \in Nat /\ inFrame.events.errors \in Nat
       /\ ticks = inFrame.ticks + frameLog[n].ticks
       /\ reserved = inFrame.reserved + frameLog[n].allocs
       /\ BudgetEventTotals.warns = inFrame.events.warns + frameLog[n].warns
       /\ BudgetEventTotals.errors = inFrame.events.errors + frameLog[n].errors
  <2>1. frameLog \in Seq(FrameRecords)
    BY DEF MeasuringInv, FrameInv
  <2>2. n \in Nat
    BY <2>1, LenProperties
  <2>3. QED
    BY <1>2, <2>1, <2>2 DEF MeasuringInv, FrameInv
<1>10. /\ frameLog' \in Seq(FrameRecords) /\ Len(frameLog') = n
       /\ \A k \in 1..(n - 1) : frameLog'[k] = frameLog[k]
       /\ frameLog'[n].ticks = frameLog[n].ticks + 1 /\ frameLog'[n].allocs = frameLog[n].allocs + grown
       /\ frameLog'[n].warns = frameLog[n].warns + Cardinality(late)
       /\ frameLog'[n].errors = frameLog[n].errors + Cardinality(critical)
       /\ frameLog[n].ticks \in Nat /\ frameLog[n].allocs \in Nat
       /\ frameLog[n].warns \in Nat /\ frameLog[n].errors \in Nat
  <2> DEFINE after == ticks + 1
             w == Cardinality(late)
             c == Cardinality(critical)
             last == frameLog[n]
             e == Counted(last, after, grown, w, c)
  <2>1. after \in Nat /\ w \in Nat /\ c \in Nat /\ grown \in Nat
    BY <1>8, <1>9
  <2>2. last \in FrameRecords /\ n \in DOMAIN frameLog
    BY <1>9, ElementOfSeq, LenProperties
  <2>3. frameLog' = [frameLog EXCEPT ![n] = e]
    BY <1>1, <2>2 DEF late, critical, Counted
  <2> HIDE DEF after, w, c, last
  <2>4. e \in FrameRecords /\ e.ticks = last.ticks + 1 /\ e.allocs = last.allocs + grown
        /\ e.warns = last.warns + w /\ e.errors = last.errors + c
    <3> DEFINE g == grown
    <3>1. g \in Nat
      BY <2>1
    <3> HIDE DEF g
    <3>2. Counted(last, after, g, w, c) \in FrameRecords
      BY <2>1, <2>2, <3>1, CountedIs
    <3>3. Counted(last, after, g, w, c).ticks = last.ticks + 1
      BY <2>1, <2>2, <3>1, CountedIs
    <3>4. Counted(last, after, g, w, c).allocs = last.allocs + g
      BY <2>1, <2>2, <3>1, CountedIs
    <3>5. Counted(last, after, g, w, c).warns = last.warns + w
      BY <2>1, <2>2, <3>1, CountedIs
    <3>6. Counted(last, after, g, w, c).errors = last.errors + c
      BY <2>1, <2>2, <3>1, CountedIs
    <3>7. QED
      BY <3>2, <3>3, <3>4, <3>5, <3>6 DEF g
  <2>5. last.ticks \in Nat /\ last.allocs \in Nat /\ last.warns \in Nat /\ last.errors \in Nat
    BY <2>2 DEF FrameRecords
  <2> HIDE DEF e
  <2>6. /\ frameLog' \in Seq(FrameRecords) /\ Len(frameLog') = n /\ frameLog'[n] = e
        /\ \A k \in 1..(n - 1) : frameLog'[k] = frameLog[k]
    BY <1>9, <2>3, <2>4, LogWith
  <2>7. QED
    BY <2>4, <2>5, <2>6 DEF w, c, last
<1> HIDE DEF n
<1>11. FrameInv'
  <2>1. ticks' \in Nat /\ ticks' = inFrame.ticks + frameLog'[n].ticks
    BY <1>2, <1>9, <1>10
  <2>2. reserved' \in Nat /\ reserved' = inFrame.reserved + frameLog'[n].allocs
    <3> DEFINE r == frameLog[n].allocs
               i == inFrame.reserved
    <3>1. grown \in Nat /\ i \in Nat /\ reserved = i + r /\ reserved \in Nat
      BY <1>9
    <3>2. reserved' = reserved + grown
      BY <1>1
    <3>3. frameLog'[n].allocs = r + grown /\ r \in Nat
      BY <1>10
    <3> HIDE DEF r, i
    <3>4. reserved' \in Nat /\ reserved' = i + frameLog'[n].allocs
      BY <3>1, <3>2, <3>3
    <3>5. QED
      BY <3>4 DEF i
  <2>3. /\ BudgetEventTotals'.warns = inFrame.events.warns + frameLog'[n].warns
        /\ BudgetEventTotals'.errors = inFrame.events.errors + frameLog'[n].errors
    <3> DEFINE w == frameLog[n].warns
               c == frameLog[n].errors
               iw == inFrame.events.warns
               ic == inFrame.events.errors
               l == Cardinality(late)
               m == Cardinality(critical)
    <3>1. iw \in Nat /\ ic \in Nat /\ BudgetEventTotals.warns = iw + w /\ BudgetEventTotals.errors = ic + c
      BY <1>9
    <3>2. frameLog'[n].warns = w + l /\ frameLog'[n].errors = c + m /\ w \in Nat /\ c \in Nat
      BY <1>10
    <3>3. /\ BudgetEventTotals'.warns = BudgetEventTotals.warns + l
          /\ BudgetEventTotals'.errors = BudgetEventTotals.errors + m
          /\ l \in Nat /\ m \in Nat
      BY <1>8
    <3> HIDE DEF w, c, iw, ic, l, m
    <3>4. BudgetEventTotals'.warns = iw + frameLog'[n].warns /\ BudgetEventTotals'.errors = ic + frameLog'[n].errors
      BY <3>1, <3>2, <3>3
    <3>5. QED
      BY <3>4 DEF iw, ic
  <2>4. QED
    BY <1>2, <1>9, <1>10, <2>1, <2>2, <2>3 DEF FrameInv
<1>12. RingInv'
  <2>1. Completed' = n - 1 /\ Completed = n - 1
    BY <1>2, <1>10 DEF Completed, n
  <2>2. RingHolds(ring, frameLog, n - 1)
    BY <2>1 DEF MeasuringInv, RingInv
  <2>3. RingHolds(ring, frameLog', n - 1)
    BY <1>10, <2>2 DEF RingHolds, InPlace
  <2>4. QED
    BY <1>2, <2>1, <2>3 DEF RingInv
<1>13. ~Reported'
  BY <1>2 DEF MeasuringInv, ReportMade, Reported
<1>14. QED
  BY <1>7, <1>11, <1>12, <1>13

\* Closing a frame puts its record, as the history has it, into the ring.
LEMMA CloseKeeps == ASSUME MeasuringInv, CloseFrame PROVE WindowsInv' /\ FrameInv' /\ RingInv' /\ ~Reported'
<1> DEFINE n == Len(frameLog)
           last == frameLog[n]
           done == [last EXCEPT !.tickAfter = ticks]
<1>1. /\ inFrame.open /\ inFrame' = [open |-> FALSE] /\ ring' = Pushed(ring, FrameRecord)
      /\ frameLog' = [frameLog EXCEPT ![n].tickAfter = ticks]
      /\ timing' = timing /\ sampleLog' = sampleLog
      /\ ticks' = ticks /\ reserved' = reserved /\ report' = report
  BY DEF CloseFrame, NotInFrame
<1>2. WindowsInv'
  BY <1>1 DEF MeasuringInv, WindowsInv
<1>3. ~Reported'
  BY <1>1 DEF MeasuringInv, ReportMade, Reported
<1>4. /\ frameLog \in Seq(FrameRecords) /\ ticks \in Nat /\ reserved \in Nat
      /\ n > 0 /\ n \in Nat /\ n \in DOMAIN frameLog /\ last \in FrameRecords
  <2>1. frameLog \in Seq(FrameRecords) /\ ticks \in Nat /\ reserved \in Nat /\ n > 0
    BY <1>1 DEF MeasuringInv, FrameInv
  <2>2. n \in Nat /\ n \in DOMAIN frameLog
    BY <2>1, LenProperties
  <2>3. QED
    BY <2>1, <2>2, ElementOfSeq, LenProperties
<1>5. FrameRecord = done
  <2>1. PICK a \in Nat, b \in Nat, g \in Nat, w \in Nat, c \in Nat :
          last = [ticks |-> a, tickAfter |-> b, allocs |-> g, warns |-> w, errors |-> c]
    BY <1>4, RecordIs
  <2>2. done = [ticks |-> a, tickAfter |-> ticks, allocs |-> g, warns |-> w, errors |-> c]
    <3> HIDE DEF last
    <3>1. QED
      BY <2>1
  <2>3. /\ ticks = inFrame.ticks + last.ticks /\ reserved = inFrame.reserved + last.allocs
        /\ BudgetEventTotals.warns = inFrame.events.warns + last.warns
        /\ BudgetEventTotals.errors = inFrame.events.errors + last.errors
        /\ inFrame.ticks \in Nat /\ inFrame.reserved \in Nat
        /\ inFrame.events.warns \in Nat /\ inFrame.events.errors \in Nat
    BY <1>1 DEF MeasuringInv, FrameInv
  <2>4. last.ticks = a /\ last.allocs = g /\ last.warns = w /\ last.errors = c
    <3> HIDE DEF last
    <3>1. QED
      BY <2>1
  <2> HIDE DEF last, done
  <2>5. ticks - inFrame.ticks = a
    BY <2>3, <2>4
  <2>6. reserved - inFrame.reserved = g
    BY <2>3, <2>4
  <2>7. BudgetEventTotals.warns - inFrame.events.warns = w
    BY <2>3, <2>4
  <2>8. BudgetEventTotals.errors - inFrame.events.errors = c
    BY <2>3, <2>4
  <2>9. QED
    BY <2>2, <2>5, <2>6, <2>7, <2>8 DEF FrameRecord
<1>6. done \in FrameRecords
  <2> HIDE DEF last
  <2>1. QED
    BY <1>4 DEF FrameRecords
<1>7. frameLog' = [frameLog EXCEPT ![n] = done]
  BY <1>1, <1>4
<1> HIDE DEF done
<1>8. /\ frameLog' \in Seq(FrameRecords) /\ Len(frameLog') = n /\ frameLog'[n] = done
      /\ \A k \in 1..(n - 1) : frameLog'[k] = frameLog[k]
  BY <1>4, <1>6, <1>7, LogWith
<1> HIDE DEF last
<1>9. FrameInv'
  BY <1>1, <1>4, <1>8 DEF FrameInv
<1>10. Completed = n - 1 /\ Completed' = n
  BY <1>1, <1>8 DEF Completed
<1> HIDE DEF n
<1>11. RingInv'
  <2> DEFINE p == n - 1
             slots == ring.slots
             put == [slots EXCEPT ![p % FrameWindow] = done]
  <2>1. FrameWindow \in Nat \ {0} /\ p \in Nat /\ p + 1 = n
    BY <1>4, FrameBudgetAssumption
  <2>2. /\ ring = [slots |-> slots, cursor |-> p % FrameWindow, count |-> Lesser(p, FrameWindow), total |-> p]
        /\ DOMAIN slots = 0..(FrameWindow - 1)
        /\ InPlace(slots, frameLog, p, Lesser(p, FrameWindow), FrameWindow)
    BY <1>10 DEF MeasuringInv, RingInv, RingHolds
  <2>3. \A k \in 1..p : frameLog'[k] = frameLog[k]
    BY <1>8
  <2> HIDE DEF p, slots
  <2>4. put = [slots EXCEPT ![p % FrameWindow] = frameLog'[p + 1]]
    BY <1>8, <2>1
  <2>5. /\ InPlace(put, frameLog', p + 1, Lesser(p + 1, FrameWindow), FrameWindow)
        /\ ((p % FrameWindow) + 1) % FrameWindow = (p + 1) % FrameWindow
        /\ Lesser(p + 1, FrameWindow)
             = IF Lesser(p, FrameWindow) < FrameWindow THEN Lesser(p, FrameWindow) + 1 ELSE Lesser(p, FrameWindow)
        /\ p % FrameWindow \in 0..(FrameWindow - 1)
    <3> HIDE DEF put
    <3>1. QED
      BY <2>1, <2>2, <2>3, <2>4, PutInPlace
  <2>6. DOMAIN put = 0..(FrameWindow - 1)
    BY <2>2
  <2>7. ring' = [slots |-> put, cursor |-> ((p % FrameWindow) + 1) % FrameWindow,
                 count |-> IF Lesser(p, FrameWindow) < FrameWindow THEN Lesser(p, FrameWindow) + 1
                           ELSE Lesser(p, FrameWindow),
                 total |-> p + 1]
    <3>1. /\ ring.slots = slots /\ ring.cursor = p % FrameWindow
          /\ ring.count = Lesser(p, FrameWindow) /\ ring.total = p
      BY <2>2
    <3>2. QED
      BY <1>1, <1>5, <3>1 DEF Pushed
  <2> HIDE DEF put
  <2>8. ring' = [slots |-> put, cursor |-> n % FrameWindow, count |-> Lesser(n, FrameWindow), total |-> n]
    BY <2>1, <2>5, <2>7
  <2>9. ring'.slots = put
    BY <2>8
  <2>10. InPlace(put, frameLog', n, Lesser(n, FrameWindow), FrameWindow)
    BY <2>1, <2>5
  <2>11. QED
    BY <1>10, <2>6, <2>8, <2>9, <2>10 DEF RingInv, RingHolds
<1>12. QED
  BY <1>2, <1>3, <1>9, <1>11

\* The frames a report shows are the latest, and they fit the window it asks for.
LEMMA ShownAreLatest ==
    ASSUME MeasuringInv, ~inFrame.open, NEW asked \in Nat
    PROVE  LET shown == ShownFrames(asked)
           IN  /\ Len(shown) \in 0..Len(frameLog)
               /\ DOMAIN shown = 1..Len(shown)
               /\ shown = LastOf(frameLog, Len(shown))
<1> DEFINE n == Len(frameLog)
           count == Lesser(n, FrameWindow)
           limit == IF asked = 0 THEN FrameWindow ELSE Lesser(asked, FrameWindow)
           m == Lesser(count, limit)
<1>1. FrameWindow \in Nat \ {0}
  BY FrameBudgetAssumption
<1>2. frameLog \in Seq(FrameRecords) /\ n \in Nat
  <2>1. frameLog \in Seq(FrameRecords)
    BY DEF MeasuringInv, FrameInv
  <2>2. QED
    BY <2>1, LenProperties
<1>3. /\ ring.count = count /\ ring.total = n
      /\ InPlace(ring.slots, frameLog, n, count, FrameWindow)
  <2>1. Completed = n
    BY DEF Completed
  <2>2. RingHolds(ring, frameLog, n)
    BY <2>1 DEF MeasuringInv, RingInv
  <2>3. QED
    BY <2>2 DEF RingHolds
<1> HIDE DEF n
<1>4. count \in 0..n /\ count \in 0..FrameWindow /\ limit \in Nat /\ m \in 0..count /\ m \in 0..n
  BY <1>1, <1>2 DEF Lesser
<1>5. ShownFrames(asked) = [i \in 1..m |-> Retained(((count - m) + i) - 1)]
  <2> DEFINE a == IF asked = 0 THEN FrameWindow ELSE Min({asked, FrameWindow})
             shown == Min({ring.count, a})
  <2>1. a = limit
    <3>1. Min({asked, FrameWindow}) = Lesser(asked, FrameWindow)
      BY <1>1, MinIs
    <3>2. QED
      BY <3>1
  <2> HIDE DEF a, limit, count
  <2>2. shown = m
    BY <1>3, <1>4, <2>1, MinIs
  <2>3. ShownFrames(asked) = [i \in 1..shown |-> Retained(((ring.count - shown) + i) - 1)]
    <3>1. ShownFrames(asked) = [i \in 1..shown |-> Retained(ring.count - shown + i - 1)]
      BY DEF ShownFrames, a
    <3>2. ring.count \in Nat /\ shown \in Nat
      BY <1>3, <1>4, <2>2
    <3> HIDE DEF shown
    <3>3. \A i \in 1..shown : (ring.count - shown + i - 1) = ((ring.count - shown) + i) - 1
      BY <3>2
    <3>4. QED
      BY <3>1, <3>3
  <2> HIDE DEF shown, m
  <2>4. QED
    BY <1>3, <2>2, <2>3
<1> HIDE DEF count, limit, m
<1>6. ASSUME NEW i \in 1..m PROVE Retained(((count - m) + i) - 1) = frameLog[(n - m) + i]
  <2> DEFINE b == n - count
             j == ((count - m) + i) - 1
             k == (n - m) + i
             q == k - 1
  <2>1. b \in Nat /\ j \in Nat /\ k \in 1..n /\ k > n - count /\ b + j = q /\ q = k - 1
    BY <1>2, <1>4
  <2>2. Retained(j) = ring.slots[((b % FrameWindow) + j) % FrameWindow]
    BY <1>3 DEF Retained
  <2> HIDE DEF b, j, k, q
  <2>3. ((b % FrameWindow) + j) % FrameWindow = q % FrameWindow
    <3>1. b \in Nat /\ j \in Nat
      BY <2>1
    <3>2. ((b % FrameWindow) + j) % FrameWindow = (b + j) % FrameWindow
      BY <1>1, <3>1, ModShift
    <3>3. b + j = q
      BY <2>1
    <3>4. QED
      BY <3>2, <3>3
  <2>4. ring.slots[q % FrameWindow] = frameLog[k]
    BY <1>3, <2>1 DEF InPlace
  <2>5. QED
    BY <2>2, <2>3, <2>4 DEF j, k
<1>7. ShownFrames(asked) = [i \in 1..m |-> frameLog[(n - m) + i]]
  BY <1>5, <1>6
<1>8. LastOf(frameLog, m) = [i \in 1..m |-> frameLog[(n - m) + i]]
  BY <1>2, <1>4, LastIs DEF n
<1>9. Len(ShownFrames(asked)) = m /\ DOMAIN ShownFrames(asked) = 1..m
  <2>1. \A i \in 1..m : frameLog[(n - m) + i] \in FrameRecords
    <3>1. \A i \in 1..m : (n - m) + i \in 1..n
      BY <1>2, <1>4
    <3>2. QED
      BY <1>2, <3>1, ElementOfSeq DEF n
  <2>2. ShownFrames(asked) \in [1..m -> FrameRecords] /\ m \in Nat
    BY <1>4, <1>7, <2>1
  <2>3. ShownFrames(asked) \in Seq(FrameRecords)
    BY <2>2, SeqDef
  <2>4. QED
    BY <2>2, <2>3, LenProperties
<1>10. QED
  BY <1>4, <1>7, <1>8, <1>9 DEF n

\* A report tells the frames and the windows as they are when it is made.
LEMMA ReportTells ==
    ASSUME MeasuringInv, ~inFrame.open, NEW asked \in Nat, NEW built, built = BuildReport(asked)
    PROVE  /\ built.frames = LastOf(frameLog, Len(built.frames))
           /\ built.passed => /\ frameLog # <<>>
                             /\ \A s \in Systems : sampleLog[s] # <<>>
           /\ \A s \in Systems :
                LET kept == Min({Len(sampleLog[s]), SystemWindow})
                    recent == LastOf(sampleLog[s], kept)
                    over == \E i \in DOMAIN recent : recent[i] > Budgets[s]
                IN /\ (built.systems[s] = "PASS") = (kept > 0 /\ ~over)
                   /\ (s \in built.overBudget) = over
<1> DEFINE shown == ShownFrames(asked)
           results == [s \in Systems |-> SystemResult(s)]
<1>1. /\ Len(shown) \in 0..Len(frameLog) /\ DOMAIN shown = 1..Len(shown)
      /\ shown = LastOf(frameLog, Len(shown))
  <2> HIDE DEF shown
  <2>1. QED
    BY ShownAreLatest DEF shown
<1>2. /\ built.frames = shown /\ built.systems = results
      /\ built.overBudget = {s \in Systems : results[s] = "FAIL"}
      /\ built.passed => \A s \in Systems : results[s] = "PASS"
  BY DEF BuildReport
<1>3. built.passed => Len(shown) # 0
  <2>1. ASSUME Len(shown) = 0 PROVE ~built.passed
    <3>1. DOMAIN shown = {}
      <4> HIDE DEF shown
      <4>1. QED
        BY <1>1, <2>1
    <3>2. ~BuildReport(asked).passed
      BY <2>1, <3>1, NoFramesNoPass
    <3>3. QED
      BY <3>2
  <2>2. QED
    BY <2>1
<1>4. ASSUME NEW s \in Systems
      PROVE  LET kept == Min({Len(sampleLog[s]), SystemWindow})
                 recent == LastOf(sampleLog[s], kept)
                 over == \E i \in DOMAIN recent : recent[i] > Budgets[s]
             IN  /\ (results[s] = "PASS") = (kept > 0 /\ ~over)
                 /\ (results[s] = "FAIL") = over
                 /\ results[s] = "PASS" => sampleLog[s] # <<>>
  <2> DEFINE log == sampleLog[s]
             kept == Lesser(Len(log), SystemWindow)
             recent == LastOf(log, kept)
             over == \E i \in DOMAIN recent : recent[i] > Budgets[s]
  <2>1. log \in Seq(Nat) /\ HoldsLast(timing[s].window, SystemWindow, log)
    BY DEF MeasuringInv, WindowsInv
  <2>2. Len(log) \in Nat /\ SystemWindow \in Nat \ {0}
    BY <2>1, LenProperties, WindowSize
  <2>3. Min({Len(log), SystemWindow}) = kept
    <3>1. Len(log) \in Int /\ SystemWindow \in Int
      BY <2>2
    <3>2. QED
      BY <3>1, MinIs
  <2>4. results[s] = SystemResult(s)
    OBVIOUS
  <2> HIDE DEF log
  <2>5. /\ (SystemResult(s) = "PASS") = (kept > 0 /\ ~over)
        /\ (SystemResult(s) = "FAIL") = over
    BY <2>1, ResultIs
  <2>6. kept > 0 => log # <<>>
    <3>1. log = <<>> => Len(log) = 0
      BY EmptySeq
    <3>2. QED
      BY <2>2, <3>1 DEF Lesser
  <2> HIDE DEF kept
  <2>7. SystemResult(s) = "PASS" => log # <<>>
    BY <2>5, <2>6
  <2>8. QED
    BY <2>3, <2>4, <2>5, <2>7 DEF log
<1> HIDE DEF shown, results
<1>5. built.frames = LastOf(frameLog, Len(built.frames))
  BY <1>1, <1>2
<1>6. built.passed => /\ frameLog # <<>>
                     /\ \A s \in Systems : sampleLog[s] # <<>>
  <2>1. frameLog = <<>> => Len(frameLog) = 0
    BY EmptySeq
  <2>2. built.passed => frameLog # <<>>
    BY <1>1, <1>3, <2>1
  <2>3. built.passed => \A s \in Systems : sampleLog[s] # <<>>
    BY <1>2, <1>4
  <2>4. QED
    BY <2>2, <2>3
<1>7. ASSUME NEW s \in Systems
      PROVE  LET kept == Min({Len(sampleLog[s]), SystemWindow})
                 recent == LastOf(sampleLog[s], kept)
                 over == \E i \in DOMAIN recent : recent[i] > Budgets[s]
             IN /\ (built.systems[s] = "PASS") = (kept > 0 /\ ~over)
                /\ (s \in built.overBudget) = over
  <2>1. built.systems[s] = results[s]
    BY <1>2
  <2>2. (s \in built.overBudget) = (results[s] = "FAIL")
    BY <1>2
  <2>3. QED
    BY <1>4, <2>1, <2>2
<1>8. QED
  BY <1>5, <1>6, <1>7

LEMMA MakeKeeps == ASSUME MeasuringInv, MakeReport PROVE MeasuringInv'
<1>1. /\ ~inFrame.open /\ inFrame' = inFrame /\ ring' = ring /\ frameLog' = frameLog
      /\ timing' = timing /\ sampleLog' = sampleLog /\ ticks' = ticks /\ reserved' = reserved
  BY DEF MakeReport, Outside
<1>2. WindowsInv' /\ FrameInv' /\ RingInv'
  BY <1>1 DEF MeasuringInv, WindowsInv, FrameInv, BudgetEventTotals, RingInv, Completed
<1>3. PICK asked \in LastNs : report' = BuildReport(asked)
  BY DEF MakeReport
<1>4. asked \in Nat
  BY FrameBudgetAssumption
<1>5. /\ report'.frames = LastOf(frameLog, Len(report'.frames))
      /\ report'.passed => /\ frameLog # <<>>
                           /\ \A s \in Systems : sampleLog[s] # <<>>
      /\ \A s \in Systems :
           LET kept == Min({Len(sampleLog[s]), SystemWindow})
               recent == LastOf(sampleLog[s], kept)
               over == \E i \in DOMAIN recent : recent[i] > Budgets[s]
           IN /\ (report'.systems[s] = "PASS") = (kept > 0 /\ ~over)
              /\ (s \in report'.overBudget) = over
  BY <1>1, <1>3, <1>4, ReportTells
<1>6. ReportMade'
  <2>1. ReportTellsRecentFrames'
    BY <1>1, <1>5 DEF ReportTellsRecentFrames
  <2>2. VerdictIsTheWindow'
    BY <1>1, <1>5 DEF VerdictIsTheWindow
  <2>3. QED
    BY <1>1, <2>1, <2>2 DEF ReportMade, ReportIsWhatHappened
<1>7. QED
  BY <1>2, <1>6 DEF MeasuringInv

\* What only feeds, moves or writes a profile disturbs none of it.
LEMMA MeasuredStays ==
    ASSUME MeasuringInv, UNCHANGED <<timing, reserved, ticks, ring, inFrame, report, frameLog, sampleLog>>
    PROVE  MeasuringInv'
<1>1. WindowsInv' /\ FrameInv' /\ RingInv'
  BY DEF MeasuringInv, WindowsInv, FrameInv, BudgetEventTotals, RingInv, Completed
<1>2. ReportMade'
  BY DEF MeasuringInv, ReportMade, Reported, ReportIsWhatHappened, ReportTellsRecentFrames, VerdictIsTheWindow
<1>3. QED
  BY <1>1, <1>2 DEF MeasuringInv

LEMMA MeasuringStep == ASSUME MeasuringInv, [MeasuringNext]_measuringVars PROVE MeasuringInv'
<1>1. CASE FeedRender
  BY <1>1, MeasuredStays DEF FeedRender
<1>2. CASE MoveProfiler
  BY <1>2, MeasuredStays DEF MoveProfiler
<1>3. CASE OpenFrame
  <2>1. WindowsInv' /\ FrameInv' /\ RingInv'
    BY <1>3, OpenKeeps
  <2>2. ~Reported'
    BY <1>3 DEF OpenFrame, Reported
  <2>3. ReportMade'
    BY <2>2 DEF ReportMade, ReportIsWhatHappened, ReportTellsRecentFrames, VerdictIsTheWindow
  <2>4. QED
    BY <2>1, <2>3 DEF MeasuringInv
<1>4. CASE MeasuredTick
  <2>1. WindowsInv' /\ FrameInv' /\ RingInv' /\ ~Reported'
    BY <1>4, TickKeeps
  <2>2. ReportMade'
    BY <2>1 DEF ReportMade, ReportIsWhatHappened, ReportTellsRecentFrames, VerdictIsTheWindow
  <2>3. QED
    BY <2>1, <2>2 DEF MeasuringInv
<1>5. CASE CloseFrame
  <2>1. WindowsInv' /\ FrameInv' /\ RingInv' /\ ~Reported'
    BY <1>5, CloseKeeps
  <2>2. ReportMade'
    BY <2>1 DEF ReportMade, ReportIsWhatHappened, ReportTellsRecentFrames, VerdictIsTheWindow
  <2>3. QED
    BY <2>1, <2>2 DEF MeasuringInv
<1>6. CASE MakeReport
  BY <1>6, MakeKeeps
<1>7. CASE WriteProfile
  BY <1>7, MeasuredStays DEF WriteProfile
<1>8. CASE UNCHANGED measuringVars
  BY <1>8, MeasuredStays DEF measuringVars
<1>9. QED
  BY <1>1, <1>2, <1>3, <1>4, <1>5, <1>6, <1>7, <1>8 DEF MeasuringNext

\* The report of a run tells its latest frames as they were and judges each
\* system by the times its window keeps, for any budgets, windows and lengths
\* of a run: the ring of records, the histograms and the differences of totals
\* lose and shift nothing (frame_budget.cpp, budget_harness.h, engine.cpp).
THEOREM TheReportIsWhatHappened == MeasuringSpec => []ReportIsWhatHappened
<1>1. MeasuringInit => MeasuringInv
  BY MeasuringBegins
<1>2. MeasuringInv /\ [MeasuringNext]_measuringVars => MeasuringInv'
  BY MeasuringStep
<1>3. MeasuringInv => ReportIsWhatHappened
  BY DEF MeasuringInv, ReportMade
<1>4. QED
  BY <1>1, <1>2, <1>3, PTL DEF MeasuringSpec

=============================================================================
