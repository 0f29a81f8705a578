----------------------------- MODULE AllocWatch -----------------------------
(***************************************************************************)
(* The allocation watch (alloc_watch.cpp): the global operator new counts   *)
(* the heap allocations of the thread that armed the watch, except while    *)
(* the logging facade emits.  One action per access to the shared atomics   *)
(* (all relaxed, so every interleaving of them may be seen).                *)
(***************************************************************************)
EXTENDS Integers, Sequences, FiniteSets

CONSTANTS
    Loop,         \* the thread that runs the ticks
    Others,       \* other threads
    MaxAllocs     \* bound: allocations each thread makes in all

Threads == {Loop} \cup Others
NoSite == <<>>
ASSUME ThreadsAssumption ==
    Loop \notin Others /\ IsFiniteSet(Others) /\ NoSite \notin Threads /\ MaxAllocs \in Nat

VARIABLES
    depth,    \* kLoggingEmitDepth
    armed, owner, firstSite, allocs,  \* the watch's other words
    pc,       \* per thread: where it is
    emitting, \* per thread: inside a logging emit
    made,     \* per thread: allocations begun (a site is <<thread, number>>)
    reading,  \* what the last allocWatchRead returned
    \* history
    mine,     \* the owner's allocations since it armed, outside its own emits
    overlapped  \* another thread was emitting at some time since the arm
watchVars == <<depth, armed, owner, firstSite, allocs, pc, emitting, made, reading, mine, overlapped>>
watch == <<armed, owner, firstSite, allocs>>
history == <<mine, overlapped>>

WatchInit ==
    /\ depth = 0 /\ armed = FALSE /\ owner = NoSite /\ firstSite = NoSite /\ allocs = 0
    /\ pc = [t \in Threads |-> "idle"]
    /\ emitting = [t \in Threads |-> FALSE]
    /\ made = [t \in Threads |-> 0]
    /\ reading = [allocs |-> 0, site |-> NoSite]
    /\ mine = <<>> /\ overlapped = FALSE

Goto(t, from, to) == pc[t] = from /\ pc' = [pc EXCEPT ![t] = to]

\* The four stores of allocWatchArm, in their order.
ArmStep(step, next) == Goto(Loop, step, next)
ArmOwner ==
    /\ ArmStep("idle", "arm_site") /\ ~emitting[Loop]
    /\ owner' = Loop
    /\ UNCHANGED <<armed, firstSite, allocs>>
ArmSite ==
    /\ ArmStep("arm_site", "arm_count")
    /\ firstSite' = NoSite
    /\ UNCHANGED <<armed, owner, allocs>>
ArmCount ==
    /\ ArmStep("arm_count", "arm_flag")
    /\ allocs' = 0
    /\ UNCHANGED <<armed, owner, firstSite>>
ArmFlag ==
    /\ ArmStep("arm_flag", "idle")
    /\ armed' = TRUE
    /\ mine' = <<>>
    /\ overlapped' = (\E t \in Others : emitting[t])
    /\ UNCHANGED <<owner, firstSite, allocs>>
Arm ==
    /\ UNCHANGED <<depth, emitting, made, reading>>
    /\ \/ (ArmOwner \/ ArmSite \/ ArmCount) /\ UNCHANGED history
       \/ ArmFlag

\* LoggingAllocationGuard around an emit.
BeginEmit(t) ==
    /\ pc[t] = "idle" /\ ~emitting[t]
    /\ emitting' = [emitting EXCEPT ![t] = TRUE]
    /\ depth' = depth + 1
    /\ overlapped' = (overlapped \/ t # Loop)
    /\ UNCHANGED <<watch, pc, made, reading, mine>>
EndEmit(t) ==
    /\ pc[t] = "idle" /\ emitting[t]
    /\ emitting' = [emitting EXCEPT ![t] = FALSE]
    /\ depth' = depth - 1
    /\ UNCHANGED <<watch, pc, made, reading, history>>

Site(t) == <<t, made[t]>>

\* operator new, and the three loads of watchRecord with their early returns.
Allocate(t) ==
    /\ made[t] < MaxAllocs
    /\ Goto(t, "idle", "depth")
    /\ made' = [made EXCEPT ![t] = @ + 1]
    /\ mine' = IF t = Loop /\ ~emitting[t] /\ armed THEN Append(mine, <<t, made[t] + 1>>) ELSE mine
    /\ UNCHANGED <<depth, watch, emitting, reading, overlapped>>
LoadDepth(t) ==
    /\ Goto(t, "depth", IF depth > 0 THEN "idle" ELSE "armed")
    /\ UNCHANGED <<depth, watch, emitting, made, reading, history>>
LoadArmed(t) ==
    /\ Goto(t, "armed", IF armed THEN "owner" ELSE "idle")
    /\ UNCHANGED <<depth, watch, emitting, made, reading, history>>
\* Faulty variant: the owner check left out.
LoadOwnerAny(t) ==
    /\ Goto(t, "owner", "count")
    /\ UNCHANGED <<depth, watch, emitting, made, reading, history>>
LoadOwner(t) ==
    /\ Goto(t, "owner", IF owner = t THEN "count" ELSE "idle")
    /\ UNCHANGED <<depth, watch, emitting, made, reading, history>>
Count(t) ==
    /\ Goto(t, "count", "site")
    /\ allocs' = allocs + 1
    /\ UNCHANGED <<depth, armed, owner, firstSite, emitting, made, reading, history>>
\* compare_exchange_strong from null.
SetSite(t) ==
    /\ Goto(t, "site", "idle")
    /\ firstSite' = IF firstSite = NoSite THEN Site(t) ELSE firstSite
    /\ UNCHANGED <<depth, armed, owner, allocs, emitting, made, reading, history>>
WatchRecord(t) == LoadDepth(t) \/ LoadArmed(t) \/ LoadOwner(t) \/ Count(t) \/ SetSite(t)

\* The loop reads after a completed tick; its two loads see its own writes.
Read ==
    /\ pc[Loop] = "idle" /\ armed
    /\ reading' = [allocs |-> allocs, site |-> firstSite]
    /\ UNCHANGED <<depth, watch, pc, emitting, made, history>>

WatchNext ==
    \/ Arm \/ Read
    \/ \E t \in Threads : BeginEmit(t) \/ EndEmit(t) \/ Allocate(t) \/ WatchRecord(t)

WatchSpec == WatchInit /\ [][WatchNext]_watchVars

-----------------------------------------------------------------------------
(* Properties *)

\* The per-tick zero-allocation check (game_loop.cpp, runOneTick) reads what the
\* tick thread allocated since it armed the watch and nothing else: never another
\* thread's allocation, never one of its own emits; all of its allocations, with
\* the first one's site, unless another thread's logging emit overlapped the
\* window (the emit depth is shared, so such an emit hides the owner's too).
ReadsTheTick ==
    Read => /\ allocs <= Len(mine)
            /\ (allocs = 0) = (firstSite = NoSite)
            /\ firstSite # NoSite => \E i \in DOMAIN mine : mine[i] = firstSite
            /\ ~overlapped => allocs = Len(mine) /\ (mine # <<>> => firstSite = mine[1])
ReadCountsTheTick == [][ReadsTheTick]_watchVars

=============================================================================
