---------------------------- MODULE FrameHandoff ----------------------------
(***************************************************************************)
(* What the frame handoff of laige-render promises to its two ends, with    *)
(* no slot, no atomics and no program counters: one owner thread publishes  *)
(* numbered frames, one render thread takes them.                           *)
(*   - a take always takes the NEWEST publication; the older ones that were *)
(*     never taken are dropped;                                             *)
(*   - one frame is rendered at a time, and none is taken twice;            *)
(*   - waitIdle returns only when everything published has been taken and   *)
(*     rendered;                                                            *)
(*   - after shutdown has returned nothing is taken any more.               *)
(* Module RenderThread implements this one.                                 *)
(***************************************************************************)
EXTENDS Naturals

VARIABLES
    published,  \* number of the newest publication (0 before the first)
    taken,      \* number of the last publication the render thread took
    busy,       \* a taken frame is being rendered
    quiet,      \* waitIdle has returned and nothing was published since
    phase       \* "running", "stopping" (shutdown is joining) or "stopped"

handoffVars == <<published, taken, busy, quiet, phase>>

HandoffInit ==
    /\ published = 0
    /\ taken = 0
    /\ busy = FALSE
    /\ quiet = FALSE
    /\ phase = "running"

Publish ==
    /\ phase = "running"
    /\ published' = published + 1
    /\ quiet' = FALSE
    /\ UNCHANGED <<taken, busy, phase>>

Take ==
    /\ phase # "stopped"
    /\ ~busy
    /\ taken < published
    /\ taken' = published
    /\ busy' = TRUE
    /\ UNCHANGED <<published, quiet, phase>>

Finish ==
    /\ busy
    /\ busy' = FALSE
    /\ UNCHANGED <<published, taken, quiet, phase>>

BarrierReturns ==
    /\ phase = "running"
    /\ taken = published
    /\ ~busy
    /\ quiet' = TRUE
    /\ UNCHANGED <<published, taken, busy, phase>>

RequestStop ==
    /\ phase = "running"
    /\ phase' = "stopping"
    /\ UNCHANGED <<published, taken, busy, quiet>>

Joined ==
    /\ phase = "stopping"
    /\ ~busy
    /\ phase' = "stopped"
    /\ UNCHANGED <<published, taken, busy, quiet>>

HandoffNext ==
    \/ Publish \/ Take \/ Finish
    \/ BarrierReturns \/ RequestStop \/ Joined

HandoffSafety == HandoffInit /\ [][HandoffNext]_handoffVars

\* A published frame is taken (or superseded by a newer one that is), a taken
\* frame is finished, and a requested stop completes.
HandoffSpec ==
    /\ HandoffSafety
    /\ WF_handoffVars(Take)
    /\ WF_handoffVars(Finish)
    /\ WF_handoffVars(Joined)
=============================================================================
