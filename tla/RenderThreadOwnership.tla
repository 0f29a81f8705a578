----------------------- MODULE RenderThreadOwnership ------------------------
(***************************************************************************)
(* Who owns the thread of a laige::render::RenderThread: construction,      *)
(* shutdown, destruction and the two moves (frame_pipeline.cpp).  The       *)
(* consumer's loop is reduced to "it runs until it sees the stop flag of    *)
(* the object it was started on"; its thread is named by that object.       *)
(* A call that joins has two steps: the stop request, and the return once   *)
(* the thread has exited.                                                   *)
(***************************************************************************)
EXTENDS Naturals

CONSTANTS
    Objects,   \* the RenderThread objects of the program
    None       \* a thread handle that is not joinable

VARIABLES
    alive,    \* the object is constructed and not yet destroyed
    fresh,    \* the object has never been constructed
    valid,    \* valid_
    stop,     \* stop_
    handle,   \* thread_: whose thread it refers to, or None
    running,  \* the thread started on the object has not exited
    call,     \* the owner's call in progress
    terminated  \* std::terminate was called

vars == <<alive, fresh, valid, stop, handle, running, call, terminated>>

NoCall == [name |-> "none", target |-> None, source |-> None, joins |-> FALSE]

Init ==
    /\ alive = [o \in Objects |-> FALSE]
    /\ fresh = [o \in Objects |-> TRUE]
    /\ valid = [o \in Objects |-> FALSE]
    /\ stop = [o \in Objects |-> FALSE]
    /\ handle = [o \in Objects |-> None]
    /\ running = [o \in Objects |-> FALSE]
    /\ call = NoCall
    /\ terminated = FALSE

Idle == call = NoCall /\ ~terminated

\* The constructor spawns the consumer thread.
Construct(o) ==
    /\ Idle
    /\ fresh[o]
    /\ alive' = [alive EXCEPT ![o] = TRUE]
    /\ fresh' = [fresh EXCEPT ![o] = FALSE]
    /\ valid' = [valid EXCEPT ![o] = TRUE]
    /\ handle' = [handle EXCEPT ![o] = o]
    /\ running' = [running EXCEPT ![o] = TRUE]
    /\ UNCHANGED <<stop, call, terminated>>

\* The first half of shutdown(): a no-op on a stopped object.
StopRequest(o) ==
    /\ valid' = [valid EXCEPT ![o] = FALSE]
    /\ stop' = IF valid[o] THEN [stop EXCEPT ![o] = TRUE] ELSE stop

\* A call that stops an object; it joins only if the object was not stopped.
Begin(name, target, source, stopped) ==
    /\ Idle
    /\ alive[stopped]
    /\ StopRequest(stopped)
    /\ call' = [name |-> name, target |-> target, source |-> source,
                joins |-> valid[stopped]]
    /\ UNCHANGED <<alive, fresh, handle, running, terminated>>

\* The second half of shutdown() waits for the thread the handle refers to.
Joined(o) == call.joins => ~running[handle[o]]

\* The handle of o after the second half of shutdown().
HandleAfterStop(o) == IF call.joins THEN None ELSE handle[o]

BeginShutdown(o) == valid[o] /\ Begin("shutdown", o, None, o)

EndShutdown ==
    /\ call.name = "shutdown"
    /\ Joined(call.target)
    /\ handle' = [handle EXCEPT ![call.target] = None]
    /\ call' = NoCall
    /\ UNCHANGED <<alive, fresh, valid, stop, running, terminated>>

BeginDestroy(o) == Begin("destroy", o, None, o)

\* ~thread() of a handle still joinable calls std::terminate.
EndDestroy ==
    /\ call.name = "destroy"
    /\ Joined(call.target)
    /\ terminated' = (HandleAfterStop(call.target) # None)
    /\ alive' = [alive EXCEPT ![call.target] = FALSE]
    /\ handle' = [handle EXCEPT ![call.target] = None]
    /\ call' = NoCall
    /\ UNCHANGED <<fresh, valid, stop, running>>

\* Move construction stops and joins the source, then takes its handle.
BeginMoveConstruct(dst, src) ==
    fresh[dst] /\ Begin("moveConstruct", dst, src, src)

EndMoveConstruct ==
    /\ call.name = "moveConstruct"
    /\ Joined(call.source)
    /\ alive' = [alive EXCEPT ![call.target] = TRUE]
    /\ fresh' = [fresh EXCEPT ![call.target] = FALSE]
    /\ handle' = [handle EXCEPT ![call.target] = HandleAfterStop(call.source),
                                ![call.source] = None]
    /\ stop' = [stop EXCEPT ![call.target] = stop[call.source]]
    /\ call' = NoCall
    /\ UNCHANGED <<valid, running, terminated>>

\* Move assignment stops and joins the target, takes the source's handle and
\* only then shuts the source down, whose own handle is empty by now.
\* Assigning over a handle still joinable calls std::terminate.
BeginMoveAssign(dst, src) ==
    /\ dst # src
    /\ alive[src]
    /\ Begin("moveAssign", dst, src, dst)

EndMoveAssign ==
    /\ call.name = "moveAssign"
    /\ Joined(call.target)
    /\ LET dst == call.target
           src == call.source
       IN  /\ terminated' = (HandleAfterStop(dst) # None)
           /\ handle' = [handle EXCEPT ![dst] = handle[src], ![src] = None]
           /\ stop' = [stop EXCEPT ![dst] = stop[src],
                                   ![src] = stop[src] \/ valid[src]]
           /\ valid' = [valid EXCEPT ![src] = FALSE]
    /\ call' = NoCall
    /\ UNCHANGED <<alive, fresh, running>>

\* runConsumer leaves its loop on the stop flag of its own object.
ConsumerExits(o) ==
    /\ running[o]
    /\ stop[o]
    /\ running' = [running EXCEPT ![o] = FALSE]
    /\ UNCHANGED <<alive, fresh, valid, stop, handle, call, terminated>>

Next ==
    \/ \E o \in Objects :
         \/ Construct(o) \/ BeginShutdown(o) \/ BeginDestroy(o)
         \/ ConsumerExits(o)
    \/ \E dst, src \in Objects :
         BeginMoveConstruct(dst, src) \/ BeginMoveAssign(dst, src)
    \/ EndShutdown \/ EndDestroy \/ EndMoveConstruct \/ EndMoveAssign

Spec == Init /\ [][Next]_vars

\* "The move stops the source (joins the running thread when one is live)",
\* and shutdown is ordered, "the thread never outlives the call"
\* (frame_pipeline.h): between calls a stopped object has neither a running
\* thread nor a joinable handle.
StoppedMeansJoined ==
    Idle => \A o \in Objects :
              ~valid[o] => handle[o] = None /\ ~running[o]
=============================================================================
