------------------------------ MODULE GlContext ------------------------------
(***************************************************************************)
(* The OpenGL contexts (gl_context.cpp): creation with its stages, each of   *)
(* which may fail, the binding of a context to one thread at a time, and     *)
(* destruction.  A native context is a number; an object holds one or, when  *)
(* stopped or moved from, none.                                             *)
(*                                                                          *)
(* Headless contexts are EGL's: a context that is current on another thread  *)
(* is refused, and one that is destroyed stays current until its thread      *)
(* binds another.  Windowed ones are GLFW's, whose binding reports nothing.  *)
(***************************************************************************)
EXTENDS Integers, FiniteSets, TLAPS

CONSTANTS Threads, Objects, MaxContexts   \* bound: the native contexts ever made

VARIABLES impl,       \* object -> its native context, 0 when stopped
          natives,    \* the live native contexts: number -> "egl" or "glfw"
          current,    \* thread -> the native context bound to it, 0 if none
          glad,       \* the GL entry points are resolved
          crashed,    \* an unresolved entry point was called
          painted,    \* the native contexts whose render target was cleared
          \* history
          made, stray,     \* native contexts made so far, and those no object ever held
          asked            \* the objects a clear was asked of, for the context they hold
vars == <<impl, natives, current, glad, crashed, painted, made, stray, asked>>

Init == /\ impl = [o \in Objects |-> 0] /\ natives = <<>> /\ current = [t \in Threads |-> 0]
        /\ glad = FALSE /\ crashed = FALSE /\ made = 0 /\ stray = {} /\ painted = {} /\ asked = {}

Without(n) == [k \in DOMAIN natives \ {n} |-> natives[k]]
CurrentElsewhere(n, t) == \E u \in Threads \ {t} : current[u] = n

\* Binding a context that is current on another thread changes nothing.
Bound(n, t) == IF CurrentElsewhere(n, t) THEN current[t] ELSE n

\* Impl::destroy: bind, glFinish, destroy.  GLFW unbinds the window's context as it goes.
DestroyNative(n, t) ==
    /\ crashed' = (crashed \/ ~glad)
    /\ natives' = Without(n) /\ painted' = painted \ {n}
    /\ current' = [current EXCEPT ![t] = IF natives[n] = "glfw" /\ Bound(n, t) = n THEN 0 ELSE Bound(n, t)]

\* createHeadless and createWindowed.  A stage is what fails; the early ones come before any
\* native context exists.
Stages == {"early", "bind", "glad", "version", "frame_buffer", "none"}
With(n, kind) == [k \in DOMAIN natives \cup {n} |-> IF k = n THEN kind ELSE natives[k]]
Create(o, t, kind, stage) ==
    /\ ~crashed /\ impl[o] = 0 /\ made < MaxContexts /\ made' = made + 1
    /\ kind = "glfw" => stage \notin {"bind", "frame_buffer"}
    /\ \/ stage = "early" /\ UNCHANGED <<impl, natives, current, glad, crashed, stray>>
       \/ /\ stage = "bind"    \* the native context is not destroyed
          /\ natives' = With(made + 1, kind) /\ stray' = stray \cup {made + 1}
          /\ UNCHANGED <<impl, current, glad, crashed>>
       \/ /\ stage = "none"
          /\ natives' = With(made + 1, kind) /\ impl' = [impl EXCEPT ![o] = made + 1]
          /\ current' = [current EXCEPT ![t] = made + 1]
          /\ glad' = TRUE /\ UNCHANGED <<crashed, stray>>
       \/ /\ stage \in {"glad", "version", "frame_buffer"}    \* finishCreation fails: destroy()
          /\ crashed' = (stage = "glad" /\ ~glad) /\ glad' = (glad \/ stage # "glad")
          /\ current' = [current EXCEPT ![t] = IF kind = "glfw" THEN 0 ELSE made + 1]
          /\ UNCHANGED <<impl, natives, stray>>
    /\ UNCHANGED <<painted, asked>>

Destroy(o, t) ==
    /\ ~crashed /\ impl[o] # 0 /\ DestroyNative(impl[o], t)
    /\ impl' = [impl EXCEPT ![o] = 0] /\ asked' = asked \ {o} /\ UNCHANGED <<glad, made, stray>>

\* Faulty variant: the context the target held is dropped, not destroyed.
DroppedByMoveNone(o, p) == 0
\* The context that a move from p to o destroys.
DroppedByMove(o, p) == IF o # p THEN impl[o] ELSE 0

MoveAssign(o, p, t) ==
    /\ ~crashed
    /\ IF DroppedByMove(o, p) # 0 THEN DestroyNative(DroppedByMove(o, p), t) ELSE UNCHANGED <<natives, current, crashed, painted>>
    /\ IF o = p THEN UNCHANGED <<impl, asked>>
       ELSE /\ impl' = [impl EXCEPT ![o] = impl[p], ![p] = 0]
            /\ asked' = (asked \ {o, p}) \cup {q \in {o} : p \in asked}
    /\ UNCHANGED <<glad, made, stray>>

\* The call fails when EGL refuses; GLFW's answer is not asked for.
MakeCurrent(o, t) ==
    /\ ~crashed /\ impl[o] # 0 /\ current' = [current EXCEPT ![t] = Bound(impl[o], t)]
    /\ UNCHANGED <<impl, natives, glad, crashed, painted, made, stray, asked>>

\* Unbinds whatever context the thread holds.
Release(o, t) ==
    /\ ~crashed /\ impl[o] # 0 /\ current' = [current EXCEPT ![t] = 0]
    /\ UNCHANGED <<impl, natives, glad, crashed, painted, made, stray, asked>>

IsCurrentOnThisThread(o, t) == impl[o] # 0 /\ current[t] = impl[o]

\* clear acts on the thread's context, once it is the object's; a read changes nothing.
Clear(o, t) ==
    /\ ~crashed /\ IsCurrentOnThisThread(o, t)
    /\ painted' = painted \cup {current[t]} /\ asked' = asked \cup {o}
    /\ UNCHANGED <<impl, natives, current, glad, crashed, made, stray>>

Next == \E o \in Objects, t \in Threads :
          \/ \E kind \in {"egl", "glfw"}, stage \in Stages : Create(o, t, kind, stage)
          \/ Destroy(o, t) \/ \E p \in Objects : MoveAssign(o, p, t)
          \/ MakeCurrent(o, t) \/ Release(o, t) \/ Clear(o, t)
Spec == Init /\ [][Next]_vars

-----------------------------------------------------------------------------
(* Properties *)

\* Through creations that fail, moves and destructions, a live native context has exactly one
\* object that will destroy it, but for the one whose first binding EGL refused (gl_context.cpp:807).
OneOwnerEach == /\ {impl[o] : o \in Objects} \ {0} = DOMAIN natives \ stray
                /\ \A o, p \in Objects : o # p /\ impl[o] # 0 => impl[o] # impl[p]

\* Whatever threads bound, moved and destroyed in between, the picture of a live object is the one
\* that was asked of it: no clear meant for another object reached its target, and none asked of it
\* went elsewhere (gl_context.h:41-43).
PictureIsItsOwn == \A o \in Objects : impl[o] # 0 => (impl[o] \in painted <=> o \in asked)

\* A live context has one object that will destroy it, and its picture is the one asked of
\* that object (gl_context.cpp).
ContextsHaveOneOwner == OneOwnerEach /\ PictureIsItsOwn

\* A claim the code does not keep.
\* A creation that fails is reported: nothing of GL is called before it is loaded
\* (gl_context.h:127-130: "Failures: GlUnavailable (..., the GL library cannot be loaded)").
FailureIsReported == ~crashed

-----------------------------------------------------------------------------
(* Proofs: for any threads, objects and number of contexts *)

\* Numbers are given once, and every live context but a stray has one object.
Owned ==
    /\ made \in Nat /\ impl \in [Objects -> Nat]
    /\ DOMAIN natives \subseteq 1..made /\ stray \subseteq DOMAIN natives
    /\ \A o \in Objects : impl[o] # 0 => impl[o] \in DOMAIN natives \ stray
    /\ \A n \in DOMAIN natives \ stray : \E o \in Objects : impl[o] = n
    /\ \A o, p \in Objects : o # p /\ impl[o] # 0 => impl[o] # impl[p]

\* What is painted has been made, and nothing was asked of a stopped object.
Pictures ==
    /\ painted \subseteq 1..made
    /\ \A o \in asked : o \in Objects /\ impl[o] # 0
    /\ PictureIsItsOwn

IInv == Owned /\ Pictures

\* Destroying the context of one object and stopping it leaves the others as they were.
LEMMA StopOne ==
    ASSUME IInv, NEW o \in Objects, NEW t \in Threads, impl[o] # 0,
           DestroyNative(impl[o], t), impl' = [impl EXCEPT ![o] = 0],
           asked' = asked \ {o}, UNCHANGED <<made, stray>>
    PROVE  IInv'
<1>1. DOMAIN natives' = DOMAIN natives \ {impl[o]} /\ painted' = painted \ {impl[o]}
  BY DEF DestroyNative, Without
<1>2. Owned'
  BY <1>1 DEF IInv, Owned
<1>3. Pictures'
  BY <1>1 DEF IInv, Owned, Pictures, PictureIsItsOwn
<1>4. QED
  BY <1>2, <1>3 DEF IInv

\* A creation that fails or succeeds numbers its context anew.
LEMMA CreateKeeps ==
    ASSUME IInv, NEW o \in Objects, NEW t \in Threads, NEW kind, NEW stage,
           Create(o, t, kind, stage)
    PROVE  IInv'
<1> DEFINE n == made + 1
<1>1. /\ impl[o] = 0 /\ made' = n /\ made \in Nat /\ n \notin DOMAIN natives
      /\ n \notin painted /\ UNCHANGED <<painted, asked>>
  BY DEF Create, IInv, Owned, Pictures
<1>2. CASE stage = "none"
  <2>1. DOMAIN natives' = DOMAIN natives \cup {n} /\ impl' = [impl EXCEPT ![o] = n] /\ UNCHANGED stray
    BY <1>2 DEF Create, With
  <2>2. Owned'
    BY <1>1, <2>1 DEF IInv, Owned
  <2>3. Pictures'
    BY <1>1, <2>1 DEF IInv, Owned, Pictures, PictureIsItsOwn
  <2>4. QED
    BY <2>2, <2>3 DEF IInv
<1>3. CASE stage = "bind"
  <2>1. DOMAIN natives' = DOMAIN natives \cup {n} /\ stray' = stray \cup {n} /\ UNCHANGED impl
    BY <1>3 DEF Create, With
  <2>2. QED
    BY <1>1, <2>1 DEF IInv, Owned, Pictures, PictureIsItsOwn
<1>4. CASE stage \notin {"none", "bind"}
  <2>1. UNCHANGED <<impl, natives, stray>>
    BY <1>4 DEF Create
  <2>2. QED
    BY <1>1, <2>1 DEF IInv, Owned, Pictures, PictureIsItsOwn
<1>5. QED
  BY <1>2, <1>3, <1>4

\* A move destroys what its target held and hands the source's context and picture over.
LEMMA MoveKeeps ==
    ASSUME IInv, NEW o \in Objects, NEW p \in Objects, NEW t \in Threads,
           MoveAssign(o, p, t)
    PROVE  IInv'
<1>1. CASE o = p
  BY <1>1 DEF MoveAssign, DroppedByMove, IInv, Owned, Pictures, PictureIsItsOwn
<1>2. CASE o # p
  <2>1. /\ impl' = [impl EXCEPT ![o] = impl[p], ![p] = 0] /\ UNCHANGED <<made, stray>>
        /\ asked' = (asked \ {o, p}) \cup {q \in {o} : p \in asked}
    BY <1>2 DEF MoveAssign
  <2>2. /\ impl'[o] = impl[p] /\ impl'[p] = 0 /\ impl' \in [Objects -> Nat]
        /\ \A q \in Objects \ {o, p} : impl'[q] = impl[q]
    BY <1>2, <2>1 DEF IInv, Owned
  <2>3. DOMAIN natives' = DOMAIN natives \ {impl[o]} /\ painted' = painted \ {impl[o]}
    <3>1. CASE impl[o] = 0
      BY <1>2, <3>1 DEF MoveAssign, DroppedByMove, IInv, Owned, Pictures
    <3>2. CASE impl[o] # 0
      BY <1>2, <3>2 DEF MoveAssign, DroppedByMove, DestroyNative, Without
    <3>3. QED
      BY <3>1, <3>2
  <2>4. Owned'
    BY <1>2, <2>1, <2>2, <2>3 DEF IInv, Owned
  <2>5. Pictures'
    BY <1>2, <2>1, <2>2, <2>3 DEF IInv, Owned, Pictures, PictureIsItsOwn
  <2>6. QED
    BY <2>4, <2>5 DEF IInv
<1>3. QED
  BY <1>1, <1>2

\* The owners and the pictures are kept by every step.
LEMMA Inductive == Spec => []IInv
<1>1. Init => IInv
  BY DEF Init, IInv, Owned, Pictures, PictureIsItsOwn
<1>2. IInv /\ [Next]_vars => IInv'
  <2> SUFFICES ASSUME IInv, [Next]_vars PROVE IInv'
      OBVIOUS
  <2>1. ASSUME NEW o \in Objects, NEW t \in Threads, Destroy(o, t) PROVE IInv'
    BY <2>1, StopOne DEF Destroy
  <2>2. ASSUME NEW o \in Objects, NEW t \in Threads, MakeCurrent(o, t) \/ Release(o, t)
        PROVE  IInv'
    BY <2>2 DEF MakeCurrent, Release, IInv, Owned, Pictures, PictureIsItsOwn
  <2>3. ASSUME NEW o \in Objects, NEW t \in Threads, Clear(o, t) PROVE IInv'
    BY <2>3 DEF Clear, IsCurrentOnThisThread, IInv, Owned, Pictures, PictureIsItsOwn
  <2>4. CASE UNCHANGED vars
    BY <2>4 DEF vars, IInv, Owned, Pictures, PictureIsItsOwn
  <2>5. QED
    BY <2>1, <2>2, <2>3, <2>4, CreateKeeps, MoveKeeps DEF Next
<1>3. QED
  BY <1>1, <1>2, PTL DEF Spec

\* No live context is left without an object that will destroy it, and none has two, but for the
\* one whose first binding EGL refused; and the picture of a live object is the one asked of it,
\* however the contexts were bound and moved.
THEOREM ContextsAreOwned == Spec => []ContextsHaveOneOwner
<1>1. IInv => OneOwnerEach
  <2> SUFFICES ASSUME IInv PROVE OneOwnerEach
      OBVIOUS
  <2>1. 0 \notin DOMAIN natives
    BY DEF IInv, Owned
  <2>2. QED
    BY <2>1 DEF IInv, Owned, OneOwnerEach
<1>2. IInv => PictureIsItsOwn
  BY DEF IInv, Pictures
<1>3. IInv => ContextsHaveOneOwner
  BY <1>1, <1>2 DEF ContextsHaveOneOwner
<1>4. QED
  BY Inductive, <1>3, PTL
=============================================================================
