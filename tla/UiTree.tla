------------------------------- MODULE UiTree -------------------------------
(***************************************************************************)
(* The retained widget tree of the user interface                          *)
(* (laige/render/ui_widgets.h): a pool of nodes linked by generation-checked *)
(* ids, the anchor and box layout, the pointer events of a frame and the    *)
(* focus.                                                                   *)
(*                                                                          *)
(* Lengths are small integers; an anchor is a column and a row, each 0, 1 or *)
(* 2 for the near edge, the centre and the far edge.  A slider's value is    *)
(* the whole part of what the code computes with floats.  pointerHit_ and    *)
(* prevTop_, always assigned together, are one variable.                     *)
(***************************************************************************)
EXTENDS Integers, Sequences, FiniteSets, SequencesExt

CONSTANTS
    Capacity,        \* Options::maxWidgets, the root included
    MaxEvents,       \* Options::maxEvents
    ScreenW, ScreenH,
    MaxCoord,        \* kUiMaxCoordPx
    Specs,           \* the widgets a game declares: kind, anchor, x, y, w, h, pad, opaque, scroll, min, max, value, text
    Placements,      \* what setPlacement is called with: anchor, x, y, w, h
    Values,          \* slider values, scroll offsets and input texts the setters are called with
    Pointers,        \* pointer states: x, y, pressed
    MaxEdits         \* bounds the changes to the tree

VARIABLES nodes,     \* the live widgets: id -> node
          free,      \* the pool's free slots, the next one first
          gens,      \* the generation of each slot
          events, lost,
          pointerHit, pressOwner, focus, prevPressed,
          \* history
          edits,
          current,   \* nothing changed since layout()
          pressedOn, \* the widget under the pointer when it was last pressed
          hovered    \* the widgets that got an enter and no leave since
treeVars == <<nodes, free, gens>>
pointerVars == <<pointerHit, pressOwner, prevPressed, pressedOn, hovered>>
vars == <<treeVars, events, lost, pointerVars, focus, edits, current>>

Null == <<0, 0>>     \* kInvalidUiWidgetId
Root == <<1, 1>>     \* the first slot the pool hands out
IsContainer(kind) == kind \in {"Panel", "List"}
IsFocusable(kind) == kind \in {"Button", "Slider", "Input"}

-----------------------------------------------------------------------------
(* Traversal *)

\* Up from a node whose subtree is done: the next sibling of the nearest ancestor that has one.
Successor(t, id) ==
    LET Climb[a \in DOMAIN t] == IF t[a].next \in DOMAIN t THEN t[a].next
                                 ELSE IF t[a].parent = Null THEN Null ELSE Climb[t[a].parent]
    IN IF t[id].first \in DOMAIN t THEN t[id].first ELSE Climb[id]

\* Parents before children, children in insertion order.
Preorder(t) ==
    LET Walk[k \in 1..Cardinality(DOMAIN t)] ==
          IF k = 1 THEN <<Root>>
          ELSE LET s == Successor(t, Last(Walk[k - 1]))
               IN IF s = Null THEN Walk[k - 1] ELSE Append(Walk[k - 1], s)
    IN Walk[Cardinality(DOMAIN t)]

ChildList(t, id) ==
    LET Walk[k \in 0..Cardinality(DOMAIN t)] ==
          IF k = 0 THEN IF t[id].first = Null THEN <<>> ELSE <<t[id].first>>
          ELSE LET s == Walk[k - 1]
               IN IF s = <<>> \/ t[Last(s)].next = Null THEN s ELSE Append(s, t[Last(s)].next)
    IN Walk[Cardinality(DOMAIN t)]

-----------------------------------------------------------------------------
(* Layout *)

NoRect == [x |-> 0, y |-> 0, w |-> 0, h |-> 0]
Larger(a, b) == IF a > b THEN a ELSE b
Clamp(v, lo, hi) == IF v < lo THEN lo ELSE IF v > hi THEN hi ELSE v

AnchorPoint(a, extent) == (a * extent) \div 2
AnchorOffset(a, size) == (a * size) \div 2

\* A coordinate outside either end of the domain is set to the upper end.
SaturateCoord(v) == IF v < -MaxCoord \/ v > MaxCoord THEN MaxCoord ELSE v

Content(n) == [x |-> n.rect.x + n.pad, y |-> n.rect.y + n.pad,
               w |-> Larger(0, n.rect.w - 2 * n.pad), h |-> Larger(0, n.rect.h - 2 * n.pad)]

Anchored(c, n) ==
    [x |-> SaturateCoord(c.x + AnchorPoint(n.anchor[1], c.w) + n.x - AnchorOffset(n.anchor[1], n.w)),
     y |-> SaturateCoord(c.y + AnchorPoint(n.anchor[2], c.h) + n.y - AnchorOffset(n.anchor[2], n.h)),
     w |-> n.w, h |-> n.h]

\* A list stacks its children and keeps its scroll offset within what can be reached.
PlaceChildren(t, id) ==
    LET n == t[id]
        c == Content(n)
        children == ChildList(t, id)
        Above[k \in 0..Len(children)] == IF k = 0 THEN 0 ELSE Above[k - 1] + t[children[k]].h
        scroll == IF n.kind # "List" THEN n.scroll
                  ELSE Clamp(n.scroll, 0, Larger(0, Above[Len(children)] - c.h))
        RectOf(k) == LET m == t[children[k]]
                     IN IF n.kind # "List" THEN Anchored(c, m)
                        ELSE [x |-> SaturateCoord(c.x), y |-> SaturateCoord(c.y + Above[k - 1] - scroll), w |-> m.w, h |-> m.h]
    IN [j \in DOMAIN t |->
          IF j = id THEN [n EXCEPT !.scroll = scroll]
          ELSE IF \E k \in DOMAIN children : children[k] = j
          THEN [t[j] EXCEPT !.rect = RectOf(CHOOSE k \in DOMAIN children : children[k] = j)] ELSE t[j]]

Layout ==
    /\ nodes' = FoldLeft(PlaceChildren, [nodes EXCEPT ![Root].rect = [x |-> 0, y |-> 0, w |-> ScreenW, h |-> ScreenH]], Preorder(nodes))
    /\ current' = TRUE
    /\ UNCHANGED <<free, gens, events, lost, pointerVars, focus, edits>>

-----------------------------------------------------------------------------
(* Edits *)

RootNode == [kind |-> "Panel", parent |-> Null, first |-> Null, next |-> Null, anchor |-> <<0, 0>>, x |-> 0, y |-> 0,
             w |-> ScreenW, h |-> ScreenH, pad |-> 0, opaque |-> FALSE, scroll |-> 0, min |-> 0, max |-> 0, value |-> 0, text |-> 0,
             rect |-> [x |-> 0, y |-> 0, w |-> ScreenW, h |-> ScreenH]]

Init ==
    /\ nodes = [id \in {Root} |-> RootNode]
    /\ free = [k \in 1..Capacity - 1 |-> k + 1] /\ gens = [s \in 1..Capacity |-> 1]
    /\ events = <<>> /\ lost = FALSE
    /\ pointerHit = Null /\ pressOwner = Null /\ focus = Null /\ prevPressed = FALSE
    /\ edits = 0 /\ current = FALSE /\ pressedOn = Null /\ hovered = {}

Edited == edits < MaxEdits /\ edits' = edits + 1 /\ current' = FALSE

\* The parent is the root when none is named; a refused widget changes nothing.
AddChild(spec, p) ==
    LET parent == IF p = Null THEN Root ELSE p
        id == <<Head(free), gens[Head(free)]>>
        siblings == ChildList(nodes, parent)
        node == [kind |-> spec.kind, parent |-> parent, first |-> Null, next |-> Null, anchor |-> spec.anchor,
                 x |-> spec.x, y |-> spec.y, w |-> spec.w, h |-> spec.h, pad |-> spec.pad, opaque |-> spec.opaque, scroll |-> spec.scroll,
                 min |-> spec.min, max |-> spec.max, text |-> spec.text, rect |-> NoRect,
                 value |-> IF spec.kind = "Slider" THEN Clamp(spec.value, spec.min, spec.max) ELSE spec.value]
        linked == IF siblings = <<>> THEN [nodes EXCEPT ![parent].first = id]
                  ELSE [nodes EXCEPT ![Last(siblings)].next = id]
    IN /\ free # <<>> /\ Edited
       /\ parent \in DOMAIN nodes /\ IsContainer(nodes[parent].kind)
       /\ spec.kind = "Slider" => spec.min < spec.max
       /\ nodes' = [j \in DOMAIN nodes \cup {id} |-> IF j = id THEN node ELSE linked[j]]
       /\ free' = Tail(free)
       /\ UNCHANGED <<gens, events, lost, pointerVars, focus>>

\* Faulty variant: a node that is not its parent's first child is not taken out of the list.
UnlinkedFirstOnly(t, id) ==
    LET p == t[id].parent
        u == [t EXCEPT ![p].first = IF t[p].first = id THEN t[id].next ELSE @]
    IN [j \in DOMAIN t \ {id} |-> u[j]]

Unlinked(t, id) ==
    LET p == t[id].parent
        u == IF t[p].first = id THEN [t EXCEPT ![p].first = t[id].next]
             ELSE [t EXCEPT ![CHOOSE s \in DOMAIN t : t[s].parent = p /\ t[s].next = id].next = t[id].next]
    IN [j \in DOMAIN t \ {id} |-> u[j]]

\* The leaf the descent from id reaches through first children.
FirstLeaf(t, id) ==
    LET Down[k \in 0..Cardinality(DOMAIN t)] ==
          IF k = 0 THEN id ELSE LET d == Down[k - 1] IN IF t[d].first \in DOMAIN t THEN t[d].first ELSE d
    IN Down[Cardinality(DOMAIN t)]

\* Leaf after leaf until id itself is gone; each slot goes back to the pool with a new generation.
RemoveLeaf(s, id) ==
    IF id \notin DOMAIN s.nodes THEN s
    ELSE LET leaf == FirstLeaf(s.nodes, id)
         IN [nodes |-> Unlinked(s.nodes, leaf), free |-> <<leaf[1]>> \o s.free, gens |-> [s.gens EXCEPT ![leaf[1]] = @ + 1]]

RemoveSubtree(id) ==
    /\ id \in DOMAIN nodes \ {Root} /\ Edited
    /\ LET s == FoldLeft(LAMBDA u, k : RemoveLeaf(u, id), [nodes |-> nodes, free |-> free, gens |-> gens],
                         [k \in 1..Cardinality(DOMAIN nodes) |-> k])
       IN /\ nodes' = s.nodes /\ free' = s.free /\ gens' = s.gens
          /\ focus' = IF focus \in DOMAIN s.nodes THEN focus ELSE Null
          /\ pressOwner' = IF pressOwner \in DOMAIN s.nodes THEN pressOwner ELSE Null
          /\ hovered' = hovered \cap DOMAIN s.nodes
    /\ UNCHANGED <<events, lost, pointerHit, prevPressed, pressedOn>>

SetPlacement(id, p) ==
    /\ id \in DOMAIN nodes /\ Edited
    /\ nodes' = [nodes EXCEPT ![id] = [@ EXCEPT !.anchor = p.anchor, !.x = p.x, !.y = p.y, !.w = p.w, !.h = p.h,
                                                !.rect.w = 0, !.rect.h = 0]]
    /\ UNCHANGED <<free, gens, events, lost, pointerVars, focus>>

SetSliderValue(id, v) ==
    /\ id \in DOMAIN nodes /\ nodes[id].kind = "Slider"
    /\ nodes' = [nodes EXCEPT ![id].value = Clamp(v, nodes[id].min, nodes[id].max)]
    /\ UNCHANGED <<free, gens, events, lost, pointerVars, focus, edits, current>>

SetScroll(id, y) ==
    /\ id \in DOMAIN nodes /\ nodes[id].kind = "List" /\ y >= 0 /\ Edited
    /\ nodes' = [nodes EXCEPT ![id].scroll = y]
    /\ UNCHANGED <<free, gens, events, lost, pointerVars, focus>>

-----------------------------------------------------------------------------
(* Events *)

\* emitEvent: what does not fit in the frame's list is dropped.
Emit(list) == /\ events' = SubSeq(list, 1, IF Len(list) < MaxEvents THEN Len(list) ELSE MaxEvents)
              /\ lost' = (lost \/ Len(list) > MaxEvents)

Event(kind, id) == [kind |-> kind, widget |-> id]

SetInputText(id, text) ==
    /\ id \in DOMAIN nodes /\ nodes[id].kind = "Input" /\ nodes[id].text # text
    /\ nodes' = [nodes EXCEPT ![id].text = text]
    /\ Emit(Append(events, Event("InputText", id)))
    /\ UNCHANGED <<free, gens, pointerVars, focus, edits, current>>

BeginFrame == events' = <<>> /\ UNCHANGED <<treeVars, lost, pointerVars, focus, edits, current>>

PointInRect(r, x, y) == /\ r.w > 0 /\ r.h > 0
                     /\ x >= r.x /\ x < r.x + r.w /\ y >= r.y /\ y < r.y + r.h

\* The last widget of the traversal that contains the point; the root is layout only.
TopmostAt(x, y) ==
    FoldLeft(LAMBDA best, id : IF id # Root /\ PointInRect(nodes[id].rect, x, y) THEN id ELSE best, Null, Preorder(nodes))

\* dragSlider: the value that the pointer's column asks for.
Dragged(n, x) ==
    IF n.w <= 0 THEN n.value
    ELSE Clamp(n.min + (Clamp(x - n.rect.x, 0, n.w) * (n.max - n.min)) \div n.w, n.min, n.max)

Click(owner, top) == owner = top /\ nodes[top].kind = "Button"

Crossed(top) ==
    IF top = pointerHit THEN <<>>
    ELSE (IF pointerHit \in DOMAIN nodes THEN <<Event("PointerLeave", pointerHit)>> ELSE <<>>)
         \o (IF top # Null THEN <<Event("PointerEnter", top)>> ELSE <<>>)

HandlePointer(p) ==
    LET top == TopmostAt(p.x, p.y)
        hit == IF top = Null THEN FALSE ELSE TRUE
        press == ~prevPressed /\ p.pressed
        release == prevPressed /\ ~p.pressed
        slider == IF press THEN top ELSE IF prevPressed /\ p.pressed THEN pressOwner ELSE Null
        drags == IF slider \in DOMAIN nodes THEN nodes[slider].kind = "Slider" ELSE FALSE
        value == IF drags THEN Dragged(nodes[slider], p.x) ELSE 0
        moved == IF drags THEN nodes[slider].value # value ELSE FALSE
        edges == IF press /\ hit THEN <<Event("PointerPress", top)>>
                 ELSE IF release /\ hit
                 THEN <<Event("PointerRelease", top)>> \o (IF Click(pressOwner, top) THEN <<Event("ButtonPressed", top)>> ELSE <<>>)
                 ELSE <<>>
    IN /\ Emit(Crossed(top) \o edges \o (IF moved THEN <<Event("SliderChanged", slider)>> ELSE <<>>))
       /\ nodes' = IF moved THEN [nodes EXCEPT ![slider].value = value] ELSE nodes
       /\ pressOwner' = IF press THEN top ELSE IF release THEN Null ELSE pressOwner
       /\ focus' = IF press /\ hit /\ (IF hit THEN IsFocusable(nodes[top].kind) ELSE FALSE) THEN top ELSE focus
       /\ pointerHit' = top /\ prevPressed' = p.pressed
       /\ pressedOn' = IF press THEN top ELSE pressedOn
       /\ hovered' = (hovered \ {events'[i].widget : i \in {k \in DOMAIN events' : events'[k].kind = "PointerLeave"}})
                     \cup {events'[i].widget : i \in {k \in DOMAIN events' : events'[k].kind = "PointerEnter"}}
       /\ UNCHANGED <<free, gens, edits, current>>

-----------------------------------------------------------------------------
(* Focus *)

Focusables == SelectSeq(Preorder(nodes), LAMBDA id : IsFocusable(nodes[id].kind))

FocusWidget(id) ==
    /\ id \in DOMAIN nodes /\ IsFocusable(nodes[id].kind)
    /\ focus' = id
    /\ UNCHANGED <<treeVars, events, lost, pointerVars, edits, current>>

FocusNext ==
    /\ LET at == {k \in DOMAIN Focusables : Focusables[k] = focus}
       IN focus' = IF Focusables = <<>> THEN Null
                   ELSE IF at = {} \/ focus = Last(Focusables) THEN Head(Focusables)
                   ELSE Focusables[(CHOOSE k \in at : TRUE) + 1]
    /\ UNCHANGED <<treeVars, events, lost, pointerVars, edits, current>>

FocusPrev ==
    /\ LET at == {k \in DOMAIN Focusables : Focusables[k] = focus}
       IN focus' = IF Focusables = <<>> THEN Null
                   ELSE IF at = {} \/ focus = Head(Focusables) THEN Last(Focusables)
                   ELSE Focusables[(CHOOSE k \in at : TRUE) - 1]
    /\ UNCHANGED <<treeVars, events, lost, pointerVars, edits, current>>

-----------------------------------------------------------------------------
Ids == {<<s, g>> \in (1..Capacity) \X (1..MaxEdits + 1) : g <= gens[s]}

Next == \/ \E spec \in Specs, p \in Ids \cup {Null} : AddChild(spec, p)
        \/ \E id \in Ids : RemoveSubtree(id) \/ FocusWidget(id)
        \/ \E id \in Ids, p \in Placements : SetPlacement(id, p)
        \/ \E id \in Ids, v \in Values : SetSliderValue(id, v) \/ SetScroll(id, v) \/ SetInputText(id, v)
        \/ Layout \/ BeginFrame \/ FocusNext \/ FocusPrev
        \/ \E p \in Pointers : HandlePointer(p)
Spec == Init /\ [][Next]_vars

-----------------------------------------------------------------------------
(* Properties *)

\* Whatever was added and removed, every live widget is reached once from the root, in a list of
\* its own parent's, and every slot is either live or free (ui_widgets.h:903-921).
TreeIsWhole ==
    /\ \A id \in DOMAIN nodes : {nodes[id].first, nodes[id].next} \subseteq DOMAIN nodes \cup {Null}
    /\ ToSet(Preorder(nodes)) = DOMAIN nodes /\ IsInjective(Preorder(nodes))
    /\ \A id \in DOMAIN nodes : ToSet(ChildList(nodes, id)) = {c \in DOMAIN nodes : nodes[c].parent = id}
    /\ ToSet(free) = 1..Capacity \ {id[1] : id \in DOMAIN nodes} /\ IsInjective(free)

\* A click is a press and a release on one and the same widget, not on one that took over its slot
\* (ui_widgets.h:157-160).
ClicksAreWhole ==
    \A i \in DOMAIN events : events[i].kind = "ButtonPressed" => events[i].widget = pressedOn

\* A widget that was told the pointer came is told that it left, unless it is gone or the frame's
\* list was full: the widgets entered and not left are the one under the pointer.
EntersAndLeavesPair == ~lost => hovered \subseteq {pointerHit}

\* A claim the code does not keep.
\* A coordinate beyond the domain is set to the end it lies beyond, as ui_widgets.h:107-109 says:
\* a widget pushed off the left or the top does not come out on the right or below.
SaturatesToItsSide ==
    current => \A id \in DOMAIN nodes \ {Root} :
        LET p == nodes[nodes[id].parent]
            c == Content(p)
            n == nodes[id]
        IN p.kind # "List" =>
             n.rect.x = Clamp(c.x + AnchorPoint(n.anchor[1], c.w) + n.x - AnchorOffset(n.anchor[1], n.w), -MaxCoord, MaxCoord)
=============================================================================
