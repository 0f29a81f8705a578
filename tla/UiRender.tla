------------------------------ MODULE UiRender ------------------------------
(***************************************************************************)
(* The user interface pass (laige/render/ui_render.h): the laid out tree is  *)
(* walked in the order of the traversal, what cannot be seen is culled and   *)
(* the rest handed to the batcher with one rising z per widget.             *)
(*                                                                          *)
(* A quad is what the batcher is handed: the widget, the part of it and z.   *)
(* The pass changes nothing but the batcher, so it is a function of the      *)
(* tree.  The frame is open: an add then never fails, a full batcher drops   *)
(* its oldest declaration (SpriteBatcher).  Fonts are loaded and scales in   *)
(* their domain.  Boxes are in half pixels.                                 *)
(***************************************************************************)
EXTENDS UiTree

CONSTANTS Strings,   \* what the string table owns: text -> the glyphs it shows
          HasFont    \* UiDeclareOptions::defaultFont

Offscreen(r, screen) ==
    \/ r.w <= 0 \/ r.h <= 0
    \/ r.x >= screen.w \/ r.y >= screen.h \/ r.x + r.w <= 0 \/ r.y + r.h <= 0

Covers(p, r) == /\ p.x <= r.x /\ p.y <= r.y
                /\ p.x + p.w >= r.x + r.w /\ p.y + p.h >= r.y + r.h

\* Faulty variant: an opaque panel behind the widget counts too.
OccludedFromBehind(order, k) ==
    \E j \in DOMAIN order \ {k} : /\ nodes[order[j]].kind = "Panel" /\ nodes[order[j]].opaque
                                  /\ Covers(nodes[order[j]].rect, nodes[order[k]].rect)

\* An opaque panel later in the traversal covers the widget at place k.
Occluded(order, k) ==
    \E j \in k + 1..Len(order) : /\ nodes[order[j]].kind = "Panel" /\ nodes[order[j]].opaque
                                 /\ Covers(nodes[order[j]].rect, nodes[order[k]].rect)

ShowsText(n) == n.kind = "Text" \/ (HasFont /\ n.kind \in {"Button", "Input"})
\* declareText refuses a text the table does not own.
BadText(n) == ShowsText(n) /\ n.text \notin DOMAIN Strings
Glyphs(n) == IF ShowsText(n) /\ ~BadText(n) THEN [i \in 1..Strings[n.text] |-> "glyph"] ELSE <<>>

\* What a widget of each kind is drawn with; none for a list and a panel one can look through.
Art(n) ==
    CASE n.kind = "Panel" -> IF n.opaque THEN <<"background">> ELSE <<>>
      [] n.kind \in {"Button", "Image"} -> <<"art">>
      [] n.kind = "Slider" -> IF n.value > n.min /\ n.value < n.max THEN <<"track", "fill">> ELSE <<"track">>
      [] OTHER -> <<>>
Parts(n) == Art(n) \o Glyphs(n)

\* An empty text has no quad and takes a z.
TakesZ(n) == Art(n) # <<>> \/ ShowsText(n)

\* The first text that is refused ends the pass, with the quads before it declared.
DeclareUi ==
    LET order == Preorder(nodes)
        Culled(k) == Offscreen(nodes[order[k]].rect, nodes[Root].rect) \/ Occluded(order, k)
        Step(s, k) ==
          LET n == nodes[order[k]]
          IN IF ~s.ok \/ order[k] = Root \/ Culled(k) THEN s
             ELSE [quads |-> s.quads \o [i \in DOMAIN Parts(n) |-> [id |-> order[k], part |-> Parts(n)[i], z |-> s.z]],
                   ok |-> ~BadText(n), z |-> IF TakesZ(n) THEN s.z + 1 ELSE s.z]
        end == FoldLeft(Step, [quads |-> <<>>, ok |-> TRUE, z |-> 0], [k \in DOMAIN order |-> k])
    IN [quads |-> end.quads, ok |-> end.ok]

\* The box a part covers: its centre is at the rect's corner plus the whole half of its size, so an odd
\* size puts the quad half a pixel to the left, or up; only the fill's column has no such rounding.
\* A fill's width is the whole half pixels of what the code computes with floats.
FillWidth(n) == (2 * n.rect.w * (n.value - n.min)) \div (n.max - n.min)
Drawn(n, p) ==
    [x |-> IF p = "fill" THEN 2 * n.rect.x ELSE 2 * (n.rect.x + n.rect.w \div 2) - n.rect.w,
     y |-> 2 * (n.rect.y + n.rect.h \div 2) - n.rect.h,
     w |-> IF p = "fill" THEN FillWidth(n) ELSE 2 * n.rect.w, h |-> 2 * n.rect.h]

-----------------------------------------------------------------------------
(* Properties *)

\* What ui_render.h:41-44 and :98-100 say a part covers: the widget's rect, or its filled left part.
Laid(n, p) == [x |-> 2 * n.rect.x, y |-> 2 * n.rect.y, w |-> IF p = "fill" THEN FillWidth(n) ELSE 2 * n.rect.w, h |-> 2 * n.rect.h]

HalfPixels == (0..2 * ScreenW - 1) \X (0..2 * ScreenH - 1)
In(box, c) == PointInRect(box, c[1], c[2])

\* The art of every widget, and the part of it that was declared.  Glyphs are left out: they are not
\* clipped to the rect that culls them (ui_render.h:95-97).
AllArt == FlattenSeq([k \in DOMAIN Preorder(nodes) |->
             LET id == Preorder(nodes)[k]
             IN IF id = Root THEN <<>> ELSE [i \in DOMAIN Art(nodes[id]) |-> <<id, Art(nodes[id])[i]>>]])
DeclaredArt == LET art == SelectSeq(DeclareUi.quads, LAMBDA q : q.part # "glyph")
               IN [i \in DOMAIN art |-> <<art[i].id, art[i].part>>]

\* What is seen at c of quads drawn in this order from one atlas: down to the last opaque background.
SeenAt(quads, c) ==
    LET here == SelectSeq(quads, LAMBDA q : In(Drawn(nodes[q[1]], q[2]), c))
        backs == {i \in DOMAIN here : here[i][2] = "background"}
    IN IF backs = {} THEN here ELSE SubSeq(here, CHOOSE i \in backs : \A j \in backs : j <= i, Len(here))

\* No quad is drawn at c that should not be, or left out that should be drawn.
DrawnAsLaidAt(quads, c) ==
    \A i \in DOMAIN quads : LET n == nodes[quads[i][1]]
                            IN In(Drawn(n, quads[i][2]), c) <=> In(Laid(n, quads[i][2]), c)

\* Culling changes nothing that can be seen (ui_render.h:118-156), but in the half pixels by which an odd
\* size displaces a quad: elsewhere the screen shows the art, down to the last opaque background, that it
\* would show without culling.
CullingKeepsThePicture ==
    current /\ DeclareUi.ok =>
        LET all == AllArt
            declared == DeclaredArt
        IN all # declared => \A c \in HalfPixels : DrawnAsLaidAt(all, c) => SeenAt(declared, c) = SeenAt(all, c)

\* The pointer hits what is seen (ui_widgets.h:132-138, ui_render.h:140-151): where the widget it hits has
\* art, that art is the topmost one on the screen, neither culled nor under an opaque background.
HitIsSeen ==
    current /\ DeclareUi.ok =>
        LET all == AllArt
            declared == DeclaredArt
            Hit(c) == TopmostAt(c[1] \div 2, c[2] \div 2)
        IN \A c \in HalfPixels :
             /\ Hit(c) \in {all[i][1] : i \in DOMAIN all} /\ DrawnAsLaidAt(all, c)
             => LET seen == SeenAt(declared, c) IN seen # <<>> /\ Last(seen)[1] = Hit(c)

\* A claim the code does not keep.
\* The pass culls the invisible widgets (ui_render.h:360-362): nowhere on the screen would one be seen.
CulledIsUnseen ==
    current /\ DeclareUi.ok =>
        LET all == AllArt
            declared == DeclaredArt
        IN \A c \in HalfPixels : SeenAt(declared, c) = SeenAt(all, c)
=============================================================================
