----------------------------- MODULE MCRendering -----------------------------
(***************************************************************************)
(* What draws, each part on a small instance: depth table, tile map and     *)
(* parallax layers, the user interface, the sprite batcher, the sprite      *)
(* renderers over one GL context, GL contexts over threads, text, and the   *)
(* scene file.  A behaviour uses one part, or a small map as a layer.       *)
(***************************************************************************)
EXTENDS Parallax, GlContext

(* Tables, maps and layers *)

TestMin == -2
O(x, y, w, h, ct, mc, l) == [originX |-> x, originY |-> y, width |-> w, height |-> h, chunkTiles |-> ct, maxChunks |-> mc, layer |-> l]
TestOptions == {O(-1, -1, 1, 1, 1, 4, -1), O(0, -1, 1, 2, 2, 2, 0), O(1, 0, 2, 1, 1, 4, 0)}
Sheet == [frameWidth |-> 2, frameHeight |-> 1, columns |-> 2, rows |-> 2, border |-> 1, spacing |-> 1]
TestAnimations == {[frames |-> 3, ticks |-> 1, layout |-> Sheet], [frames |-> 2, ticks |-> 2, layout |-> [Sheet EXCEPT !.columns = 1]],
                   [frames |-> 5, ticks |-> 1, layout |-> Sheet]}
L(id, factor, source, auto, speed, enabled) ==
    [id |-> id, factor |-> factor, source |-> source, size |-> Period, auto |-> auto, speed |-> speed, enabled |-> enabled, depthLayer |-> 0,
     center |-> <<1, 0>>, offset |-> <<0, -1>>, uv |-> <<0, 0, 1, 1>>]
TestLayers == {L(0, 1, "image", TRUE, <<-1, 2>>, TRUE), L(1, 0, "image", FALSE, <<1, 0>>, TRUE), L(2, 0, "image", TRUE, <<1, 1>>, TRUE),
               L(0, 1, "tilemap", FALSE, <<0, 0>>, TRUE), L(1, 1, "image", TRUE, <<0, 1>>, FALSE),
               [L(0, 1, "image", TRUE, <<1, 1>>, TRUE) EXCEPT !.uv = <<0, 1, 1, 1>>]}
TestPhases == {-1, 1}
TestCameras == {2}

(* Widgets, sprites, texts and scenes *)

Widget == [kind |-> "Panel", anchor |-> <<0, 0>>, x |-> 0, y |-> 0, w |-> 2, h |-> 2, pad |-> 0, opaque |-> FALSE,
           scroll |-> 0, min |-> 0, max |-> 0, value |-> 0, text |-> 0]
WidgetSpecs == {[Widget EXCEPT !.opaque = TRUE, !.w = 3],
              [Widget EXCEPT !.kind = "List", !.scroll = 2],
              [Widget EXCEPT !.kind = "Button", !.anchor = <<2, 0>>],
              [Widget EXCEPT !.kind = "Slider", !.w = 3, !.max = 2, !.value = 1],
              [Widget EXCEPT !.kind = "Input"]}
WidgetPlacements == {[anchor |-> <<1, 2>>, x |-> -4, y |-> 0, w |-> 2, h |-> 1]}
UiPointers == [x : {0, 1}, y : {0}, pressed : BOOLEAN]
Sprites == {[key |-> k, group |-> g, override |-> k = 2, look |-> l] :
               k \in {1, 2}, g \in {<<0, 0, 1>>, <<1, 0, 0>>}, l \in {1, 2}}
Batch(a, b) == [atlas |-> a, blend |-> b, n |-> 1]
SpriteFrames == {[built |-> TRUE, batches |-> <<>>],
                 [built |-> TRUE, batches |-> <<Batch(0, "alpha")>>],
                 [built |-> TRUE, batches |-> <<Batch(0, "alpha"), Batch(1, "additive")>>]}
GlyphAdvance == [c \in 0..2 |-> IF c = 2 THEN 3 ELSE 1]
CodePoints == UNION {[1..n -> 0..2] : n \in 0..2}
ShownTexts == CodePoints \cup {<<1, 0, 1>>, <<1, 1, 0, 1, 1>>, <<1, 0, 0, 2, 1>>, <<2, 1, 0, 1, 0>>, <<0, 1, 0, 1, 2>>}

VARIABLES
    part,  \* the part of this behaviour
    nodes, free, gens, events, lost, pointerHit, pressOwner, focus, prevPressed, edits, visiting, pressedOn, hovered,
    ring, head, count, open, built, batches, overrides, dropped, declared, frames,
    valid, objects, registry, memory, seen, gpu, gpuFrame, totals, bound, blend, images, uploads, submits, drew, timed,
    capacity, pool, headers, shown, interned,
    scene, bytes, done, temp, target, phase, written, writes

isoVars == <<table, wanted, map, tiles, anims, frame, given, age, maxLayers, slots, scrolled>>
uiVars == <<nodes, free, gens, events, lost, pointerHit, pressOwner, focus, prevPressed, edits, visiting, pressedOn, hovered>>
batcherVars == <<ring, head, count, open, built, batches, overrides, dropped, declared, frames>>
rendererVars == <<valid, objects, registry, memory, seen, gpu, gpuFrame, totals, bound, blend, images, uploads, submits, drew, timed>>
textVars == <<capacity, pool, headers, shown, interned>>
sceneVars == <<scene, bytes, done, temp, target, phase, written, writes>>
renderingVars == <<part, isoVars, uiVars, batcherVars, rendererVars, vars, textVars, sceneVars>>

Ui == INSTANCE UiRender WITH
    Capacity <- 3, MaxEvents <- 3, ScreenW <- 3, ScreenH <- 2, MaxCoord <- 7, Specs <- WidgetSpecs,
    Placements <- WidgetPlacements, Values <- {1}, Pointers <- UiPointers, MaxEdits <- 3, Strings <- [t \in {0} |-> 1], HasFont <- TRUE,
    current <- visiting
Batcher == INSTANCE SpriteBatcher WITH
    Capacity <- 3, Base <- 2, Passes <- 2, Items <- Sprites, MaxFrames <- 2, MaxDeclared <- 4
Gpu == INSTANCE SpriteRenderer WITH
    Renderers <- {"world", "ui"}, Atlases <- {0, 1}, Frames <- SpriteFrames, Sizes <- {1, 2}, MaxInstances <- 2,
    MaxDrawCalls <- 1, GpuTiming <- TRUE, MaxUploads <- 2, MaxSubmits <- 2, frame <- gpuFrame
Txt == INSTANCE TextItems WITH
    MaxStrings <- 2, MaxCodePoints <- 5, Space <- 0, Advance <- GlyphAdvance, Ink <- {1, 2}, MaxLineWidth <- 8,
    Texts <- ShownTexts, Widths <- {0, 2, 4}
Scene == INSTANCE SceneFile WITH
    GridTiles <- 2, PlateauTiles <- 1, TerrainSteps <- 2, StepHeight <- 2, SpriteCount <- 1, SheetFrames <- 2,
    MaxTiles <- 16, MaxStepHeight <- 4, MaxCounts <- [sprites |-> 5, emitters |-> 8, widgets |-> 2, layers |-> 3],
    Terrains <- {<<0, 1, 0, 0>>}, Places <- {<<0, 0>>, <<3, 1>>}, MaxWrites <- 2

\* The variables of what is not used.
Idle(v) == v = "idle"
IsoParts == {"table", "map", "layers", "both"}
RenderingInit ==
    /\ part \in IsoParts \cup {"ui", "batcher", "renderer", "context", "text", "scene"}
    /\ ParallaxInit
    /\ IF part = "ui" THEN Ui!Init
       ELSE Idle(nodes) /\ Idle(free) /\ Idle(gens) /\ Idle(events) /\ Idle(lost) /\ Idle(pointerHit) /\ Idle(pressOwner) /\ Idle(focus) /\ Idle(prevPressed) /\ Idle(edits) /\ Idle(visiting) /\ Idle(pressedOn) /\ Idle(hovered)
    /\ IF part = "batcher" THEN Batcher!Init
       ELSE Idle(ring) /\ Idle(head) /\ Idle(count) /\ Idle(open) /\ Idle(built) /\ Idle(batches) /\ Idle(overrides) /\ Idle(dropped) /\ Idle(declared) /\ Idle(frames)
    /\ IF part = "renderer" THEN Gpu!Init
       ELSE Idle(valid) /\ Idle(objects) /\ Idle(registry) /\ Idle(memory) /\ Idle(seen) /\ Idle(gpu) /\ Idle(gpuFrame) /\ Idle(totals) /\ Idle(bound) /\ Idle(blend) /\ Idle(images) /\ Idle(uploads) /\ Idle(submits) /\ Idle(drew) /\ Idle(timed)
    /\ Init
    /\ IF part = "text" THEN Txt!Init
       ELSE Idle(capacity) /\ Idle(pool) /\ Idle(headers) /\ Idle(shown) /\ Idle(interned)
    /\ IF part = "scene" THEN Scene!Init
       ELSE Idle(scene) /\ Idle(bytes) /\ Idle(done) /\ Idle(temp) /\ Idle(target) /\ Idle(phase) /\ Idle(written) /\ Idle(writes)

\* The iso parts share their variables: a map owns a table, a layer may be a map.
SmallMap == O(0, -1, 1, 2, 2, 2, 0)
IsoNext ==
    \/ part = "table" /\ TableNext /\ UNCHANGED <<map, tiles, anims, frame, given, age, layerVars>>
    \/ part = "map" /\ MapNext /\ UNCHANGED layerVars
    \/ part = "layers" /\ LayersNext
    \/ part = "layers" /\ (BuildFrame \/ NewFrame) /\ UNCHANGED layerVars
    \/ /\ part = "both"
       /\ \/ CreateMap(SmallMap, 1) /\ UNCHANGED layerVars
          \/ map # NoMap /\ SetMapTile(0, 0, [texture |-> 1, height |-> 1, animation |-> 0]) /\ UNCHANGED layerVars
          \/ map # NoMap /\ CreateLayers(2)
          \/ \E def \in TestLayers : SetLayer(def)
          \/ \E id \in 0..1, camera \in TestCameras \X TestCameras : DeclareMapAsLayer(id, camera)
          \/ BuildFrame /\ UNCHANGED layerVars
RenderingNext ==
    \/ IsoNext /\ UNCHANGED <<part, uiVars, batcherVars, rendererVars, vars, textVars, sceneVars>>
    \/ part = "ui" /\ Ui!Next
       /\ UNCHANGED <<part, isoVars, batcherVars, rendererVars, vars, textVars, sceneVars>>
    \/ part = "batcher" /\ Batcher!Next
       /\ UNCHANGED <<part, isoVars, uiVars, rendererVars, vars, textVars, sceneVars>>
    \/ part = "renderer" /\ Gpu!Next
       /\ UNCHANGED <<part, isoVars, uiVars, batcherVars, vars, textVars, sceneVars>>
    \/ part = "context" /\ Next
       /\ UNCHANGED <<part, isoVars, uiVars, batcherVars, rendererVars, textVars, sceneVars>>
    \/ part = "text" /\ Txt!Next
       /\ UNCHANGED <<part, isoVars, uiVars, batcherVars, rendererVars, vars, sceneVars>>
    \/ part = "scene" /\ Scene!Next
       /\ UNCHANGED <<part, isoVars, uiVars, batcherVars, rendererVars, vars, textVars>>
RenderingSpec == RenderingInit /\ [][RenderingNext]_renderingVars

-----------------------------------------------------------------------------
(* Properties *)

\* The incremental depth table is the rebuilt one, whatever edits, rebuilds and growth
\* came before, and the frames of an animation share no texel (iso_depth_table.h,
\* sprite_frames.h).
KeysAndFramesAreRight == TableTypeOK /\ IncrementalIsRebuild /\ FramesAreApart

\* What a map or a layer declares shows each tile as it was last given, with its depth
\* key and its animation's frame, and a scrolling image wraps without a seam
\* (tilemap.h, parallax.h).
DeclaredAsGiven == [][(part \in IsoParts) => DeclaresTheMap /\ WrapsTheImage]_renderingVars

\* Whatever was added, removed and pointed at: the tree reaches every widget once, a click
\* is a press and a release on one widget, and who was entered is left (ui_widgets.h).
InterfaceIsWhole == part = "ui" => Ui!TreeIsWhole /\ Ui!ClicksAreWhole /\ Ui!EntersAndLeavesPair

\* The widgets culled would not have been seen, but for the half pixel an odd size is
\* displaced by, and what the pointer hits is what is seen there (ui_render.h, ui_widgets.h).
PictureAndPointerAgree == part = "ui" => Ui!CullingKeepsThePicture /\ Ui!HitIsSeen

\* What is drawn is the end of what was declared, grouped, sorted and stable
\* (sprite_batcher.h).
BatchesAreTheFrame == part = "batcher" => Batcher!BatchesAreTheFrame

\* No GL object outlives its renderer, however create fails, and a GPU time is only
\* reported of a pass that was drawn (sprite_renderer.cpp).
RendererBooks == part = "renderer" => Gpu!NothingLeaks /\ Gpu!GpuTimeIsOfADrawnPass

\* One handle per text, and what is shown is the text, its lines within the width asked
\* for (text_items.h).
TextIsShown == part = "text" => Txt!TypeOK /\ Txt!HandlesAreTexts /\ Txt!ShownIsTheText

\* The scene file at the target is one some write reported as written, and the reader
\* refuses a shorter or a longer one, or a widget out of its domain (iso_reference_scene.h).
SceneFileIsWhole == part = "scene" => Scene!SceneFileIsWhole

=============================================================================
