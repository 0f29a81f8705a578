------------------------------ MODULE Parallax ------------------------------
(***************************************************************************)
(* The parallax layers (laige/render/parallax.h) beside the tile map: layers *)
(* that follow the camera at a fraction of its speed, whose images wrap      *)
(* around as they scroll.  An image is declared as up to four quads that     *)
(* together show one period of it; a tile map layer is declared by the map   *)
(* at the layer's offset.  Places and factor are whole numbers here, and the *)
(* scroll phase counts the Period texels of an image, from its own corner.   *)
(***************************************************************************)
EXTENDS TileMap

CONSTANTS MaxLayersLimit,   \* kParallaxLayersMaxLayers
          Layers,           \* the definitions a game passes
          Phases, Cameras,  \* what it passes to setUvOffset and declareTo
          Period            \* texels of an image along an axis, and its size in units

VARIABLES maxLayers, slots,  \* the set of layers: id -> definition, UV offset, valid
          scrolled           \* history: id -> <<the phase last set, the advances since>>
layerVars == <<maxLayers, slots, scrolled>>
parallaxVars == <<table, wanted, map, tiles, anims, frame, given, age, maxLayers, slots, scrolled>>

NoLayer == [valid |-> FALSE, def |-> [id |-> 0], uv |-> <<0, 0>>]
LayersInit == maxLayers = 0 /\ slots = <<>> /\ scrolled = <<>>
ParallaxInit == MapInit /\ LayersInit

Has(id) == maxLayers > 0 /\ id < maxLayers /\ slots[id].valid

CreateLayers(n) ==
    /\ maxLayers = 0 /\ n >= 1 /\ n <= MaxLayersLimit
    /\ maxLayers' = n /\ slots' = [id \in 0..n - 1 |-> NoLayer] /\ scrolled' = [id \in 0..n - 1 |-> <<<<0, 0>>, 0>>]
    /\ UNCHANGED mapVars

LayerValid(def) ==
    /\ def.id < maxLayers /\ def.factor \in 0..1
    /\ def.source = "image" => /\ def.size > 0
                               /\ \A a \in 1..2 : def.uv[a] >= 0 /\ def.uv[a + 2] <= 1 /\ def.uv[a] < def.uv[a + 2]
    /\ -LayerBias <= def.depthLayer /\ def.depthLayer <= LayerBias - 1

\* Redefining a layer starts its scroll anew.
SetLayer(def) ==
    /\ UNCHANGED <<mapVars, maxLayers>>
    /\ IF maxLayers > 0 /\ LayerValid(def)
       THEN /\ slots' = [slots EXCEPT ![def.id] = [valid |-> TRUE, def |-> def, uv |-> <<0, 0>>]]
            /\ scrolled' = [scrolled EXCEPT ![def.id] = <<<<0, 0>>, 0>>]
       ELSE UNCHANGED <<slots, scrolled>>

\* Faulty variant: an offset before the image stays there.
WrapUvDown(x) == IF x < 0 THEN x ELSE x % Period
WrapUv(x) == x % Period

SetUvOffset(id, uv) ==
    /\ UNCHANGED <<mapVars, maxLayers>>
    /\ IF Has(id) THEN /\ slots' = [slots EXCEPT ![id].uv = <<WrapUv(uv[1]), WrapUv(uv[2])>>]
                       /\ scrolled' = [scrolled EXCEPT ![id] = <<uv, 0>>]
       ELSE UNCHANGED <<slots, scrolled>>

AdvanceScrolls ==
    LET Auto(id) == slots[id].valid /\ slots[id].def.auto
        speed(id) == slots[id].def.speed
    IN /\ maxLayers > 0 /\ \A id \in DOMAIN slots : scrolled[id][2] < MaxAge
       /\ slots' = [id \in DOMAIN slots |->
             IF Auto(id) THEN [slots[id] EXCEPT !.uv = <<WrapUv(@[1] + speed(id)[1]), WrapUv(@[2] + speed(id)[2])>>] ELSE slots[id]]
       /\ scrolled' = [id \in DOMAIN slots |-> IF Auto(id) THEN <<scrolled[id][1], scrolled[id][2] + 1>> ELSE scrolled[id]]
       /\ UNCHANGED <<mapVars, maxLayers>>

\* Where the image of a layer begins when the camera is there.
WorldOffsetAt(id, camera) ==
    LET def == slots[id].def
    IN [a \in 1..2 |-> def.factor * (camera[a] - def.center[a]) + def.offset[a]]

\* A quad of a layer: the part of the world it fills, the texels its corners show, the key of its centre (to a
\* whole unit here).
Quad(def, x0, y0, x1, y1, u0, v0, u1, v1) ==
    [world |-> <<x0, y0, x1, y1>>, uv |-> <<u0, v0, u1, v1>>, layer |-> def.id,
     key |-> IsoDepthKey((x0 + x1 + y0 + y1) \div 2, 0, def.depthLayer)]

Corner(def, wx, wy, xr, yr, ox, oy) == Quad(def, wx, wy, xr, yr, 0, 0, ox, oy)

\* The rest of the image from its phase on, then what wraps around on the right, below and at the corner.
LayerQuads(id, camera) ==
    LET def == slots[id].def
        o == WorldOffsetAt(id, camera)
        ox == slots[id].uv[1]  oy == slots[id].uv[2]
        wx == o[1] + Period - ox  wy == o[2] + Period - oy
        xr == o[1] + Period  yr == o[2] + Period
    IN <<Quad(def, o[1], o[2], wx, wy, ox, oy, Period, Period)>>
       \o (IF ox > 0 THEN <<Quad(def, wx, o[2], xr, wy, 0, oy, ox, Period)>> ELSE <<>>)
       \o (IF oy > 0 THEN <<Quad(def, o[1], wy, wx, yr, ox, 0, Period, oy)>> ELSE <<>>)
       \o (IF ox > 0 /\ oy > 0 THEN <<Corner(def, wx, wy, xr, yr, ox, oy)>> ELSE <<>>)

\* The enabled image layers in order of id; tile map layers are the map's to declare.
DeclareLayers(camera) ==
    LET Upto[id \in -1..maxLayers - 1] ==
          IF id = -1 THEN <<>>
          ELSE Upto[id - 1] \o (IF Has(id) /\ slots[id].def.enabled /\ slots[id].def.source = "image"
                                THEN LayerQuads(id, camera) ELSE <<>>)
    IN /\ frame.items = <<>>   \* bound: once a frame
       /\ frame' = IF maxLayers = 0 \/ frame.built THEN frame ELSE [frame EXCEPT !.items = @ \o Upto[maxLayers - 1]]
       /\ UNCHANGED <<table, wanted, map, tiles, anims, given, age, layerVars>>

\* The map as a layer: at the layer's offset, with the keys of where the tiles come to lie.
DeclareMapAsLayer(id, camera) ==
    /\ map # NoMap /\ frame.items = <<>>   \* bound: once a frame
    /\ frame' =
          IF ~frame.built /\ Has(id) /\ slots[id].def.source = "tilemap" /\ slots[id].def.enabled
          THEN LET o == WorldOffsetAt(id, camera)
                   Key(x, y) == IsoDepthKey(CenterSum(x, y) + o[1] + o[2], CellAt(table, x, y).height, table.layer)
               IN [frame EXCEPT !.items = @ \o DeclaredItems(o, Key)]
          ELSE frame
    /\ UNCHANGED <<table, wanted, map, tiles, anims, given, age, layerVars>>

LayersNext ==
    \/ \E n \in 0..MaxLayersLimit + 1 : CreateLayers(n)
    \/ \E def \in Layers : SetLayer(def)
    \/ \E id \in 0..MaxLayersLimit, uv \in Phases \X Phases : SetUvOffset(id, uv)
    \/ AdvanceScrolls
    \/ \E camera \in Cameras \X Cameras : DeclareLayers(camera)

\* The game uses the map alone or the layers, with a map beside them that it made before.
ParallaxNext ==
    \/ MapNext /\ UNCHANGED layerVars
    \/ LayersNext
    \/ \E id \in 0..MaxLayersLimit, camera \in Cameras \X Cameras : DeclareMapAsLayer(id, camera)

ParallaxSpec == ParallaxInit /\ [][ParallaxNext]_parallaxVars

\* The image wraps without a seam (parallax.h, declareTo): the quads of a layer fill one period of the world
\* from the layer's offset, each place once, and the place p places from the left (or the top) shows the texel
\* p plus the phase, which is the phase last set plus the speed times the advances since, modulo the period.
WrapsTheImage ==
    \A id \in DOMAIN slots :
      LET quads == {q \in {frame'.items[i] : i \in DOMAIN frame'.items} : "layer" \in DOMAIN q /\ q.layer = id}
          phase == [a \in 1..2 |-> scrolled[id][1][a] + scrolled[id][2] * slots[id].def.speed[a]]
          Left == CHOOSE x \in {q.world[1] : q \in quads} : \A q \in quads : x <= q.world[1]
          Top == CHOOSE y \in {q.world[2] : q \in quads} : \A q \in quads : y <= q.world[2]
      IN frame'.items # frame.items /\ quads # {} =>
           \A px, py \in 0..Period - 1 :
               LET over == {q \in quads : /\ q.world[1] <= Left + px /\ Left + px < q.world[3]
                                          /\ q.world[2] <= Top + py /\ Top + py < q.world[4]}
               IN /\ Cardinality(over) = 1
                  /\ \A q \in over : /\ q.uv[1] + (Left + px - q.world[1]) = (px + phase[1]) % Period
                                     /\ q.uv[2] + (Top + py - q.world[2]) = (py + phase[2]) % Period
                                     /\ q.uv[3] - q.uv[1] = q.world[3] - q.world[1]
                                     /\ q.uv[4] - q.uv[2] = q.world[4] - q.world[2]
=============================================================================
