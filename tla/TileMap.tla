------------------------------ MODULE TileMap ------------------------------
(***************************************************************************)
(* The tile map (laige/render/tilemap.h): a table of depth keys, a texture   *)
(* and an animation per requested tile, the animations' clocks, and the      *)
(* declaration of the whole map to the sprite batcher, row by row.           *)
(***************************************************************************)
EXTENDS IsoDepthTable

CONSTANTS MaxAtlas,            \* kSpriteFrameMaxAtlasTexels
          MaxFrames,           \* kTileAnimMaxFrames
          MaxAnimationsLimit,  \* kTileMapMaxAnimations
          Textures, Animations,  \* what a game passes
          MaxAge               \* bound: advances between two definitions

VARIABLES map,        \* the Options of the map; its table is `table`
          tiles,      \* index in the requested region -> texture and animation
          anims,      \* id -> its definition, frame, tick and UV rectangles
          frame,      \* what is declared to the batcher
          \* history
          given,      \* the tile data last accepted
          age         \* id -> advances since it was set
mapVars == <<table, wanted, map, tiles, anims, frame, given, age>>

NoMap == [originX |-> 0, originY |-> 0, width |-> 0, height |-> 0, maxAnimations |-> 0]
Unset == [valid |-> FALSE, frames |-> 1, ticks |-> 1, frame |-> 0, tick |-> 0, uv |-> <<>>]
NoTile == [texture |-> 0, animation |-> 0]
NoFrame == [built |-> FALSE, items |-> <<>>]

MapInit == /\ TableInit /\ map = NoMap /\ tiles = <<>> /\ anims = <<>> /\ frame = NoFrame
           /\ given = <<>> /\ age = <<>>

Requested(x, y) == /\ map.originX <= x /\ x < map.originX + map.width
                   /\ map.originY <= y /\ y < map.originY + map.height
RequestedIndex(x, y) == (y - map.originY) * map.width + (x - map.originX) + 1
TileCount == map.width * map.height

CreateMap(o, maxAnimations) ==
    /\ map = NoMap /\ UNCHANGED frame
    /\ IF maxAnimations >= 1 /\ maxAnimations <= MaxAnimationsLimit /\ CreateValid(o)
       THEN /\ CreateTable(o)
            /\ map' = [originX |-> o.originX, originY |-> o.originY, width |-> o.width, height |-> o.height,
                       maxAnimations |-> maxAnimations]
            /\ tiles' = [i \in 1..o.width * o.height |-> NoTile] /\ given' = [i \in DOMAIN tiles' |-> [texture |-> 0, animation |-> 0, height |-> 0]]
            /\ anims' = [id \in 1..maxAnimations |-> Unset] /\ age' = [id \in 1..maxAnimations |-> 0]
       ELSE UNCHANGED <<table, wanted, map, tiles, given, anims, age>>

SetMapTile(x, y, data) ==
    /\ UNCHANGED <<map, anims, frame, age>>
    /\ IF Requested(x, y) /\ HeightValid(data.height) /\ data.animation <= map.maxAnimations
       THEN /\ SetTableTile(x, y, data.height)
            /\ tiles' = [tiles EXCEPT ![RequestedIndex(x, y)] = [texture |-> data.texture, animation |-> data.animation]]
            /\ given' = [given EXCEPT ![RequestedIndex(x, y)] = data]
       ELSE UNCHANGED <<table, wanted, tiles, given>>

\* The heights of the covered region: the tiles' where requested, ground elsewhere.
Spread(data) ==
    RowByRow(table.minX, table.minY, table.maxX, table.maxY, LAMBDA x, y :
        IF Requested(x, y) THEN data[RequestedIndex(x, y)].height ELSE 0)

RebuildMap(data) ==
    /\ UNCHANGED <<map, anims, frame, age>>
    /\ IF Len(data) = TileCount /\ \A i \in DOMAIN data : HeightValid(data[i].height) /\ data[i].animation <= map.maxAnimations
       THEN /\ RebuildTable(Spread(data))
            /\ tiles' = [i \in 1..TileCount |-> [texture |-> data[i].texture, animation |-> data[i].animation]]
            /\ given' = data
       ELSE UNCHANGED <<table, wanted, tiles, given>>

SheetWidth(l) == 2 * l.border + l.columns * l.frameWidth + (l.columns - 1) * l.spacing
SheetHeight(l) == 2 * l.border + l.rows * l.frameHeight + (l.rows - 1) * l.spacing
\* The first three bounds keep the sums of the last two from wrapping in the code.
LayoutValid(l) ==
    /\ l.frameWidth > 0 /\ l.frameHeight > 0 /\ l.columns > 0 /\ l.rows > 0
    /\ l.border <= MaxAtlas \div 2
    /\ l.frameWidth <= MaxAtlas \div l.columns /\ l.frameHeight <= MaxAtlas \div l.rows
    /\ l.spacing <= MaxAtlas \div l.columns
    /\ SheetWidth(l) <= MaxAtlas /\ SheetHeight(l) <= MaxAtlas

FrameColumn(f, l) == f % l.columns
\* The texels of frame f: its left, top, right and bottom edges.
SpriteFrameUv(f, l) ==
    LET x0 == l.border + FrameColumn(f, l) * (l.frameWidth + l.spacing)
        y0 == l.border + (f \div l.columns) * (l.frameHeight + l.spacing)
    IN <<x0, y0, x0 + l.frameWidth, y0 + l.frameHeight>>

SetAnimation(id, def) ==
    /\ UNCHANGED <<table, wanted, map, tiles, frame, given>>
    /\ IF /\ id >= 1 /\ id <= map.maxAnimations
          /\ def.frames >= 1 /\ def.frames <= MaxFrames /\ def.ticks >= 1
          /\ LayoutValid(def.layout) /\ def.frames <= def.layout.columns * def.layout.rows
       THEN /\ anims' = [anims EXCEPT ![id] =
                  [valid |-> TRUE, frames |-> def.frames, ticks |-> def.ticks, frame |-> 0, tick |-> 0,
                   uv |-> [f \in 1..def.frames |-> SpriteFrameUv(f - 1, def.layout)]]]
            /\ age' = [age EXCEPT ![id] = 0]
       ELSE UNCHANGED <<anims, age>>

Advanced(a) ==
    IF a.tick + 1 = a.ticks THEN [a EXCEPT !.tick = 0, !.frame = (@ + 1) % a.frames] ELSE [a EXCEPT !.tick = @ + 1]

AdvanceAnimations ==
    /\ \A id \in DOMAIN age : age[id] < MaxAge
    /\ anims' = [id \in DOMAIN anims |-> IF anims[id].valid THEN Advanced(anims[id]) ELSE anims[id]]
    /\ age' = [id \in DOMAIN age |-> age[id] + 1]
    /\ UNCHANGED <<table, wanted, map, tiles, frame, given>>

\* The frame and UV of a tile: the whole quad (an empty rectangle here) without an animation.
TileFrame(i) ==
    LET id == tiles[i].animation
    IN IF id = 0 THEN [frame |-> 0, uv |-> <<>>]
       ELSE [frame |-> anims[id].frame, uv |-> anims[id].uv[anims[id].frame + 1]]

TileAt(i) == <<map.originX + ((i - 1) % map.width), map.originY + ((i - 1) \div map.width)>>

\* The items of the tiles before the first one whose animation is not set; Shifted by a layer's offset.
DeclaredItems(shift, Key(_, _)) ==
    LET unset == {i \in 1..TileCount : tiles[i].animation # 0 /\ ~anims[tiles[i].animation].valid}
        count == IF unset = {} THEN TileCount ELSE (CHOOSE i \in unset : \A j \in unset : i <= j) - 1
    IN [i \in 1..count |-> LET at == TileAt(i)
                           IN [pos |-> <<at[1] + shift[1], at[2] + shift[2]>>, key |-> Key(at[1], at[2]),
                               atlas |-> tiles[i].texture, shown |-> TileFrame(i)]]

TableKey(x, y) == CellAt(table, x, y).key

\* An unset animation ends the declaration with a failure, the tiles before it declared.
DeclareMap ==
    /\ frame.items = <<>>   \* bound: once a frame
    /\ frame' = IF frame.built THEN frame ELSE [frame EXCEPT !.items = @ \o DeclaredItems(<<0, 0>>, TableKey)]
    /\ UNCHANGED <<table, wanted, map, tiles, anims, given, age>>

\* The batcher builds the frame, and begins the next.
BuildFrame == ~frame.built /\ frame' = [frame EXCEPT !.built = TRUE] /\ UNCHANGED <<table, wanted, map, tiles, anims, given, age>>
NewFrame == frame.built /\ frame' = NoFrame /\ UNCHANGED <<table, wanted, map, tiles, anims, given, age>>

TileData == [texture : Textures, height : {0, MaxStepHeight}, animation : 0..1]
MapNext ==
    \/ \E o \in TableOptions, n \in 0..MaxAnimationsLimit : CreateMap(o, n)
    \/ /\ map # NoMap
       /\ \/ \E x, y \in MinCoord..MaxCoord, data \in TileData : SetMapTile(x, y, data)
          \/ \E data \in [1..TileCount -> TileData] : RebuildMap(data)
          \/ \E id \in 0..map.maxAnimations, def \in Animations : SetAnimation(id, def)
          \/ AdvanceAnimations
          \/ DeclareMap
    \/ BuildFrame
    \/ NewFrame

MapSpec == MapInit /\ [][MapNext]_mapVars

\* What the i-th requested tile must look like, from the calls alone.
Expected(i, shift) ==
    LET x == map.originX + ((i - 1) % map.width)
        y == map.originY + ((i - 1) \div map.width)
        id == given[i].animation
    IN [pos |-> <<x + shift[1], y + shift[2]>>, atlas |-> given[i].texture,
        key |-> IsoDepthKey(CenterSum(x, y) + shift[1] + shift[2], given[i].height, table.layer),
        frame |-> IF id = 0 THEN 0 ELSE (age[id] \div anims[id].ticks) % anims[id].frames]

\* The frame shows the map (tilemap.h, declareTo): the declared items are the requested tiles row by row, moved
\* by the layer's offset if the map is a layer, each
\* with the depth key of the height and the texture it was last given, and with the frame its animation's age
\* calls for, up to the first tile whose animation was never set; whatever single edits and rebuilds led there.
DeclaresTheMap ==
    frame'.items # frame.items /\ frame'.items # <<>> =>
        \A i \in DOMAIN frame'.items : "pos" \in DOMAIN frame'.items[i] =>
            LET item == frame'.items[i]
                first == frame'.items[1].pos
            IN [pos |-> item.pos, key |-> item.key, atlas |-> item.atlas, frame |-> item.shown.frame] =
               Expected(i, <<first[1] - map.originX, first[2] - map.originY>>)

\* The frames of an animation are different places of its sheet (sprite_frames.h, spriteFrameUv): no two of
\* them share a texel, and each begins to the right of or below the one before it.
FramesAreApart ==
    \A id \in DOMAIN anims : \A f, g \in DOMAIN anims[id].uv :
        f < g => LET a == anims[id].uv[f]  b == anims[id].uv[g]
                 IN a[4] <= b[2] \/ (a[2] = b[2] /\ a[3] <= b[1])
=============================================================================
