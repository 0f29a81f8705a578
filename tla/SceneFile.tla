----------------------------- MODULE SceneFile -----------------------------
(***************************************************************************)
(* The isometric reference scene (laige/render/iso_reference_scene.h): how   *)
(* it is drawn from its seed, its file format, the reader that accepts a     *)
(* whole scene or nothing, and the writer that replaces the file in place.   *)
(*                                                                          *)
(* A value v written in w bytes is the bytes <<v, 1, w>> .. <<v, w, w>>, and *)
(* the random draws are choices.  Positions count half tiles.                *)
(***************************************************************************)
EXTENDS Integers, Sequences, FiniteSets, SequencesExt

CONSTANTS GridTiles, PlateauTiles, TerrainSteps, StepHeight,  \* kIsoRefScene...
          SpriteCount, SheetFrames,
          MaxTiles, MaxStepHeight, MaxCounts,                 \* what the reader accepts at most
          Terrains, Places,                                   \* the draws tried
          MaxWrites                                           \* bound

VARIABLES scene,      \* the scene to write
          bytes, done,        \* what writeIsoReferenceScene has to write, how much of it is written
          temp, target,       \* the two files; Missing if there is none
          phase,
          written,    \* history: the scenes whose write was reported as a success
          writes
vars == <<scene, bytes, done, temp, target, phase, written, writes>>

Missing == <<"missing">>

\* The widths of the fields, in the order both sides take them.
HeaderWidths == <<4, 1, 1, 1, 1, 8>> \o [i \in 1..13 |-> 4]
TileWidths == <<4>>
SpriteWidths == <<4, 4, 2, 1, 1, 1, 1>>
LayerWidths == [i \in 1..13 |-> 4] \o <<1, 1, 1, 1, 4, 4, 4>>
EmitterWidths == [i \in 1..11 |-> 4] \o <<1, 1, 1, 1, 4, 4>>
WidgetWidths == <<1, 1, 4, 4, 4, 4, 4, 1>>
Size(widths) == FoldLeft(LAMBDA a, b : a + b, 0, widths)

\* Every record is the tuple of its fields; a reserved byte is 0.
Plateaus == GridTiles \div PlateauTiles
TileHeight(terrain, x, y) == terrain[((y \div PlateauTiles) * Plateaus) + (x \div PlateauTiles) + 1] * StepHeight

Layer(factor, mode, depthLayer) == <<factor, 0, 0, -64, -64, 128, 128, 0, 0, 1, 1, 0, 0, 0, mode, 1, 0, depthLayer, mode, mode>>
Emitter(x, y, life, size) == <<x, y, 0, -3, -8, 3, 8, 40, 60 + life, 1, 2 + size, 255, 170, 80, 255, 20, 2>>
Widgets == <<<<0, 1, 16, 16, 480, 240, 100, 0>>, <<1, 0, 32, 32, 160, 48, 100, 1>>>>

\* A plateau of tiles has one height; a sprite stands on the height of its tile.
BuildIsoReferenceScene(variant, seed, terrain, places, draws) ==
    LET tiles == [i \in 1..GridTiles * GridTiles |-> <<TileHeight(terrain, (i - 1) % GridTiles, (i - 1) \div GridTiles)>>]
        Sprite(p, d) == <<p[1], p[2], tiles[((p[2] \div 2) * GridTiles) + (p[1] \div 2) + 1][1], 3 + d, d % 2, d % SheetFrames, 0>>
    IN [header |-> <<1, variant, 0, 0, 0, seed, 0, 0, GridTiles, GridTiles, PlateauTiles, StepHeight, TerrainSteps,
                     GridTiles * GridTiles, SpriteCount, 1, 2, 3, 0>>,
        tiles |-> tiles, sprites |-> [i \in 1..SpriteCount |-> Sprite(places[i], draws)],
        layers |-> <<Layer(0, 1, -2), Layer(0, 0, -1), Layer(1, 1, 1)>>,
        emitters |-> <<Emitter(1, 1, draws, draws)>>, widgets |-> Widgets]

Bytes(fields, widths) == FlattenSeq([i \in DOMAIN fields |-> [j \in 1..widths[i] |-> <<fields[i], j, widths[i]>>]])
Table(records, widths) == FlattenSeq([i \in DOMAIN records |-> Bytes(records[i], widths)])
SerializeIsoReferenceScene(s) ==
    Bytes(s.header, HeaderWidths) \o Table(s.tiles, TileWidths) \o Table(s.sprites, SpriteWidths)
    \o Table(s.layers, LayerWidths) \o Table(s.emitters, EmitterWidths) \o Table(s.widgets, WidgetWidths)

\* A field taken from bytes that another value wrote is garbage.
Garbage == -999
Taken(file, at, w) ==
    LET first == file[at + 1]
    IN IF \A j \in 1..w : file[at + j] = <<first[1], j, w>> THEN first[1] ELSE Garbage
Record(file, at, widths) == [i \in DOMAIN widths |-> Taken(file, at + Size(SubSeq(widths, 1, i - 1)), widths[i])]
Records(file, at, widths, n) == [k \in 1..n |-> Record(file, at + (k - 1) * Size(widths), widths)]

Malformed == [header |-> <<>>]

HeaderValid(h) ==
    /\ h[1] = 1 /\ h[2] \in 0..1
    /\ h[9] >= 1 /\ h[10] >= 1 /\ h[11] >= 1 /\ h[9] % h[11] = 0 /\ h[10] % h[11] = 0
    /\ h[9] * h[10] = h[14] /\ h[14] <= MaxTiles
    /\ h[12] \in 0..1024 /\ h[13] \in 1..1024 /\ h[12] * h[13] <= MaxStepHeight
    /\ h[15] <= MaxCounts.sprites /\ h[16] <= MaxCounts.emitters /\ h[17] <= MaxCounts.widgets /\ h[18] <= MaxCounts.layers

StepInRange(h) == -MaxStepHeight <= h /\ h <= MaxStepHeight
SpriteValid(s, head) ==
    /\ 0 <= s[1] /\ s[1] < 2 * head[9] /\ 0 <= s[2] /\ s[2] < 2 * head[10]
    /\ StepInRange(s[3]) /\ s[5] \in 0..1 /\ s[6] < SheetFrames
LayerValid(l) ==
    /\ l[1] \in 0..1 /\ l[6] > 0 /\ l[7] > 0
    /\ l[8] >= 0 /\ l[10] <= 1 /\ l[9] >= 0 /\ l[11] <= 1 /\ l[8] < l[10] /\ l[9] < l[11]
    /\ l[14] \in 0..1 /\ l[15] \in 0..1 /\ l[16] \in 0..1 /\ l[18] \in -512..511
EmitterValid(e) ==
    /\ StepInRange(e[3]) /\ e[8] >= 1 /\ e[9] <= 4096 /\ e[8] <= e[9]
    /\ e[10] >= 0 /\ e[11] >= e[10] /\ e[16] <= e[9]

\* kUiWidgetKindCount, kUiMaxDimPx and kUiMaxCoordPx.
UiWidgetKindCount == 7
UiMaxDimPx == 2^20
UiMaxCoordPx == 2^21 - 1
WidgetValid(w) ==
    /\ w[1] \in 0..UiWidgetKindCount - 1 /\ w[2] \in 0..1 /\ w[8] \in 0..1
    /\ w[5] \in 0..UiMaxDimPx /\ w[6] \in 0..UiMaxDimPx
    /\ w[3] \in -UiMaxCoordPx..UiMaxCoordPx /\ w[4] \in -UiMaxCoordPx..UiMaxCoordPx

\* Faulty variant: what follows the last widget is ignored.
LengthAllowsTail(file, size) == Len(file) >= size
\* The cursor never runs out, and ends at the end of the file.
LengthIs(file, size) == Len(file) = size

ReadIsoReferenceScene(file) ==
    LET head == Record(file, 0, HeaderWidths)
        atTiles == Size(HeaderWidths)
        atSprites == atTiles + head[14] * Size(TileWidths)
        atLayers == atSprites + head[15] * Size(SpriteWidths)
        atEmitters == atLayers + head[18] * Size(LayerWidths)
        atWidgets == atEmitters + head[16] * Size(EmitterWidths)
        s == [header |-> head, tiles |-> Records(file, atTiles, TileWidths, head[14]),
              sprites |-> Records(file, atSprites, SpriteWidths, head[15]),
              layers |-> Records(file, atLayers, LayerWidths, head[18]),
              emitters |-> Records(file, atEmitters, EmitterWidths, head[16]),
              widgets |-> Records(file, atWidgets, WidgetWidths, head[17])]
    IN IF /\ Len(file) >= Size(HeaderWidths) /\ HeaderValid(head)
          /\ LengthIs(file, atWidgets + head[17] * Size(WidgetWidths))
          /\ \A i \in DOMAIN s.tiles : StepInRange(s.tiles[i][1])
          /\ \A i \in DOMAIN s.sprites : SpriteValid(s.sprites[i], head)
          /\ \A i \in DOMAIN s.layers : LayerValid(s.layers[i])
          /\ \A i \in DOMAIN s.emitters : EmitterValid(s.emitters[i])
          /\ \A i \in DOMAIN s.widgets : WidgetValid(s.widgets[i])
       THEN s ELSE Malformed

Init == /\ scene = Malformed /\ bytes = <<>> /\ done = 0 /\ temp = Missing /\ target = Missing /\ phase = "idle"
        /\ written = {} /\ writes = 0

\* The sprites share a place here, and the other draws one outcome.
Build(variant, terrain, place, draw) ==
    /\ phase = "idle" /\ writes < MaxWrites
    /\ scene' = BuildIsoReferenceScene(variant, 7, terrain, [i \in 1..SpriteCount |-> place], draw)
    /\ bytes' = SerializeIsoReferenceScene(scene') /\ phase' = "built"
    /\ UNCHANGED <<done, temp, target, written, writes>>

\* Opening the temporary file truncates what a crash left there.
OpenTemp(ok) ==
    /\ phase = "built" /\ writes' = writes + 1
    /\ IF ok THEN temp' = <<>> /\ done' = 0 /\ phase' = "open" ELSE phase' = "idle" /\ UNCHANGED <<temp, done>>
    /\ UNCHANGED <<scene, bytes, target, written>>

\* n more bytes reach the file; none at all ends the write short.
Write(n) ==
    /\ phase = "open" /\ n >= 0 /\ done + n <= Len(bytes)
    /\ done' = done + n /\ temp' = SubSeq(bytes, 1, done + n)
    /\ phase' = IF n = 0 THEN "wrote" ELSE phase
    /\ UNCHANGED <<scene, bytes, target, written, writes>>

Wrote(flushed) == flushed /\ done = Len(bytes)

\* A short or unflushed write removes the temporary file.
Close(flushed) ==
    /\ phase = "wrote"
    /\ IF Wrote(flushed) THEN phase' = "rename" /\ UNCHANGED temp ELSE phase' = "idle" /\ temp' = Missing
    /\ UNCHANGED <<scene, bytes, done, target, written, writes>>

Rename(ok) ==
    /\ phase = "rename" /\ phase' = "idle" /\ temp' = Missing
    /\ IF ok THEN target' = temp /\ written' = written \cup {scene} ELSE UNCHANGED <<target, written>>
    /\ UNCHANGED <<scene, bytes, done, writes>>

\* The process dies: the files stay as they are.
Crash == phase \notin {"idle", "crashed"} /\ phase' = "idle" /\ UNCHANGED <<scene, bytes, done, temp, target, written, writes>>

Next ==
    \/ \E terrain \in Terrains, place \in Places, draw \in 0..SheetFrames - 1 : Build(draw % 2, terrain, place, draw)
    \/ \E ok \in BOOLEAN : OpenTemp(ok) \/ Close(ok) \/ Rename(ok)
    \/ phase = "open" /\ \E n \in {0, 33, Len(bytes) - done - 1, Len(bytes) - done} : Write(n)
    \/ Crash

Spec == Init /\ [][Next]_vars

\* A field of a widget and a value just outside what a widget may have there.
Outside == {<<1, 7>>, <<2, 2>>, <<3, -2^21>>, <<3, 2^21>>, <<4, -2^21>>, <<4, 2^21>>,
            <<5, -1>>, <<5, 2^20 + 1>>, <<6, -1>>, <<6, 2^20 + 1>>, <<8, 2>>}

\* The scene file is whole (iso_reference_scene.h, writeIsoReferenceScene and readIsoReferenceScene): whatever
\* the writes, renames and crashes, the file at the target is a scene some write reported as written and reads
\* back as that scene; and the reader refuses a file of fewer bytes, of one more, or with one widget's
\* field out of its domain.
SceneFileIsWhole ==
    /\ target # Missing => ReadIsoReferenceScene(target) \in written
    /\ phase = "open" /\ done < Len(bytes) => ReadIsoReferenceScene(temp) = Malformed
    /\ bytes # <<>> => ReadIsoReferenceScene(bytes \o <<<<0, 1, 1>>>>) = Malformed
    /\ phase = "built" =>
        \A o \in Outside, i \in DOMAIN scene.widgets :
            ReadIsoReferenceScene(SerializeIsoReferenceScene([scene EXCEPT !.widgets[i][o[1]] = o[2]])) = Malformed
=============================================================================
