--------------------------- MODULE IsoDepthTable ---------------------------
(***************************************************************************)
(* Isometric depth keys (laige/render/iso_depth_key.h) and the table that    *)
(* keeps one key per ground tile (laige/render/iso_depth_table.h).  A key    *)
(* packs the layer above the biased fine depth, so that sorting keys sorts   *)
(* layers and then depths.  The table covers whole chunks, stores its cells  *)
(* row by row in one array, and grows by copying them into a larger one.     *)
(*                                                                          *)
(* The code's values: QuantScale 16, FineBias 2^21, LayerBias 2^9, tiles     *)
(* -32768..32766, MaxWorldSum 65534, MaxStepHeight 2047.                     *)
(***************************************************************************)
EXTENDS Integers, Sequences, FiniteSets

CONSTANTS QuantScale, FineBias, LayerBias,
          MinCoord, MaxCoord, MaxWorldSum, MaxStepHeight,
          TableOptions   \* the Options a game may pass

ASSUME DepthAssumption ==
    /\ QuantScale \in Nat \ {0} /\ FineBias \in Nat \ {0} /\ LayerBias \in Nat \ {0}
    /\ MinCoord \in Int /\ MaxCoord \in Int /\ MaxWorldSum \in Nat /\ MaxStepHeight \in Nat
    /\ QuantScale * (MaxWorldSum + MaxStepHeight) < FineBias

VARIABLES table,        \* layer, chunkTiles, maxChunks, the covered region and the cells
          wanted        \* history: tile -> the height it was last given
tableVars == <<table, wanted>>

ClampInt(v, lo, hi) == IF v < lo THEN lo ELSE IF v > hi THEN hi ELSE v

\* A whole number of world units: rounding has no effect on it.
Quantize(sum) == QuantScale * ClampInt(sum, -MaxWorldSum, MaxWorldSum)

Pack(layer, d) == (layer + LayerBias) * (2 * FineBias) + (d + FineBias)
IsoDepthKey(sum, height, layer) ==
    Pack(ClampInt(layer, -LayerBias, LayerBias - 1), ClampInt(Quantize(sum) - height * QuantScale, -FineBias, FineBias - 1))

\* The centre of a tile lies half a unit into it, in both directions.
CenterSum(x, y) == x + y + 1

ChunkCoord(tile, chunkTiles) == IF tile >= 0 THEN tile \div chunkTiles ELSE -((-tile + chunkTiles - 1) \div chunkTiles)

TileCovered(t, x, y) == t.minX <= x /\ x < t.maxX /\ t.minY <= y /\ y < t.maxY
FlatIndex(x, y, minX, minY, width) == (y - minY) * width + (x - minX) + 1
CellIndex(t, x, y) == FlatIndex(x, y, t.minX, t.minY, t.maxX - t.minX)
CellAt(t, x, y) == t.cells[CellIndex(t, x, y)]
Cells(t) == (t.maxX - t.minX) * (t.maxY - t.minY)
Chunks(t) == ((t.maxX - t.minX) \div t.chunkTiles) * ((t.maxY - t.minY) \div t.chunkTiles)

PackKey(layer, qBase, height) == Pack(layer, ClampInt(qBase - height * QuantScale, -FineBias, FineBias - 1))
FilledCell(layer, x, y) ==
    LET q == Quantize(CenterSum(x, y)) IN [height |-> 0, qBase |-> q, key |-> PackKey(layer, q, 0)]

\* The cells of a region row by row, cell F(x, y) at tile (x, y).
RowByRow(minX, minY, maxX, maxY, F(_, _)) ==
    [i \in 1..(maxX - minX) * (maxY - minY) |-> F(minX + ((i - 1) % (maxX - minX)), minY + ((i - 1) \div (maxX - minX)))]

NoTable == [layer |-> 0, chunkTiles |-> 1, maxChunks |-> 0, minX |-> 0, minY |-> 0, maxX |-> 0, maxY |-> 0, cells |-> <<>>]
TableInit == table = NoTable /\ wanted = [tile \in {} |-> 0]

CreateValid(o) ==
    /\ o.width >= 1 /\ o.height >= 1 /\ o.maxChunks >= 1
    /\ \E shift \in 0..o.chunkTiles : 2 ^ shift = o.chunkTiles
    /\ o.layer >= -LayerBias /\ o.layer <= LayerBias - 1
    /\ o.originX >= MinCoord /\ o.originY >= MinCoord
    /\ o.originX + o.width <= MaxCoord + 1 /\ o.originY + o.height <= MaxCoord + 1
    /\ ((o.width + o.chunkTiles - 1) \div o.chunkTiles) * ((o.height + o.chunkTiles - 1) \div o.chunkTiles) <= o.maxChunks

\* The chunks the requested region touches, whole.
CreatedTable(o) ==
    LET First(tile) == ChunkCoord(tile, o.chunkTiles) * o.chunkTiles
        Last(tile) == (ChunkCoord(tile, o.chunkTiles) + 1) * o.chunkTiles
        x0 == First(o.originX)  x1 == Last(o.originX + o.width - 1)
        y0 == First(o.originY)  y1 == Last(o.originY + o.height - 1)
    IN [layer |-> o.layer, chunkTiles |-> o.chunkTiles, maxChunks |-> o.maxChunks,
        minX |-> x0, minY |-> y0, maxX |-> x1, maxY |-> y1,
        cells |-> RowByRow(x0, y0, x1, y1, LAMBDA x, y : FilledCell(o.layer, x, y))]

CreateTable(o) ==
    /\ table = NoTable /\ UNCHANGED wanted
    /\ IF CreateValid(o) THEN table' = CreatedTable(o) ELSE UNCHANGED table

HeightValid(h) == -MaxStepHeight <= h /\ h <= MaxStepHeight

\* The packing leaves the clamp out: within the domain it does nothing.
RetiledCell(t, x, y, h) ==
    LET cell == CellAt(t, x, y)
    IN [cell EXCEPT !.height = h, !.key = Pack(t.layer, cell.qBase - h * QuantScale)]
Retiled(t, x, y, h) == [t EXCEPT !.cells[CellIndex(t, x, y)] = RetiledCell(t, x, y, h)]

SetTableTile(x, y, h) ==
    IF TileCovered(table, x, y) /\ HeightValid(h)
    THEN /\ table' = Retiled(table, x, y, h)
         /\ wanted' = [tile \in DOMAIN wanted \cup {<<x, y>>} |-> IF tile = <<x, y>> THEN h ELSE wanted[tile]]
    ELSE UNCHANGED tableVars

\* Every cell gets its height and the full formula; the cached base stays.
RebuiltTable(t, heights) ==
    [t EXCEPT !.cells = RowByRow(t.minX, t.minY, t.maxX, t.maxY, LAMBDA x, y :
        LET h == heights[CellIndex(t, x, y)]
        IN [CellAt(t, x, y) EXCEPT !.height = h, !.key = IsoDepthKey(CenterSum(x, y), h, t.layer)])]

Tiles(t) == {t.minX + i : i \in 0..t.maxX - t.minX - 1} \X {t.minY + i : i \in 0..t.maxY - t.minY - 1}

RebuildTable(heights) ==
    IF Len(heights) = Cells(table) /\ \A i \in DOMAIN heights : HeightValid(heights[i])
    THEN /\ table' = RebuiltTable(table, heights)
         /\ wanted' = [tile \in Tiles(table) |-> heights[CellIndex(table, tile[1], tile[2])]]
    ELSE UNCHANGED tableVars

MinOf(a, b) == IF a < b THEN a ELSE b
MaxOf(a, b) == IF a > b THEN a ELSE b

\* The bounding region of the table and the tile's chunk.
Enlarged(t, x, y) ==
    LET x0 == ChunkCoord(x, t.chunkTiles) * t.chunkTiles
        y0 == ChunkCoord(y, t.chunkTiles) * t.chunkTiles
    IN [t EXCEPT !.minX = MinOf(x0, @), !.minY = MinOf(y0, @),
                 !.maxX = MaxOf(x0 + t.chunkTiles, @), !.maxY = MaxOf(y0 + t.chunkTiles, @)]

\* Faulty variant: the old cells are looked up in the row width of the new region.
GrownByNewWidth(t, region) ==
    [region EXCEPT !.cells = RowByRow(region.minX, region.minY, region.maxX, region.maxY, LAMBDA x, y :
        IF TileCovered(t, x, y)
        THEN t.cells[((FlatIndex(x, y, t.minX, t.minY, region.maxX - region.minX) - 1) % Cells(t)) + 1]
        ELSE FilledCell(t.layer, x, y))]
\* The cells of the new region: the old ones at their tiles, fresh ones elsewhere.
Grown(t, region) ==
    [region EXCEPT !.cells = RowByRow(region.minX, region.minY, region.maxX, region.maxY, LAMBDA x, y :
        IF TileCovered(t, x, y) THEN CellAt(t, x, y) ELSE FilledCell(t.layer, x, y))]

ChunkInDomain(t, x, y) ==
    LET x0 == ChunkCoord(x, t.chunkTiles) * t.chunkTiles
        y0 == ChunkCoord(y, t.chunkTiles) * t.chunkTiles
    IN /\ x0 >= MinCoord /\ x0 + t.chunkTiles - 1 <= MaxCoord
       /\ y0 >= MinCoord /\ y0 + t.chunkTiles - 1 <= MaxCoord

EnsureChunk(x, y) ==
    LET region == Enlarged(table, x, y)
    IN /\ UNCHANGED wanted
       /\ IF ~TileCovered(table, x, y) /\ ChunkInDomain(table, x, y) /\ Chunks(region) <= table.maxChunks
          THEN table' = Grown(table, region)
          ELSE UNCHANGED table

TableNext ==
    \/ \E o \in TableOptions : CreateTable(o)
    \/ /\ table # NoTable
       /\ \/ \E x, y \in MinCoord - 1..MaxCoord + 1, h \in {-MaxStepHeight, MaxStepHeight + 1} : SetTableTile(x, y, h)
          \/ \E x, y \in MinCoord - 1..MaxCoord + 1 : EnsureChunk(x, y)
          \/ \E one \in 1..Cells(table) + 1, high \in MaxStepHeight..MaxStepHeight + 1 :
                RebuildTable([i \in 1..Cells(table) |-> IF i = one THEN high ELSE 0])

TableSpec == TableInit /\ [][TableNext]_tableVars

TableTypeOK ==
    /\ Len(table.cells) = Cells(table)
    /\ \A i \in DOMAIN table.cells : HeightValid(table.cells[i].height) /\ table.cells[i].key \in Nat
    /\ DOMAIN wanted \subseteq Tiles(table)

\* The incremental table is the rebuilt one (iso_depth_table.h, setTile and ensureChunk): whatever edits,
\* rebuilds and growth came before, every covered tile has the height it was last given and the key the
\* full formula gives it.
IncrementalIsRebuild ==
    \A tile \in Tiles(table) :
        LET h == IF tile \in DOMAIN wanted THEN wanted[tile] ELSE 0
            cell == CellAt(table, tile[1], tile[2])
        IN cell.height = h /\ cell.key = IsoDepthKey(CenterSum(tile[1], tile[2]), h, table.layer)

\* A claim the code does not keep.
\* "The most chunks a table may ever own" (iso_depth_table.h, Options::maxChunks).
ChunksWithinCap == Chunks(table) <= table.maxChunks \/ table = NoTable
=============================================================================
