-------------------------------- MODULE Art --------------------------------
\* The pictures of the page (src/web/art.js and the frame of game.js): the
\* floor, painted once on a sheet of its own until something marks it dirty;
\* the walls, boxes, bubbles and items, each painted once and kept under a key;
\* the sheets of picture tiles that arrive late, in two halves.
\*
\* A picture is the tuple of all that painting it reads: two pictures are equal
\* exactly if the same would be painted.  The board is one row of cells, so of
\* the marks that stand on several walls only the one on two in a row is
\* here.  The boards the server deals are given; boxes are pushed in module Board,
\* here a frame may find one on its way.
EXTENDS Integers, Sequences, FiniteSets, SequencesExt

CONSTANTS
    Width,      \* cells of the row
    Scale,      \* sizes in pixels that a tile may get from the window
    Boards,     \* boards the server deals: [place, tile, look, lane, cover]
    Both,       \* the two halves of a sheet: the image and its map
    Pictured,   \* places that have picture tiles
    Marked,     \* places that put a mark on two walls
    Kinds,      \* patterns that a cell's hash picks among
    Hue,        \* colours of those who place bubbles
    Items,      \* kinds of items that lie beside the board
    Numbers,    \* the numbers around the board: [text, size]
    TileMax, PropMax, SpriteMax, BubbleMax, DotMax, GlyphMax  \* what the caches hold before
                                                              \* they are emptied

Cell == 0..(Width - 1)

ASSUME ArtAssumption ==
    /\ Width \in Nat \ {0} /\ Kinds \in Nat \ {0}
    /\ Scale \subseteq 16..64
    /\ {TileMax, PropMax, SpriteMax, BubbleMax, DotMax, GlyphMax} \subseteq Nat
    /\ Items \subseteq 1..4
    /\ Numbers \in Seq([text : Seq(Nat), size : Nat])

EMPTY == 0
WALL  == 1
BLOCK == 2
BOX   == 4
RIVER  == 1
BRIDGE == 2

VARIABLES
    ts,         \* size of a tile: Art.V.TS
    board,      \* what the server dealt last
    place,      \* Art.V.place; "none" before the first WELCOME
    tile, look, lane,   \* rows of the board as far as they have come
    cover,      \* cells of the landmark: Art.landmarkCover
    coming,     \* packets of the board that are still under way
    tiles, fx,  \* the two sheets of pictures: the halves that have arrived
    art,        \* the caches
    floor,      \* what is painted on the floor's sheet
    floorDirty

boardVars == <<board, place, tile, look, lane, cover, coming>>
sheetVars == <<tiles, fx>>
artVars == <<ts, boardVars, sheetVars, art, floor, floorDirty>>

-----------------------------------------------------------------------------
\* setScale, and the numbers derived from the size of a tile on the spot

Round(n, d) == (2 * n + d) \div (2 * d)
AtLeast(low, n) == IF n < low THEN low ELSE n

px == AtLeast(2, Round(ts, 16))
WH == Round(42 * ts, 100)
CH == Round(34 * ts, 100)
dp == AtLeast(1, Round(ts, 16))

hasTiles == tiles = Both
pictured == place \in Pictured /\ hasTiles

\* A row beyond the board counts as wall, as no lane and as no look.
isWall(c) == c \in Cell => tile[c] = WALL
isLane(c) == c \in Cell /\ lane[c]
lookAt(c) == IF c \in Cell THEN look[c] ELSE 0
Hash(c) == c % Kinds

-----------------------------------------------------------------------------
\* Caches.  Baking gives the caches as they are afterwards and the picture.

Caches == [tile |-> <<>>, prop |-> <<>>, sprite |-> <<>>, bubble |-> <<>>, dot |-> <<>>,
           glyph |-> <<>>]
CacheMax == [tile |-> TileMax, prop |-> PropMax, sprite |-> SpriteMax, bubble |-> BubbleMax,
             dot |-> DotMax, glyph |-> GlyphMax]

Kept(a, sheet, key) == key \in DOMAIN a[sheet]

With(f, key, cv) == [k \in DOMAIN f \cup {key} |-> IF k \in DOMAIN f THEN f[k] ELSE cv]

\* A full cache is emptied as a whole; the new picture is drawn all the same.
Keep(a, sheet, key, cv) ==
    LET more == With(a[sheet], key, cv) IN
    [a EXCEPT ![sheet] = IF Cardinality(DOMAIN more) > CacheMax[sheet] THEN <<>> ELSE more]

Bake(a, sheet, key, cv) ==
    IF Kept(a, sheet, key) THEN [art |-> a, cv |-> a[sheet][key]]
    ELSE [art |-> Keep(a, sheet, key, cv), cv |-> cv]

\* The colours of a material are those of the place; so are a mark's.
tonePal(what) == <<what, place>>
markPal == <<"mark", place>>

\* One after the other, with the caches passed along.
InTurn(a, things, Paint(_, _)) ==
    LET done[i \in 0..Len(things)] ==
            IF i = 0 THEN [art |-> a, cv |-> <<>>]
            ELSE LET before == done[i - 1]
                     d      == Paint(before.art, things[i])
                 IN [art |-> d.art, cv |-> Append(before.cv, d.cv)]
    IN done[Len(things)]

\* A pattern of 16 by 16 dots.
bakeTile(a, what, kind) ==
    Bake(a, "tile", <<what, kind, place, dp>>, <<kind, tonePal(what), dp>>)

\* The marks share the cache of the patterns, but do not look whether it is full.
bakeMark2(a, flip) ==
    LET key == <<"M", place, dp, flip>> IN
    IF Kept(a, "tile", key) THEN [art |-> a, cv |-> a.tile[key]]
    ELSE LET cv == <<markPal, flip, dp>>
         IN [art |-> [a EXCEPT !.tile = With(@, key, cv)], cv |-> cv]

\* A mutant of WallKey: the size is left to the number of pixels in a dot,
\* which sizes share.
WallKeyByDot(kind, m) == <<"W", place, kind, m, dp>>

WallKey(kind, m) == <<"W", place, kind, m, dp, ts>>

\* A wall's front and top, with the dots of its pattern; m says which of its
\* neighbours are walls.
bakeWall(a, kind, m) ==
    LET key == WallKey(kind, m)
        top == bakeTile(a, "w", kind)
        cv  == <<"wall", m, top.cv, ts, WH>>
    IN IF Kept(a, "prop", key) THEN Bake(a, "prop", key, cv)
       ELSE Bake(top.art, "prop", key, cv)

\* The iron bands of a box that can be pushed.
paintBands(box) == IF box THEN <<"bands", ts>> ELSE <<"none">>

bakeCrate(a, kind, box) ==
    LET key == <<"C", place, kind, box, dp, ts>>
        top == bakeTile(a, "c", kind)
        cv  == <<"crate", paintBands(box), top.cv, ts, CH>>
    IN IF Kept(a, "prop", key) THEN Bake(a, "prop", key, cv)
       ELSE Bake(top.art, "prop", key, cv)

\* A picture of the sheet fx, scaled to a height.
bakeFromAtlas(a, name, h) == Bake(a, "sprite", <<"B", name, h>>, <<"fx", name, h>>)

\* A picture tile, scaled so that its foot is a cell wide: its width follows from
\* its name and the size of a cell.
bakeTileSprite(a, name) ==
    Bake(a, "sprite", <<"T", name, ts>>, <<"tile", name, ts>>)

Nothing(a) == [art |-> a, cv |-> <<"nothing">>]

\* Which of the river's pictures: its left bank, its right bank or its middle.
Bank(c) ==
    IF lookAt(c - 1) # RIVER THEN "left"
    ELSE IF lookAt(c + 1) # RIVER THEN "right" ELSE "middle"

\* A mark covers two walls of an even and an odd cell; each shows its half.  Not
\* every pair has one: the left cell's hash says which, and on which side it looks.
MarkOn(c) ==
    LET left == c - (c % 2) IN
    place \in Marked /\ Hash(left) = 0 /\ isWall(left) /\ isWall(left + 1)
Flip(c) == Hash(c \div 2) = 0

\* A cell's half of the mark.
stampMark(cv, c) == <<cv, c % 2, ts, WH>>

drawWall(a, c) ==
    LET m    == <<isWall(c - 1), isWall(c + 1)>>
        wall == bakeWall(a, Hash(c), m)
        mark == bakeMark2(wall.art, Flip(c))
    IN IF MarkOn(c) THEN [art |-> mark.art, cv |-> <<wall.cv, stampMark(mark.cv, c)>>]
       ELSE wall

\* What stands on a cell: a stretch of river, a part of the landmark (drawn at
\* its first cell), a picture tile, or the dots.
drawProp(a, c) ==
    IF tile[c] = EMPTY
    THEN Nothing(a)
    ELSE IF look[c] = RIVER /\ pictured
    THEN bakeTileSprite(a, <<place, "water", Bank(c)>>)
    ELSE IF pictured /\ c \in cover
    THEN IF c - 1 \notin cover THEN bakeTileSprite(a, <<place, "big", "0">>) ELSE Nothing(a)
    ELSE IF pictured
    THEN bakeTileSprite(a, <<place, ToString(tile[c]), ToString(Hash(c))>>)
    ELSE IF tile[c] \in {BLOCK, BOX}
    THEN bakeCrate(a, Hash(c), tile[c] = BOX)
    ELSE drawWall(a, c)

\* A bubble: hot when it is about to burst, and then throbbing.
drawBubble(a, b) ==
    LET size == Round(88 * ts, 100)
        dot  == AtLeast(1, Round(80 * ts, 1400)) + (IF b.near /\ b.beat THEN 1 ELSE 0)
        name == IF b.near = b.beat THEN (IF b.near THEN "balloon_hot" ELSE "balloon0")
                ELSE "balloon2"
    IN IF fx = Both
       THEN bakeFromAtlas(a, name, size)
       ELSE Bake(a, "bubble", <<b.near, dot, b.hex>>, <<"bubble", b.near, dot, b.hex>>)

\* A box on its way, painted in dots even where the boxes at rest are pictures.
drawCrate(a, c) == bakeCrate(a, Hash(c), TRUE)

drawDots(a, key) == Bake(a, "dot", <<key, dp>>, <<key, dp>>)

\* An icon is painted anew each time.
drawStatIcon(a, kind) == [art |-> a, cv |-> <<"icon", kind, ts>>]

\* Items lie beside the board here.  Only the best one, the star, is made of dots.
drawItem(a, kind) == IF kind = 4 THEN drawDots(a, "star") ELSE drawStatIcon(a, kind)

\* Numbers are set from dots, glyph by glyph; twice, the shadow first.
bakeGlyph(a, ch, dots, color) ==
    Bake(a, "glyph", <<ch, dots, color>>, <<ch, dots, color>>)

dotText(a, text, height, color) ==
    InTurn(a, text, LAMBDA b, ch : bakeGlyph(b, ch, AtLeast(1, Round(height, 7)), color))

bigNum(a, n) ==
    LET height == Round(78 * n.size, 100)
        shadow == dotText(a, n.text, height, "shadow")
        number == dotText(shadow.art, n.text, height, "white")
    IN [art |-> number.art, cv |-> <<shadow.cv, number.cv>>]

-----------------------------------------------------------------------------
\* The floor

Cells == [i \in 1..Width |-> i - 1]

\* A landmark throws its own shadow.
Shadow(c) == IF tile[c] = WALL /\ c \notin cover THEN <<"shadow", ts>> ELSE <<"none">>

floorCell(a, c) ==
    LET dots    == bakeTile(a, "f", Hash(c))
        picture == bakeTileSprite(a, <<place, IF look[c] = BRIDGE THEN "bridge" ELSE "floor",
                                       ToString(Hash(c))>>)
    IN IF pictured
       THEN [art |-> picture.art, cv |-> <<picture.cv, Shadow(c)>>]
       ELSE [art |-> dots.art,
             cv  |-> <<dots.cv, isLane(c), isLane(c - 1), isLane(c + 1), ts, px, Shadow(c)>>]

buildFloor(a) ==
    InTurn(a, Cells, floorCell)

-----------------------------------------------------------------------------
\* A frame

Bubbles == [near : BOOLEAN, beat : BOOLEAN, hex : Hue]

Props == [i \in 1..Width |-> <<"prop", Cells[i]>>]

Slides(moving) == SetToSeq({<<"slide", c>> : c \in moving})
Lying   == SetToSeq({<<"item", k>> : k \in Items})
Figures == [i \in DOMAIN Numbers |-> <<"number", Numbers[i]>>]

draw(a, item) ==
    CASE item[1] = "prop"   -> drawProp(a, item[2])
      [] item[1] = "slide"  -> drawCrate(a, item[2])
      [] item[1] = "bubble" -> drawBubble(a, item[2])
      [] item[1] = "item"   -> drawItem(a, item[2])
      [] item[1] = "number" -> bigNum(a, item[2])

paintSorted(a, items) ==
    InTurn(a, items, draw)

\* The floor, if it must be; the items; what stands on the board; the numbers.
Frame ==
    /\ place # "none"
    /\ LET sheet == buildFloor(art)
           after == IF floorDirty THEN sheet.art ELSE art
           still == paintSorted(after, Lying \o Props)
       IN /\ floor' = IF floorDirty THEN sheet.cv ELSE floor
          /\ \E b \in Bubbles, moving \in SUBSET {c \in Cell : tile[c] = BOX} :
                art' = paintSorted(still.art, Slides(moving) \o <<<<"bubble", b>>>> \o Figures).art
    /\ floorDirty' = FALSE
    /\ UNCHANGED <<ts, boardVars, sheetVars>>

-----------------------------------------------------------------------------
\* What changes the inputs

\* The window got another size.
resize ==
    /\ place # "none"
    /\ \E size \in Scale \ {ts} : ts' = size
    /\ floorDirty' = TRUE
    /\ floor' = <<>>
    /\ UNCHANGED <<boardVars, sheetVars, art>>

Blank(v) == [c \in Cell |-> v]

\* WELCOME: places and empty rows, and the sheets made anew.  The landmarks of
\* the board before stay until the new ones come.
Welcomed ==
    /\ \E b \in Boards : board' = b /\ place' = b.place
    /\ tile' = Blank(EMPTY) /\ look' = Blank(0) /\ lane' = Blank(FALSE)
    /\ coming' = {"rows", "landmarks"}
    /\ floorDirty' = TRUE
    /\ floor' = <<>>
    /\ UNCHANGED <<ts, cover, sheetVars, art>>

\* The one row here stands for all of them; the landmarks come last.
OnMapRow ==
    /\ "rows" \in coming
    /\ tile' = board.tile /\ look' = board.look /\ lane' = board.lane
    /\ coming' = coming \ {"rows"}
    /\ floorDirty' = TRUE
    /\ UNCHANGED <<ts, board, place, cover, sheetVars, art, floor>>

\* A mutant of OnLandmarks: the floor, with the shadows of the walls under the
\* landmark, is left as it is.
OnLandmarksQuiet ==
    /\ coming = {"landmarks"}
    /\ cover' = board.cover
    /\ coming' = {}
    /\ UNCHANGED <<ts, board, place, tile, look, lane, sheetVars, art, floor, floorDirty>>

OnLandmarks ==
    /\ coming = {"landmarks"}
    /\ cover' = board.cover
    /\ coming' = {}
    /\ floorDirty' = TRUE
    /\ UNCHANGED <<ts, board, place, tile, look, lane, sheetVars, art, floor>>

\* EVT.BLOCK
BlockGone ==
    /\ coming = {} /\ place # "none"
    /\ \E c \in Cell : tile[c] = BLOCK /\ tile' = [tile EXCEPT ![c] = EMPTY]
    /\ floorDirty' = TRUE
    /\ UNCHANGED <<ts, board, place, look, lane, cover, coming, sheetVars, art, floor>>

\* loadAtlas: the second half makes the sheet usable and forgets the sprites;
\* the tiles' callback has the floor painted again.
TilesArrive ==
    /\ \E half \in Both \ tiles : tiles' = tiles \cup {half}
    /\ IF tiles' = Both
       THEN art' = [art EXCEPT !.sprite = <<>>] /\ floorDirty' = TRUE
       ELSE UNCHANGED <<art, floorDirty>>
    /\ UNCHANGED <<ts, boardVars, fx, floor>>

FxArrive ==
    /\ \E half \in Both \ fx : fx' = fx \cup {half}
    /\ art' = IF fx' = Both THEN [art EXCEPT !.sprite = <<>>] ELSE art
    /\ UNCHANGED <<ts, boardVars, tiles, floor, floorDirty>>

InitArt ==
    /\ ts \in Scale
    /\ board \in Boards /\ place = "none"
    /\ tile = Blank(EMPTY) /\ look = Blank(0) /\ lane = Blank(FALSE)
    /\ cover = {} /\ coming = {}
    /\ tiles = {} /\ fx = {}
    /\ art = Caches
    /\ floor = <<>> /\ floorDirty = TRUE

ArtNext ==
    \/ Frame \/ resize \/ Welcomed \/ OnMapRow \/ OnLandmarks \/ BlockGone
    \/ TilesArrive \/ FxArrive

ArtSpec == InitArt /\ [][ArtNext]_artVars

-----------------------------------------------------------------------------
\* The mark says the truth: while the floor is not marked dirty, its sheet shows
\* what would be painted now from the board, the pictures and the size of the
\* window, in whatever order these came.
FloorTrue == ~floorDirty => floor = buildFloor(Caches).cv

\* No key is too coarse: whatever a frame would take from a cache now is what
\* it would have painted itself.
PicturesTrue ==
    place # "none" =>
        \A item \in Range(Lying \o Props \o Slides({c \in Cell : tile[c] = BOX}) \o Figures)
                    \cup {<<"bubble", b>> : b \in Bubbles} :
            draw(art, item).cv = draw(Caches, item).cv

=============================================================================
