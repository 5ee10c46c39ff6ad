\* Caches so small that they are emptied again and again.
SPECIFICATION ArtSpec
CONSTANTS
  Width = 4
  Scale = {24, 32}
  Boards <- MCBoards
  Both = {png, json}
  Pictured = {"village"}
  Marked = {"harbour"}
  Kinds = 2
  Hue = {"red"}
  Items = {1, 4}
  Numbers <- MCNumbers
  TileMax = 2
  PropMax = 1
  SpriteMax = 1
  BubbleMax = 1
  DotMax = 1
  GlyphMax = 1
SYMMETRY Symmetry
INVARIANTS FloorTrue PicturesTrue
