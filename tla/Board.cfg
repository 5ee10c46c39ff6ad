\* Two players with one bubble each, around a box that can be pushed twice.
SPECIFICATION Spec
CONSTANTS
  Width = 4
  Height = 2
  Walls <- MCWalls
  Blocks <- MCBlocks
  Boxes <- MCBoxes
  Owner = {p, q}
  Limit = 1
  Reach = 2
  MaxBubble = 2
  MaxSlide = 2
  FuseTicks = 2
  ChainStep = 2
  BlastTicks = 1
  SlideTicks = 2
  MaxItem = 1
SYMMETRY Symmetry
INVARIANTS TilesInv ChainRhythm 
