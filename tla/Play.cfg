\* Six units to a tile, a body of five: near the proportions of 256 and 205.
SPECIFICATION FairSpec
CONSTANTS
  Tile = 6
  Half = 2
  MapW = 4
  MapH = 4
  MoveBase = 2
  MoveStep = 1
  TrapSpeed = 1
  MaxLevel = 1
  Walls <- MCWalls
  Spawn <- MCSpawn
  Spots <- MCSpots
  Left = {"ArrowLeft"}
  Right = {"TouchRight"}
  Up = {}
  Down = {"s"}
  Touch = {"TouchRight"}
  UpMax = 1
  DownMax = 1
  LeadMax = 1
INVARIANTS SameStep OutOfWalls KeysObeyed
PROPERTIES Settles
