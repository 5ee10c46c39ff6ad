\* Three players; sectors of three by three tiles, so that the ring has a last tile.
SPECIFICATION Spec
CONSTANTS
  Player = {0, 1, 2}
  Fighter = {1}
  Me = 1
  SectorW = 3
  SectorH = 3
  Warn <- MCWarn
  Fill <- MCFill
  Count <- MCCount
  RingStep = 1
  Escape = 2
INVARIANTS LandConnected EscapeTime ScreenTrue  RoundEnds
