\* Five connections, three seats, two bots.
SPECIFICATION FairSpec
CONSTANTS
  Session = {s1, s2, s3, s4, s5}
  NoSession = NoSession
  Capacity = 3
  BotTarget = 2
  Spawn = {a, b, c, d}
  CountdownTicks = 2
  OverTicks = 1
  PlayLimit = 2
INVARIANTS BoardInv EverybodyTold
PROPERTIES FairPlay EverybodyPlays
