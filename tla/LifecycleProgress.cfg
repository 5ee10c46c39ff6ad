\* Fair threads; no symmetry, since the properties are temporal.
SPECIFICATION FairSpec
CONSTANTS
  Session = {s1}
  NoSession = NoSession
  Worker = {w1}
  MaxSession = 1
  MaxLife = 2
  MaxJob = 1
  SendCap = 1
  MaxSeat = 1
  EarlyClose = FALSE
  Deadline = FALSE
PROPERTIES ClosedIsFreed ShutdownEnds
