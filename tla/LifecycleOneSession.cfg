\* One address, two workers: every race on one session.
SPECIFICATION Spec
CONSTANTS
  Session = {s1}
  NoSession = NoSession
  Worker = {w1, w2}
  MaxSession = 1
  MaxLife = 2
  MaxJob = 1
  SendCap = 2
  MaxSeat = 1
  EarlyClose = FALSE
  Deadline = TRUE
SYMMETRY Symmetry
INVARIANTS TypeInv RefsBalance    BuffersOwned
