CONSTANTS
  Session = {s1, s2}
  Data = {d}
  MaxLife = 2
  MaxJob = 2
SPECIFICATION JobSpec
PROPERTY JobsImplement
CHECK_DEADLOCK FALSE
