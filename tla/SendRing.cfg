CONSTANTS
  Byte = {0, 1}
  Size = 5
  MaxPacket = 3
SPECIFICATION Spec
INVARIANT RingInv
PROPERTIES Implements
CHECK_DEADLOCK FALSE
