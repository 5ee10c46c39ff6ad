CONSTANTS
  Header = 2
  MaxPacket = 3
  Size = 6
  Sizes = {1, 2, 3, 4}
  MaxWire = 4
SPECIFICATION FairSpec
INVARIANT FramingInv
PROPERTIES Implements PacketsGetThrough
CHECK_DEADLOCK FALSE
