\* Two requests, two ports, a limit of one room; one page with its old and new socket.
SPECIFICATION FairSpec
CONSTANTS
  ReqCount = 2
  Page = {p1}
  ConnCount = 2
  RoomMax = 1
  PortCount = 2
  Main = Main
  Lobby = Lobby
INVARIANTS BridgeInv NoOrphans
PROPERTIES NobodyKicked IdleRoomsEnd
CHECK_DEADLOCK FALSE
