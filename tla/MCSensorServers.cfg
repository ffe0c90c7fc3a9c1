SPECIFICATION FairSpec
CONSTANTS
  Boards = {"plain", "other"}
  Prints <- MCPrints
  Tty <- MCTty
  Inner <- MCInner
  NinePrints <- NoNinePrints
  NineTty = "lines"
  SensorId <- MCId
  SensorSubId <- NoToken
  SockCap = 1
INVARIANTS
  OwnLines
  StoredIsMeasured
PROPERTIES
  BoardsGetThrough
