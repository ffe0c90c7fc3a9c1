SPECIFICATION Spec
CONSTANTS
  Boards = {"plain"}
  Prints <- OnePrints
  Tty <- OneTty
  Inner <- MCInner
  NinePrints <- MCNinePrints
  NineTty = "raw"
  SensorId <- MCId
  SensorSubId <- NoToken
  SockCap = 1
INVARIANTS
  TypeOK
  StoredIsMeasured
