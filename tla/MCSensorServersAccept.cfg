SPECIFICATION Spec
CONSTANTS
  Boards = {"mb10xx", "obstacle"}
  Prints <- MCRepoPrints
  Tty <- MCRepoTty
  Inner <- MCInner
  NinePrints <- MCNinePrints
  NineTty = "lines"
  SensorId <- MCId
  SensorSubId <- OneToken
  SockCap = 1
INVARIANTS
  LinesAccepted
