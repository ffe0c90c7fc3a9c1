SPECIFICATION Spec
CONSTANTS
  Senders = {"db_up", "db_active"}
  LedOf <- DbLeds
  ColorsOf <- DbColors
  Others <- OddMessages
  NumLeds = 2
  LedTimeout = 2
  MaxTimeout = 2
  SetupDelay = 1
  Wrap = 7
  SockCap = 1
  SerialCap = 1
  SerialLoss = TRUE
INVARIANTS
  TypeOK
  ShowsOwnComponent
  StaleIsRed
PROPERTIES
  NoFalseRed
  ImplementsWatch
