SPECIFICATION FairSpec
CONSTANTS
  Senders = {"db_up"}
  LedOf <- OneLed
  ColorsOf <- OneColor
  Others <- NoMessages
  NumLeds = 2
  LedTimeout = 2
  MaxTimeout = 2
  SetupDelay = 1
  Wrap = 7
  SockCap = 2
  SerialCap = 1
  SerialLoss = FALSE
PROPERTIES
  SilentGoesRed
  RunningIsShown
