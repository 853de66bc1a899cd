SPECIFICATION Spec
CONSTANTS
  SetPoint = {0, 1, 2, 3}
  LOW = 1
  MEDIUM = 2
  HIGH = 3
  Running = {3, AboveMax}
  Unknown = Unknown
  AboveMax = AboveMax
  NoRequest = NoRequest
  MaxAttempts = 2
  Outcomes = {"acknowledged", "unacknowledged", "lost"}
  MaxInputs = 2
INVARIANTS IInv AtMostTwoCorrections RestoresRunningSpeed LatestRequestWins StaysInSync
PROPERTIES ShowsConfirmedSpeed
