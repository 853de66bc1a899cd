SPECIFICATION Spec
CONSTANTS
  SetPoint = {0, 1, 2, 3}
  LOW = 1
  MEDIUM = 2
  HIGH = 3
  Running = {0, 3}
  Unknown = Unknown
  AboveMax = AboveMax
  NoRequest = NoRequest
  MaxAttempts = 3
  Outcomes = {"acknowledged", "lost"}
  MaxInputs = 1
INVARIANTS OutOfSyncIsShown
