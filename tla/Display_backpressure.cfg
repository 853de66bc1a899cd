SPECIFICATION FairSpec
CONSTANTS
  SetPoint = {0, 3}
  LOW = 1
  MEDIUM = 2
  Unknown = Unknown
  Capacity = 3
  MaxConfirms = 4
INVARIANTS IInv NeverUnreachable HomeHasShownSpeed NoSpeedTwice StateFitsSpeed
PROPERTIES EventuallyShown
