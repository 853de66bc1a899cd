SPECIFICATION FairSpec
CONSTANTS
  Unknown = Unknown
  Other = Other
  MaxAttempts = 3
  Capacity = 2
  MaxCommands = 4
INVARIANTS IInv BelievesContact LatestCommandWins HomeHasBelief
PROPERTIES ComesToRest
