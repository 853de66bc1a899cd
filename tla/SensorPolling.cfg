SPECIFICATION FairSpec
CONSTANTS
  WordMax = 255
  SpeedMax = 250
  CounterMax = 6
  NoFlow = NoFlow
  SteadyFor = 5
  GiveUpAfter = 11
  SettleInterval = 2
  Capacity = 1
  MaxChanges = 3
  Flow = {0, 1, 2, 3}
  NoWatcher = NoWatcher
INVARIANT IInv
INVARIANT SameMoment
INVARIANT BoundedFastCadence
PROPERTY StopsOnlyWhenSteady
PROPERTY FollowsChanges
PROPERTY ComesBack
