SPECIFICATION Spec
CONSTANTS
  WordMax = 255
  SpeedMax = 250
  CounterMax = 5
  NoFlow = NoFlow
  SEND_BUFFER_SIZE = 48
  OverflowChecks = FALSE
  PayloadLengths = {0, 1, 40, 121, 122, 200, 16377, 16378}
  TextLengths = {0, 6, 21, 22, 41, 42, 43, 44, 60}
  Shares = {0, 125, 255}
  Maxima = {NoFlow, 3, 255}
  Degrees = {0, 4, 127}
  Humidities = {0, 128, 255}
  MotorBits = {{}, {4, 7}, {0, 4}}
  WarningBits = {{}, {10}, {4, 10}, {15}}
  Nothing = Nothing
INVARIANT SentAsStandard
INVARIANT RefusesOnlyLarge
INVARIANT Understands
INVARIANT CutIsNoticed
INVARIANT MeasurementsArrive
