SPECIFICATION FairSpec
CONSTANTS
  Device = {fan1, fan2}
  Function = {"write_register", "read_register"}
  Register = {setPoint, maximum}
  Writable = {setPoint}
  Value = {0, 3}
  MaxStray = 2
  MaxBuffer = 8
  MaxNoise = 2
  MaxOwed = 2
  Faults = {"unsent", "silent", "refused", "mute"}
  fan1 = fan1
  fan2 = fan2
  setPoint = setPoint
  maximum = maximum
  Other = Other
  Mangled = Mangled
  Line = Line
  NoAnswer = NoAnswer
INVARIANTS
  AnswersRequest
