SPECIFICATION FairSpec
CONSTANTS
  Files = {f1}
  Devices = {d1}
  MaxEvents = 1
  MaxLives = 1
  NoEvent = NoEvent
PROPERTY StopEnds
CHECK_DEADLOCK FALSE
