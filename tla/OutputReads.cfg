SPECIFICATION Spec
CONSTANTS
  Files = {f1}
  Devices = {d1, d2}
  MaxEvents = 2
  MaxLives = 2
  NoEvent = NoEvent
INVARIANTS OneHolder NoneWaitsInVain InOrder
PROPERTY ImplementsStream
CHECK_DEADLOCK FALSE
