SPECIFICATION LinuxSpec
CONSTANTS
  Contacts = {c1, c2, c3}
  Spots = {p1, p2}
  MaxSlots = 2
  TrackingIds = 2
  MaxTouchFailures = 1
  Keys = {"ctrl"}
  MaxKeyCalls = 2
  MaxKeyFailures = 1
  Levels <- PenLevels
  PressureMax = 1
  DistanceMax = 1
  MaxPenFailures = 1
  EffectIds = {1}
  Shapes <- RumbleShapes
  MaxMagnitude = 2
  MaxRumbleTime = 4
  MaxRumbleEvents = 3
  MaxStates = 2
  MaxKernelEvents = 2
  MaxUhidFailures = 1
  MaxHeld = 1
  MaxPadFailures = 1
  Threads = {t1, t2}
  Devices = {d1, d2}
  MaxCalls = 4
  MaxOutputs = 1
INVARIANTS LinuxTypeOK KernelShowsContacts LatePressAtMostOnce OneToolInOneContact
           SilentAfterClose PadShown ReportsAsDeclared NoUseAfterClose
PROPERTIES NeverStale RequestsAnswered LinuxCallsEnd CallsReturn
CHECK_DEADLOCK FALSE
