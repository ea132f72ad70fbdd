SPECIFICATION WindowsSpec
CONSTANTS
  Workers = {w1}
  ReadyThreads = {r1}
  WriteThreads = {c1}
  Discrete = {s1, s2}
  MaxPending = 1
  MaxReports = 3
  NoReport = NoReport
  Files = {f1}
  Devices = {d1}
  MaxEvents = 2
  MaxLives = 1
  NoEvent = NoEvent
  TouchIds = {t1, t2, t3}
  MaxContacts = 2
  Desktops = {"default", "secure"}
  MaxSwitches = 1
  Blocks = {b1}
  Durations <- EffectDurations
  Delays = {1}
  MaxPidTime = 2
  MaxPidReports = 3
INVARIANTS WindowsTypeOK NoGhostContact EdgesInOneFrame RumbleUpToDate
PROPERTIES NewestArrives EventArrives QuietStopEnds WindowsStops
CHECK_DEADLOCK FALSE
