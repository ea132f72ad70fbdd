SPECIFICATION Spec
CONSTANTS
  Workers = {w1}
  ReadyThreads = {r1, r2}
  WriteThreads = {c1}
  Discrete = {d1, d2}
  MaxPending = 2
  MaxReports = 4
  NoReport = NoReport
INVARIANTS TypeOK NoSubmissionAfterDelete OneReportAtATime BufferAlive NothingStranded
PROPERTY ImplementsStream
SYMMETRY Symmetry
CHECK_DEADLOCK FALSE
