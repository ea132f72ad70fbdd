SPECIFICATION Spec
CONSTANTS
  Clients = {c1}
  NoClient = NoClient
  LicenseRequests = {"validate", "activate", "deactivate"}
  Plans = {"lifetime"}
  MaxDevices = 2
  MaxDriverRestarts = 1
  RetryInterval = 1
  ValidationInterval = 2
  OutageRetention = 1
  EvaluationWindow = 1
  GitHubActions = FALSE
INVARIANTS TypeOK RevocationPending NoOrphanGamepad UnconfirmedCap ValidationScheduled
PROPERTY OutageKeepsOne
