SPECIFICATION Spec
CONSTANTS
  Clients = {c1}
  NoClient = NoClient
  LicenseRequests = {"validate", "activate", "deactivate"}
  Plans = {"lifetime"}
  MaxDevices = 1
  MaxDriverRestarts = 0
  RetryInterval = 1
  ValidationInterval = 2
  OutageRetention = 1
  EvaluationWindow = 1
  GitHubActions = FALSE
INVARIANT RetryCadence
