SPECIFICATION Spec
CONSTANTS
  Clients = {c1, c2}
  NoClient = NoClient
  LicenseRequests = {"activate"}
  Plans = {"lifetime"}
  MaxDevices = 1
  MaxDriverRestarts = 1
  RetryInterval = 1
  ValidationInterval = 2
  OutageRetention = 1
  EvaluationWindow = 1
  GitHubActions = FALSE
INVARIANT OwnerTracked
