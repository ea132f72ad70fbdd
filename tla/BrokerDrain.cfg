SPECIFICATION FairSpec
CONSTANTS
  Clients = {c1}
  NoClient = NoClient
  LicenseRequests = {"activate"}
  Plans = {"yearly"}
  MaxDevices = 1
  MaxDriverRestarts = 0
  RetryInterval = 1
  ValidationInterval = 2
  OutageRetention = 1
  EvaluationWindow = 1
  GitHubActions = FALSE
PROPERTY OverdueGo
