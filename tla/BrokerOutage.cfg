SPECIFICATION FairSpec
CONSTANTS
  Clients = {c1}
  NoClient = NoClient
  LicenseRequests = {"activate"}
  Plans = {"lifetime"}
  MaxDevices = 2
  MaxDriverRestarts = 0
  RetryInterval = 1
  ValidationInterval = 2
  OutageRetention = 1
  EvaluationWindow = 1
  GitHubActions = FALSE
PROPERTY OutageTrims
