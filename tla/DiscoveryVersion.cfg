SPECIFICATION Spec
CONSTANTS
  NoDeadline = NoDeadline
  DefaultAttemptTimeout = 2
  Horizon = 2
  Clients <- MCClients
  Requests = {"all"}
  CallerDeadlines = {NoDeadline}
  CustomResults <- MCAnyResults
INVARIANTS
  VersionDescribesAddress
