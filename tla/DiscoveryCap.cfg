SPECIFICATION Spec
CONSTANTS
  NoDeadline = NoDeadline
  DefaultAttemptTimeout = 2
  Horizon = 2
  Clients <- MCStunOnly
  Requests = {"all"}
  CallerDeadlines = {NoDeadline}
  CustomResults <- MCCustomResults
INVARIANTS
  CapIsKept
