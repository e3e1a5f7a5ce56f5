SPECIFICATION Spec
CONSTANTS
  NoDeadline = NoDeadline
  DefaultAttemptTimeout = 2
  Horizon = 2
  Clients <- MCClients
  Requests = {"all", "dns", "stun", "router"}
  CallerDeadlines = {NoDeadline, 0, 1, 3, 6}
  CustomResults <- MCCustomResults
INVARIANTS
  TypeOK
  FamilyPromise
  PrefersIPv6
  FallbackIsExhaustive
  QueriesNeverStarve
  TimedOutIsTrue
  LastOwnsRemainder
  OneLastAttempt
PROPERTIES
  DiscoveryIsCall
  EveryCallReturns
