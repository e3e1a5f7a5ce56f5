SPECIFICATION Spec
CONSTANTS
  NoDeadline = NoDeadline
  DefaultAttemptTimeout = 5
  Participants = 3
  Totals = {1, 2, 3, 4, 5, 7, 10}
  Ceilings = {0, 1, 2}
INVARIANTS
  TypeOK
  NoneStarved
  NobodyShortchanged
  GrantIsFairWhenEnough
