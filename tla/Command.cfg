SPECIFICATION Spec
CONSTANTS
  NoDeadline = NoDeadline
  DefaultAttemptTimeout = 2
  FlagSets <- MCFlagSets
  Hosts = {h1, h2}
  Second = 2
  Width = 4
INVARIANTS
  TypeOK
  FirstReportersWin
  NothingPassedOver
  BudgetMessageIsTrue
  FailsEmptyHanded
  CommandIsBounded
SYMMETRY MCSymmetry
