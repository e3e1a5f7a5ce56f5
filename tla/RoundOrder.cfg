SPECIFICATION Spec
CONSTANTS
  N = 2
  Kind = "query"
  ParentDeadlines = {NoDeadline}
  NoDeadline = NoDeadline
  Family = "6"
  Budget = 2
INVARIANTS
  FailuresInOrder
