SPECIFICATION Spec
CONSTANTS
  N = 3
  Kind = "query"
  ParentDeadlines = {NoDeadline, 1}
  NoDeadline = NoDeadline
  Family = "6"
  Budget = 2
PROPERTIES
  RaceContract
  LosersReleased
