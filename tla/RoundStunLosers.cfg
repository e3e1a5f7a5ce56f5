SPECIFICATION Spec
CONSTANTS
  N = 2
  Kind = "stun"
  ParentDeadlines = {NoDeadline}
  NoDeadline = NoDeadline
  Family = "6"
  Budget = 2
PROPERTIES
  LosersReleased
