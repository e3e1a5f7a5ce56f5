SPECIFICATION Spec
CONSTANTS
  N = 2
  Kind = "stun"
  ParentDeadlines = {NoDeadline, 1, 2}
  NoDeadline = NoDeadline
  Family = "6"
  Budget = 2
INVARIANTS
  TypeOK
  NoSendOnClosed
  SendsNeverBlock
  EveryLossReported
  NoAnswerDiscarded
PROPERTIES
  RoundIsRace
  EveryGoroutineEnds
