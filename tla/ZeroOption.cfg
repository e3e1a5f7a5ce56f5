SPECIFICATION HTTPSpec
CONSTANTS
  OptionLists <- MCOptionLists
  CallerArrays <- MCCallerArrays
  Items <- MCItems
  Written = {"http"}
  DefaultAttemptTimeout = 2
  Attempts = {a1, a2}
  Conns = {c1, c2}
  Bodies <- MCBodies
  Limit = 2
INVARIANTS
  ZeroLeavesTheDefault
