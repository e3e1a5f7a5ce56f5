SPECIFICATION Spec
CONSTANTS
  DataLengths = {0, 19, 20, 23, 28, 31, 52, 60}
  BodyLengths = {0, 3, 8, 11, 12, 32, 40}
  AttrLengths = {0, 1, 4, 7, 8, 12, 19, 20, 65535}
INVARIANTS
  TypeOK
  SlicesInBounds
  FindsTheAnswer
PROPERTIES
  LoopShrinks
