SPECIFICATION MCSpec
CONSTANTS
  Bits = 3
  MaxRoutes = 4
  MaxExcluded = 1
  OctetBits = 2
  Groups = 8
  GroupValues = {0, 1, 2}
INVARIANTS
  ListIsLongestMatch
  DoneApart
  MaskLength
  NormalIsFirst
  ReadsBack
PROPERTIES
  LoopEnds
