SPECIFICATION Spec
CHECK_DEADLOCK FALSE
CONSTANTS
  Frequencies <- MCFrequencies
  BitLimits = {2, 3, 4}
INVARIANTS
  ChainsOrdered
  Shortest
  PrefixFree
