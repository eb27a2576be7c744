CONSTANTS
  LastMatch = 1
  Games <- OneTied
SPECIFICATION Spec
INVARIANTS
  EveryRowFollowsGraph
CHECK_DEADLOCK FALSE
