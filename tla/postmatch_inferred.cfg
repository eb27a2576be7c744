CONSTANTS
  LastMatch = 3
  Games <- ThreeTied
SPECIFICATION Spec
INVARIANTS
  InferredIsReal
CHECK_DEADLOCK FALSE
