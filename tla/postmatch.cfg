CONSTANTS
  LastMatch = 3
  Games <- Varied
SPECIFICATION Spec
INVARIANTS
  RowsFollowGraph
  RatingsAreReal
PROPERTIES
  ExactNeverLost
  InferenceIsReal
CHECK_DEADLOCK FALSE
