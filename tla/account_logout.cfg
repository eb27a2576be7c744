CONSTANTS
  Refreshers = {"r1", "r2"}
  MaxTokens = 3
  MaxClicks = 2
SPECIFICATION AuthSpec
INVARIANTS
  LogoutIsFinal
CHECK_DEADLOCK FALSE
